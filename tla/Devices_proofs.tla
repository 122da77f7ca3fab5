--------------------------- MODULE Devices_proofs ---------------------------
(***************************************************************************)
(* Proofs about the small parts of the layer and about their composition.  *)
(* Devices lets one part of them all run; what is proved of a part by      *)
(* itself holds of it there.                                               *)
(***************************************************************************)
EXTENDS Devices, UartDrv_proofs, Settings_proofs, SrcMatch_proofs, TLAPS

-----------------------------------------------------------------------------
(* The SPI slave.  With the driver of spidrv_usart.c the size a transaction *)
(* end reports is the number of bytes the host has taken, for every depth   *)
(* of the FIFO, every length and every moment.  What DMA has moved since    *)
(* the transfer was started is in the FIFO or with the host.                *)

\* The bytes DMA has moved, over both descriptors.
Moved == length0 - txDma.left + (IF txDma.descriptor = 1 THEN MaxXfer ELSE 0)

CallTypes ==
    /\ prepare \in [by : {"nobody", "interrupt", "main"},
                    stage : {"none", "stopped", "set", "start"}, len : 0..MaxXfer]
    /\ armed \in BOOLEAN /\ hostRequest \in BOOLEAN

PreparedStopped ==
    prepare.stage # "none" => spi = "on" /\ ~txDma.running /\ prepare.len > 0
PreparedEmpty ==
    prepare.stage \in {"set", "start"} => txFifo = 0 /\ length0 = prepare.len
ArmedOn   == armed => spi = "on"
MovedOnce == armed => Moved = taken + txFifo

SpiInv ==
    /\ SpiTypeOK /\ CallTypes
    /\ PreparedStopped /\ PreparedEmpty /\ ArmedOn /\ MovedOnce

\* The type invariant in two parts: what the provers take apart differently.
NumberTypes ==
    /\ spi \in {"off", "on", "stuck"}
    /\ taken \in 0..MaxTaken /\ txFifo \in 0..FifoDepth
    /\ txDma \in [descriptor : {0, 1}, left : 0..MaxXfer, running : BOOLEAN]
    /\ length0 \in 1..MaxXfer
FlagTypes ==
    /\ selected \in BOOLEAN /\ risingEdge \in BOOLEAN
    /\ should_process_transaction \in BOOLEAN /\ inProcess \in BOOLEAN
    /\ unprocessed \in BOOLEAN /\ overlapped \in BOOLEAN

LEMMA TypeParts == CallTypes => (SpiTypeOK <=> NumberTypes /\ FlagTypes)
  BY DEF CallTypes, SpiTypeOK, NumberTypes, FlagTypes

LEMMA Bounds ==
    /\ FifoDepth \in Nat /\ MaxXfer \in Nat /\ MaxTaken \in Nat
    /\ MaxXfer \in 0..MaxXfer /\ 1 \in 1..MaxXfer
    /\ 0 \in 0..MaxXfer /\ 0 \in 0..FifoDepth /\ 0 \in 0..MaxTaken
    /\ \A len \in Lens : len \in 1..MaxXfer /\ len \in 0..MaxXfer /\ len > 0
  BY SpiAssumption

LEMMA SpiInitInv == SpiInit => SpiInv
<1> SUFFICES ASSUME SpiInit PROVE SpiInv
  OBVIOUS
<1>1. CallTypes /\ prepare.stage = "none" /\ ~armed
  BY Bounds DEF SpiInit, CallTypes, NotPreparing
<1>2. SpiTypeOK
  BY <1>1, Bounds DEF SpiInit, SpiTypeOK, CallTypes
<1> QED BY <1>1, <1>2 DEF SpiInv, PreparedStopped, PreparedEmpty, ArmedOn, MovedOnce

\* A call of the stack starts with DMA stopped, or gives up at once.
LEMMA CallsType ==
    ASSUME CallTypes, NEW c \in {"interrupt", "main"}, Calls(c)
    PROVE  /\ prepare' \in [by : {"nobody", "interrupt", "main"},
                            stage : {"none", "stopped"}, len : 0..MaxXfer]
           /\ prepare'.stage # "none" => ~selected /\ prepare'.len > 0
  BY Bounds DEF Calls, NotPreparing

LEMMA HostKeeps ==
    ASSUME SpiInv, HostSelects \/ HostClocks \/ HostReleases \/ DmaFills
    PROVE  SpiInv'
<1>1. CASE HostSelects
  BY <1>1 DEF HostSelects, SpiInv, SpiTypeOK, CallTypes, PreparedStopped, PreparedEmpty,
     ArmedOn, MovedOnce, Moved, txVarsSpi, callVars, processVars
<1>2. CASE HostReleases
  <2>1. /\ UNCHANGED <<spi, taken, txVarsSpi, callVars, processVars>> /\ selected' = FALSE
        /\ risingEdge' \in BOOLEAN
    BY <1>2 DEF HostReleases
  <2>2. SpiTypeOK' /\ CallTypes'
    <3>1. CallTypes'
      BY <2>1 DEF SpiInv, CallTypes, callVars
    <3>2. NumberTypes'
      BY <2>1, TypeParts DEF SpiInv, NumberTypes, txVarsSpi
    <3>3. FlagTypes'
      BY <2>1, TypeParts DEF SpiInv, FlagTypes, processVars
    <3> QED BY <3>1, <3>2, <3>3 DEF CallTypes, SpiTypeOK, NumberTypes, FlagTypes
  <2> QED BY <2>1, <2>2 DEF SpiInv, PreparedStopped, PreparedEmpty, ArmedOn, MovedOnce, Moved,
             txVarsSpi, callVars
<1>3. CASE HostClocks
  <2>1. /\ UNCHANGED <<spi, txDma, length0, prepare, armed>>
        /\ txFifo > 0 /\ txFifo' = txFifo - 1 /\ taken' = taken + 1
    BY <1>3 DEF HostClocks, callVars
  <2>2. SpiTypeOK' /\ CallTypes'
    BY <1>3, Bounds DEF HostClocks, SpiInv, SpiTypeOK, CallTypes, callVars, processVars
  <2>3. PreparedStopped' /\ PreparedEmpty' /\ ArmedOn'
    BY <2>1 DEF SpiInv, PreparedStopped, PreparedEmpty, ArmedOn
  <2>4. MovedOnce'
    BY <2>1, Bounds DEF SpiInv, SpiTypeOK, MovedOnce, Moved
  <2> QED BY <2>2, <2>3, <2>4 DEF SpiInv
<1>4. CASE DmaFills
  <2>1. prepare.stage = "none" /\ txDma.left \in 1..MaxXfer
    BY <1>4, Bounds DEF DmaFills, SpiInv, SpiTypeOK, CallTypes, PreparedStopped
  <2>2. UNCHANGED <<spi, hostVars, length0, callVars, processVars>> /\ txFifo' = txFifo + 1
    BY <1>4 DEF DmaFills
  <2>3. /\ txDma' \in [descriptor : {0, 1}, left : 0..MaxXfer, running : BOOLEAN]
        /\ Moved' = Moved + 1
    <3>1. CASE txDma.descriptor = 0 /\ txDma.left = 1
      <4>1. txDma' = [txDma EXCEPT !.descriptor = 1, !.left = MaxXfer]
        BY <1>4, <3>1 DEF DmaFills
      <4>2. /\ txDma' \in [descriptor : {0, 1}, left : 0..MaxXfer, running : BOOLEAN]
            /\ txDma'.descriptor = 1 /\ txDma'.left = MaxXfer
        BY <4>1, Bounds DEF SpiInv, SpiTypeOK
      <4> QED BY <2>2, <3>1, <4>2, Bounds DEF SpiInv, SpiTypeOK, Moved
    <3>2. CASE ~(txDma.descriptor = 0 /\ txDma.left = 1)
      BY <1>4, <2>1, <2>2, <3>2, Bounds DEF DmaFills, SpiInv, SpiTypeOK, Moved
    <3> QED BY <3>1, <3>2
  <2>4. SpiTypeOK' /\ CallTypes'
    BY <1>4, <2>2, <2>3, Bounds DEF DmaFills, SpiInv, SpiTypeOK, CallTypes,
       hostVars, callVars, processVars
  <2>5. PreparedStopped' /\ PreparedEmpty' /\ ArmedOn'
    BY <2>1, <2>2 DEF SpiInv, PreparedStopped, PreparedEmpty, ArmedOn, callVars
  <2>6. MovedOnce'
    BY <2>2, <2>3, Bounds DEF SpiInv, SpiTypeOK, MovedOnce, Moved, hostVars, callVars
  <2> QED BY <2>4, <2>5, <2>6 DEF SpiInv
<1> QED BY <1>1, <1>2, <1>3, <1>4

LEMMA EndKeeps ==
    ASSUME SpiInv, TransactionEnd
    PROVE  SpiInv'
<1>1. /\ Calls("interrupt") /\ CallTypes /\ spi = "on" /\ ~armed'
      /\ txDma' = [txDma EXCEPT !.running = FALSE]
  BY DEF TransactionEnd, SpiInv
<1>2. txFifo' \in 0..FifoDepth
  BY Bounds DEF TransactionEnd, FifoCounted, SpiInv, SpiTypeOK
<1>3. SpiTypeOK' /\ CallTypes'
  BY <1>1, <1>2, CallsType, Bounds DEF TransactionEnd, Requested, SpiInv, SpiTypeOK,
     CallTypes
<1>4. PreparedStopped' /\ PreparedEmpty' /\ ArmedOn' /\ MovedOnce'
  BY <1>1, CallsType DEF TransactionEnd, SpiInv, SpiTypeOK, PreparedStopped, PreparedEmpty,
     ArmedOn, MovedOnce
<1> QED BY <1>3, <1>4 DEF SpiInv

LEMMA BeginKeeps ==
    ASSUME SpiInv, PrepareBegins
    PROVE  SpiInv'
<1>1. /\ Calls("main") /\ CallTypes /\ spi = "on" /\ armed' = armed
      /\ txDma' = [txDma EXCEPT !.running = @ /\ selected]
  BY DEF PrepareBegins, SpiInv
<1>2. SpiTypeOK' /\ CallTypes'
  BY <1>1, CallsType DEF PrepareBegins, SpiInv, SpiTypeOK, CallTypes,
     hostVars, processVars
<1>3. PreparedStopped' /\ PreparedEmpty' /\ ArmedOn'
  BY <1>1, CallsType DEF PrepareBegins, SpiInv, SpiTypeOK, PreparedStopped, PreparedEmpty,
     ArmedOn
<1>4. MovedOnce'
  BY <1>1 DEF PrepareBegins, SpiInv, SpiTypeOK, MovedOnce, Moved, hostVars
<1> QED BY <1>2, <1>3, <1>4 DEF SpiInv

LEMMA PreparesKeeps ==
    ASSUME SpiInv, Prepares
    PROVE  SpiInv'
<1>1. CASE GivesUp("stopped") \/ GivesUp("set")
  <2>1. prepare' = NotPreparing /\ armed' = FALSE
        /\ UNCHANGED <<spi, hostVars, txVarsSpi, hostRequest, processVars>>
    BY <1>1 DEF GivesUp
  <2>2. CallTypes' /\ prepare'.stage = "none"
    BY <2>1, Bounds DEF SpiInv, CallTypes, NotPreparing
  <2>3. SpiTypeOK'
    BY <2>1, <2>2, Bounds DEF SpiInv, SpiTypeOK, CallTypes, hostVars, txVarsSpi,
       processVars
  <2> QED BY <2>1, <2>2, <2>3 DEF SpiInv, PreparedStopped, PreparedEmpty, ArmedOn, MovedOnce
<1>2. CASE SetsDescriptor
  <2>1. /\ prepare' = [prepare EXCEPT !.stage = "set"] /\ armed' = FALSE
        /\ txFifo' = 0 /\ length0' = prepare.len
        /\ UNCHANGED <<spi, hostVars, txDma, hostRequest, processVars>>
        /\ prepare.stage = "stopped"
    BY <1>2 DEF SetsDescriptor
  <2>2. /\ CallTypes' /\ prepare'.stage = "set" /\ prepare'.len = prepare.len
    BY <2>1 DEF SpiInv, CallTypes
  <2>3. /\ spi = "on" /\ ~txDma.running /\ prepare.len \in 1..MaxXfer
    BY <2>1, Bounds DEF SpiInv, CallTypes, PreparedStopped
  <2>4. SpiTypeOK'
    BY <2>1, <2>2, <2>3, Bounds DEF SpiInv, SpiTypeOK, CallTypes, hostVars, processVars
  <2> QED BY <2>1, <2>2, <2>3, <2>4 DEF SpiInv, PreparedStopped, PreparedEmpty, ArmedOn,
             MovedOnce
<1>3. CASE LooksAgain
  BY <1>3, Bounds DEF LooksAgain, SpiInv, SpiTypeOK, CallTypes, PreparedStopped,
     PreparedEmpty, ArmedOn, MovedOnce, Moved, hostVars, txVarsSpi, processVars
<1>4. CASE StartsTransfer
  <2>1. /\ prepare' = NotPreparing /\ armed' = TRUE /\ taken' = 0
        /\ hostRequest' \in BOOLEAN
        /\ txDma' = [descriptor |-> 0, left |-> prepare.len, running |-> TRUE]
        /\ UNCHANGED <<spi, selected, risingEdge, txFifo, length0, processVars>>
        /\ prepare.stage = "start"
    BY <1>4 DEF StartsTransfer
  <2>2. CallTypes' /\ prepare'.stage = "none"
    BY <2>1, Bounds DEF CallTypes, NotPreparing
  <2>3. /\ spi = "on" /\ txFifo = 0 /\ length0 = prepare.len
        /\ prepare.len \in 1..MaxXfer
    BY <2>1, Bounds DEF SpiInv, CallTypes, PreparedStopped, PreparedEmpty
  <2>4. SpiTypeOK'
    BY <2>1, <2>2, <2>3, Bounds DEF SpiInv, SpiTypeOK, CallTypes, processVars
  <2>5. MovedOnce'
    BY <2>1, <2>3 DEF MovedOnce, Moved
  <2> QED BY <2>1, <2>2, <2>3, <2>4, <2>5 DEF SpiInv, PreparedStopped, PreparedEmpty, ArmedOn
<1> QED BY <1>1, <1>2, <1>3, <1>4 DEF Prepares

LEMMA DriverKeeps ==
    ASSUME SpiInv, efr32SpiProcess \/ otPlatSpiSlaveEnable \/ otPlatSpiSlaveDisable
    PROVE  SpiInv'
<1>1. CASE efr32SpiProcess
  <2>1. UNCHANGED <<spi, hostVars, txVarsSpi, callVars>>
    BY <1>1 DEF efr32SpiProcess, ProcessBegins, ProcessEnds
  <2>2. SpiTypeOK' /\ CallTypes'
    <3>1. CallTypes'
      BY <2>1 DEF SpiInv, CallTypes, callVars
    <3>2. NumberTypes'
      BY <2>1, TypeParts DEF SpiInv, NumberTypes, hostVars, txVarsSpi
    <3>3. FlagTypes'
      BY <1>1, TypeParts DEF efr32SpiProcess, ProcessBegins, ProcessEnds, SpiInv, FlagTypes,
         hostVars
    <3> QED BY <3>1, <3>2, <3>3 DEF CallTypes, SpiTypeOK, NumberTypes, FlagTypes
  <2> QED BY <2>1, <2>2 DEF SpiInv, PreparedStopped, PreparedEmpty, ArmedOn, MovedOnce, Moved,
             hostVars, txVarsSpi, callVars
<1>2. CASE otPlatSpiSlaveEnable
  <2>1. /\ ~armed /\ prepare.stage = "none"
        /\ UNCHANGED <<hostVars, callVars, inProcess, unprocessed, overlapped>>
    BY <1>2 DEF otPlatSpiSlaveEnable, SpiInv, CallTypes, ArmedOn, PreparedStopped
  <2>2. /\ spi' \in {"on", "stuck"} /\ length0' = 1 /\ should_process_transaction' = FALSE
        /\ txFifo' \in {0, txFifo}
        /\ \/ txDma' = txDma
           \/ txDma' = [descriptor |-> 1, left |-> MaxXfer, running |-> TRUE]
    BY <1>2 DEF otPlatSpiSlaveEnable, Enabled, LeftDisabled
  <2>3. SpiTypeOK' /\ CallTypes'
    <3>1. CallTypes'
      BY <2>1 DEF SpiInv, CallTypes, callVars
    <3>2. NumberTypes'
      <4>1. NumberTypes
        BY TypeParts DEF SpiInv
      <4>2. taken' = taken
        BY <2>1 DEF hostVars
      <4>3. txDma' \in [descriptor : {0, 1}, left : 0..MaxXfer, running : BOOLEAN]
        <5>1. MaxXfer \in 0..MaxXfer
          BY Bounds
        <5>2. [descriptor |-> 1, left |-> MaxXfer, running |-> TRUE]
                 \in [descriptor : {0, 1}, left : 0..MaxXfer, running : BOOLEAN]
          BY <5>1
        <5>3. txDma \in [descriptor : {0, 1}, left : 0..MaxXfer, running : BOOLEAN]
          BY <4>1 DEF NumberTypes
        <5> QED BY <2>2, <5>2, <5>3, Zenon
      <4>4. txFifo' \in 0..FifoDepth
        BY <2>2, <4>1, Bounds, Zenon DEF NumberTypes
      <4> QED BY <2>2, <4>1, <4>2, <4>3, <4>4, Bounds DEF NumberTypes
    <3>3. FlagTypes'
      <4>1. FlagTypes
        BY TypeParts DEF SpiInv
      <4> QED BY <2>1, <2>2, <4>1 DEF FlagTypes, hostVars
    <3> QED BY <3>1, <3>2, <3>3 DEF CallTypes, SpiTypeOK, NumberTypes, FlagTypes
  <2>4. ~armed' /\ prepare'.stage = "none"
    BY <2>1 DEF callVars
  <2> QED BY <2>3, <2>4 DEF SpiInv, PreparedStopped, PreparedEmpty, ArmedOn, MovedOnce
<1>3. CASE otPlatSpiSlaveDisable
  <2>1. /\ ~armed' /\ prepare.stage = "none" /\ prepare' = prepare
        /\ txDma' = [txDma EXCEPT !.running = FALSE]
    BY <1>3 DEF otPlatSpiSlaveDisable, NotPreparing
  <2>2. SpiTypeOK' /\ CallTypes'
    BY <1>3, <2>1 DEF otPlatSpiSlaveDisable, SpiInv, SpiTypeOK, CallTypes
  <2> QED BY <2>1, <2>2 DEF SpiInv, PreparedStopped, PreparedEmpty, ArmedOn, MovedOnce
<1> QED BY <1>1, <1>2, <1>3

LEMMA SpiStutters == ASSUME SpiInv, UNCHANGED spiVars PROVE SpiInv'
  BY DEF SpiInv, SpiTypeOK, CallTypes, PreparedStopped, PreparedEmpty, ArmedOn, MovedOnce,
     Moved, spiVars, hostVars, txVarsSpi, callVars, processVars

\* Whatever the host does and when, DMA is stopped while a transaction is
\* prepared and each byte it has moved is counted once.
THEOREM SpiInvariant == SpiSpec => []SpiInv
<1>1. SpiInv /\ [SpiNext]_spiVars => SpiInv'
  BY HostKeeps, EndKeeps, BeginKeeps, PreparesKeeps, DriverKeeps, SpiStutters DEF SpiNext
<1> QED BY SpiInitInv, <1>1, PTL DEF SpiSpec

\* The driver of spidrv_usart.c reports the bytes the host has taken.  That of
\* spidrv_eusart.c empties the FIFO before it counts it, so it does not.
THEOREM SizeReported == ~Eusart => (SpiSpec => []SizeIsTaken)
<1> SUFFICES ASSUME ~Eusart PROVE SpiSpec => []SizeIsTaken
  OBVIOUS
<1>1. SpiInv => SizeIsTaken
  BY Bounds DEF SpiInv, SpiTypeOK, MovedOnce, Moved, SizeIsTaken, TransactionSize,
     NotYetClocked, FifoCounted
<1> QED BY SpiInvariant, <1>1, PTL

-----------------------------------------------------------------------------
(* The transmit power manager.                                             *)

Powers == Limits \cup {Invalid}

\* The states in which the power stays within the limits from step to step.
LimitTypes ==
    /\ sli_max_channel_power \in [PowerHosts -> [Channels -> Powers]]
    /\ listensOn \in [PowerHosts -> Channels \cup {Nowhere}]
    /\ radioChannel \in Channels
    /\ moved \in BOOLEAN

PowerInv == LimitTypes /\ PowerWithinLimits

LEMMA PowersAreNumbers ==
    Powers \subseteq Int /\ DefaultPower \in Int /\ Invalid \in Int /\ DefaultPower < Invalid
    /\ \A p \in Powers : p # Invalid => p < Invalid
BY PowerAssumption DEF Powers

\* Which power RAIL was told: with the limits given, at the lowest of the
\* channels watched.  The default power is told only when there is no limit.
LEMMA SelectedIsLowest ==
    ASSUME NEW limits \in [PowerHosts -> [Channels -> Powers]], NEW defaults, NEW listens,
           SetsPower(limits, defaults, listens),
           NEW h \in PowerHosts, NEW c \in Watched(listens, radioChannel), c \in Channels,
           limits[h][c] # Invalid
    PROVE  railPower' <= limits[h][c]
<1> DEFINE candidates(stray) == Candidates(limits, defaults, Watched(listens, radioChannel), stray)
<1>1. PICK stray \in BehindTable(listens) : \E chosen \in candidates(stray) :
          /\ \A p \in candidates(stray) : chosen <= p
          /\ railPower' = IF chosen = Invalid THEN DefaultPower ELSE chosen
  BY DEF SetsPower
<1>2. PICK chosen \in candidates(stray) :
          /\ \A p \in candidates(stray) : chosen <= p
          /\ railPower' = IF chosen = Invalid THEN DefaultPower ELSE chosen
  BY <1>1
<1>3. limits[h][c] \in candidates(stray)
  BY DEF Candidates, LimitsOn
<1>4. chosen <= limits[h][c]
  BY <1>2, <1>3
<1>5. limits[h][c] \in Int /\ limits[h][c] < Invalid /\ Invalid \in Int
  BY PowersAreNumbers
<1>6. chosen # Invalid
  BY <1>4, <1>5
<1> QED BY <1>2, <1>4, <1>6

\* The channels watched are channels of the table.
LEMMA WatchedAreChannels ==
    ASSUME NEW listens \in [PowerHosts -> Channels \cup {Nowhere}], NEW channel \in Channels
    PROVE  Watched(listens, channel) \subseteq Channels
BY DEF Watched, ChannelsOf

LEMMA LimitChanges ==
    ASSUME PowerInv, SetsPower(sli_max_channel_power', sli_default_tx_power', listensOn),
           sli_max_channel_power' \in [PowerHosts -> [Channels -> Powers]],
           UNCHANGED <<fastSwitching, listensOn, radioChannel>>
    PROVE  PowerWithinLimits'
<1>1. ASSUME NEW h \in PowerHosts, NEW c \in Watched(listensOn, radioChannel),
             sli_max_channel_power'[h][c] # Invalid
      PROVE  railPower' <= sli_max_channel_power'[h][c]
  <2>1. c \in Channels
    BY WatchedAreChannels DEF PowerInv, LimitTypes
  <2> QED BY <1>1, <2>1, SelectedIsLowest
<1>2. Watched(listensOn, radioChannel)' = Watched(listensOn, radioChannel)
  BY DEF Watched, ChannelsOf, MultiChannel
<1> QED BY <1>1, <1>2 DEF PowerWithinLimits

\* An operation that leaves the radio on a channel it watched keeps to the limits.
LEMMA GoesWithin ==
    ASSUME PowerInv, NEW channel \in Channels, Goes(listensOn', channel),
           listensOn' \in [PowerHosts -> Channels \cup {Nowhere}]
    PROVE  PowerWithinLimits'
<1>1. /\ SetsPower(sli_max_channel_power, sli_default_tx_power, listensOn')
      /\ radioChannel' = channel
      /\ moved' = ~(channel \in Watched(listensOn', radioChannel))
      /\ UNCHANGED <<fastSwitching, sli_max_channel_power, sli_default_tx_power>>
  BY DEF Goes
<1>2. ASSUME ~moved' PROVE Watched(listensOn, radioChannel)' = Watched(listensOn', radioChannel)
  BY <1>1, <1>2 DEF Watched, ChannelsOf, MultiChannel
<1>3. ASSUME NEW h \in PowerHosts, NEW c \in Watched(listensOn', radioChannel),
             sli_max_channel_power[h][c] # Invalid
      PROVE  railPower' <= sli_max_channel_power[h][c]
  <2>1. c \in Channels
    BY WatchedAreChannels DEF PowerInv, LimitTypes
  <2> QED BY <1>1, <1>3, <2>1, SelectedIsLowest DEF PowerInv, LimitTypes
<1> QED BY <1>1, <1>2, <1>3 DEF PowerWithinLimits

\* Whatever limits the hosts set and wherever the radio goes, its power is not
\* above a limit that a host has set for a channel the radio may send on, but
\* for an operation that takes it to another channel (`moved`): otPlatRadioTransmit
\* works out the power for the channel before.
THEOREM WithinEveryLimit == PowerSpec => []PowerWithinLimits
<1>1. PowerInit => PowerInv
  <2> SUFFICES ASSUME PowerInit PROVE PowerInv
    OBVIOUS
  <2>1. LimitTypes
    BY DEF PowerInit, LimitTypes, Powers
  <2>2. Watched(listensOn, radioChannel) \subseteq Channels
    BY <2>1, WatchedAreChannels DEF LimitTypes
  <2>3. PowerWithinLimits
    BY <2>2 DEF PowerInit, PowerWithinLimits
  <2> QED BY <2>1, <2>3 DEF PowerInv
<1>2. PowerInv /\ [PowerNext]_powerVars => PowerInv'
  <2> SUFFICES ASSUME PowerInv, [PowerNext]_powerVars PROVE PowerInv'
    OBVIOUS
  <2>1. ASSUME NEW h \in PowerHosts, NEW c \in Channels, NEW p \in Limits, SetChannelMax(h, c, p)
        PROVE  PowerInv'
    <3>1. LimitTypes'
      BY <2>1 DEF PowerInv, LimitTypes, SetChannelMax, Powers
    <3>2. SetsPower(sli_max_channel_power', sli_default_tx_power', listensOn)
      BY <2>1 DEF SetChannelMax
    <3> QED BY <2>1, <3>1, <3>2, LimitChanges DEF SetChannelMax, PowerInv, LimitTypes
  <2>2. ASSUME NEW h \in PowerHosts, NEW p \in Defaults, SetDefault(h, p)
        PROVE  PowerInv'
    <3>1. LimitTypes'
      BY <2>2 DEF PowerInv, LimitTypes, SetDefault
    <3>2. SetsPower(sli_max_channel_power', sli_default_tx_power', listensOn)
      BY <2>2 DEF SetDefault
    <3> QED BY <2>2, <3>1, <3>2, LimitChanges DEF SetDefault, PowerInv, LimitTypes
  <2>3. ASSUME NEW h \in PowerHosts, NEW c \in Channels, ReceiveOn(h, c)
        PROVE  PowerInv'
    <3>1. LimitTypes'
      BY <2>3 DEF PowerInv, LimitTypes, ReceiveOn, Goes
    <3>2. Goes(listensOn', c)
      BY <2>3 DEF ReceiveOn
    <3> QED BY <3>1, <3>2, GoesWithin DEF PowerInv, LimitTypes
  <2>4. ASSUME NEW c \in Channels, OperateOn(c)
        PROVE  PowerInv'
    <3>1. LimitTypes'
      BY <2>4 DEF PowerInv, LimitTypes, OperateOn, Goes
    <3>2. Goes(listensOn', c)
      BY <2>4 DEF OperateOn
    <3> QED BY <3>1, <3>2, GoesWithin DEF PowerInv, LimitTypes
  <2>5. CASE UNCHANGED powerVars
    <3>1. UNCHANGED <<fastSwitching, sli_max_channel_power, listensOn, radioChannel, railPower, moved>>
      BY <2>5 DEF powerVars
    <3>2. Watched(listensOn, radioChannel)' = Watched(listensOn, radioChannel)
      BY <3>1 DEF Watched, ChannelsOf, MultiChannel
    <3> QED BY <3>1, <3>2 DEF PowerInv, LimitTypes, PowerWithinLimits
  <2> QED BY <2>1, <2>2, <2>3, <2>4, <2>5 DEF PowerNext
<1>3. PowerInv => PowerWithinLimits
  BY DEF PowerInv
<1> QED BY <1>1, <1>2, <1>3, PTL DEF PowerSpec

\* The default power told is one that a host has set.
LEMMA DefaultIsOneSet ==
    ASSUME NEW defaults \in [PowerHosts -> Defaults \cup {Invalid}]
    PROVE  HighestDefault(defaults) \in Defaults \cup {Invalid}
<1> DEFINE valid == {defaults[h] : h \in PowerHosts} \ {Invalid}
<1>1. valid \subseteq Defaults OBVIOUS
<1>2. CASE valid = {} BY <1>2 DEF HighestDefault
<1>3. CASE valid # {}
  <2>1. Defaults \subseteq Int /\ Invalid \in Int /\ \A p \in Defaults : p <= Invalid
    <3>1. Defaults \subseteq -128..127 /\ Invalid \in -128..127
      BY PowerAssumption
    <3>2. \A p \in Defaults : p < Invalid BY PowerAssumption
    <3> QED BY <3>1, <3>2
  <2>2. Max(valid) \in valid
    <3> HIDE DEF valid
    <3> QED BY <1>1, <1>3, <2>1, LargestOfBounded
  <2> QED BY <1>1, <1>3, <2>2 DEF HighestDefault
<1> QED BY <1>2, <1>3

PowersTold == Limits \cup Defaults \cup Strays \cup {DefaultPower}

LEMMA ToldIsPower ==
    ASSUME NEW limits \in [PowerHosts -> [Channels -> Powers]],
           NEW defaults \in [PowerHosts -> Defaults \cup {Invalid}],
           NEW listens \in [PowerHosts -> Channels \cup {Nowhere}],
           radioChannel \in Channels, SetsPower(limits, defaults, listens)
    PROVE  railPower' \in PowersTold
<1>1. PICK stray \in BehindTable(listens) :
         \E chosen \in Candidates(limits, defaults, Watched(listens, radioChannel), stray) :
            railPower' = IF chosen = Invalid THEN DefaultPower ELSE chosen
  BY DEF SetsPower
<1>2. PICK chosen \in Candidates(limits, defaults, Watched(listens, radioChannel), stray) :
         railPower' = IF chosen = Invalid THEN DefaultPower ELSE chosen
  BY <1>1
<1>3. LimitsOn(limits, Watched(listens, radioChannel)) \subseteq Powers
  BY WatchedAreChannels DEF LimitsOn
<1>4. stray \in Strays \cup {Invalid} BY DEF BehindTable
<1>5. chosen \in Limits \cup Defaults \cup Strays \cup {Invalid}
  BY <1>3, <1>4, DefaultIsOneSet DEF Candidates, Powers
<1> QED BY <1>2, <1>5 DEF PowersTold

\* RAIL is told powers that a host has set, or the default of the build, or
\* what was read behind the table; the tables keep their types.
THEOREM PowerTypesHold == PowerSpec => []PowerTypeOK
<1> USE DEF Powers, PowersTold
<1>1. PowerInit => PowerTypeOK
  BY DEF PowerInit, PowerTypeOK
<1>2. PowerTypeOK /\ [PowerNext]_powerVars => PowerTypeOK'
  <2> SUFFICES ASSUME PowerTypeOK, [PowerNext]_powerVars PROVE PowerTypeOK'
    OBVIOUS
  <2>1. ASSUME NEW h \in PowerHosts, NEW c \in Channels, NEW p \in Limits, SetChannelMax(h, c, p)
        PROVE  PowerTypeOK'
    <3>1. sli_max_channel_power' \in [PowerHosts -> [Channels -> Powers]]
      BY <2>1 DEF SetChannelMax, PowerTypeOK
    <3>2. railPower' \in PowersTold
      BY <2>1, <3>1, ToldIsPower DEF SetChannelMax, PowerTypeOK
    <3> QED BY <2>1, <3>1, <3>2 DEF SetChannelMax, PowerTypeOK
  <2>2. ASSUME NEW h \in PowerHosts, NEW p \in Defaults, SetDefault(h, p)
        PROVE  PowerTypeOK'
    <3>1. sli_default_tx_power' \in [PowerHosts -> Defaults \cup {Invalid}]
      BY <2>2 DEF SetDefault, PowerTypeOK
    <3>2. railPower' \in PowersTold
      BY <2>2, <3>1, ToldIsPower DEF SetDefault, PowerTypeOK
    <3> QED BY <2>2, <3>1, <3>2 DEF SetDefault, PowerTypeOK
  <2>3. ASSUME NEW h \in PowerHosts, NEW c \in Channels, ReceiveOn(h, c) \/ OperateOn(c)
        PROVE  PowerTypeOK'
    <3>1. /\ listensOn' \in [PowerHosts -> Channels \cup {Nowhere}]
          /\ Goes(listensOn', c)
      BY <2>3 DEF ReceiveOn, OperateOn, PowerTypeOK
    <3>2. railPower' \in PowersTold
      BY <3>1, ToldIsPower DEF Goes, PowerTypeOK
    <3> QED BY <3>1, <3>2 DEF Goes, PowerTypeOK
  <2>4. CASE UNCHANGED powerVars
    BY <2>4 DEF powerVars, PowerTypeOK
  <2>5. PowerHosts # {} BY PowerAssumption
  <2> QED BY <2>1, <2>2, <2>3, <2>4, <2>5 DEF PowerNext
<1> QED BY <1>1, <1>2, PTL DEF PowerSpec

-----------------------------------------------------------------------------
(* The UART over the IO stream.                                            *)

\* A byte on the wire has room in the buffer, and a frame is owed exactly
\* while sTransmitDone is set.
IoRoom == (edges => onWire) /\ (onWire => unread < MaxUnread) /\ unread \in 0..MaxUnread
IoOwes == owed = IF ioTransmitDone THEN 1 ELSE 0
IoInv  == IoTypeOK /\ IoRoom /\ IoOwes

\* What IoInv adds to the flags being flags.
IoFlags ==
    /\ onWire \in BOOLEAN /\ edges \in BOOLEAN /\ missed \in BOOLEAN
    /\ ioRxDataReady \in BOOLEAN /\ ioTransmitDone \in BOOLEAN
    /\ signalled \in BOOLEAN
    /\ ioPlace \in {"waits", "reads", "clears", "flushes"}

LEMMA IoInvParts == IoInv <=> IoFlags /\ IoRoom /\ IoOwes
BY DEF IoInv, IoTypeOK, IoFlags, IoRoom, IoOwes

LEMMA IoInitInv == IoInit => IoInv
<1> SUFFICES ASSUME IoInit PROVE IoFlags /\ IoRoom /\ IoOwes
  BY IoInvParts
<1>1. MaxUnread \in Nat /\ MaxUnread > 0 BY IoStreamAssumption
<1>2. IoFlags BY DEF IoInit, IoFlags
<1>3. ~onWire /\ ~edges /\ ~ioTransmitDone BY DEF IoInit
<1>4. unread = 0 /\ owed = 0 BY DEF IoInit
<1>5. 0 \in 0..MaxUnread BY <1>1
<1>6. IoRoom BY <1>3, <1>4, <1>5 DEF IoRoom
<1>7. IoOwes BY <1>3, <1>4 DEF IoOwes
<1> QED BY <1>2, <1>6, <1>7

LEMMA IoNextInv == IoInv /\ [IoNext]_ioVars => IoInv'
<1> SUFFICES ASSUME IoInv, [IoNext]_ioVars PROVE IoInv'
  OBVIOUS
<1>1. IoFlags /\ IoRoom /\ IoOwes BY IoInvParts
<1>2. MaxUnread \in Nat /\ MaxUnread > 0 BY IoStreamAssumption
<1>3. IoFlags'
  <2> USE <1>1 DEF IoFlags
  <2>1. ASSUME NEW last \in BOOLEAN, FallingEdge(last) PROVE IoFlags'
    BY <2>1 DEF FallingEdge, Woken
  <2>2. CASE StopBit BY <2>2 DEF StopBit
  <2>3. CASE PassBegins BY <2>3 DEF PassBegins, byteVars
  <2>4. CASE StreamRead BY <2>4 DEF StreamRead
  <2>5. CASE ClearReady BY <2>5 DEF ClearReady, byteVars
  <2>6. CASE FlushesSent BY <2>6 DEF FlushesSent, byteVars
  <2>7. CASE StreamSend BY <2>7 DEF StreamSend, byteVars
  <2>8. CASE UNCHANGED ioVars BY <2>8 DEF ioVars, byteVars
  <2> QED BY <2>1, <2>2, <2>3, <2>4, <2>5, <2>6, <2>7, <2>8 DEF IoNext, IoPass
<1>4. IoRoom'
  <2>1. ASSUME NEW last \in BOOLEAN, FallingEdge(last) PROVE IoRoom'
    <3>1. onWire' /\ unread' = unread /\ (edges \/ (~onWire /\ unread < MaxUnread))
      BY <2>1 DEF FallingEdge
    <3> QED BY <1>1, <3>1 DEF IoRoom
  <2>2. CASE StopBit
    <3>1. onWire /\ ~edges /\ ~onWire' /\ ~edges' /\ unread' = unread + 1
      BY <2>2 DEF StopBit
    <3>2. unread < MaxUnread /\ unread \in Nat BY <1>1, <1>2, <3>1 DEF IoRoom
    <3>3. unread' \in 0..MaxUnread BY <1>2, <3>1, <3>2
    <3> QED BY <3>1, <3>3 DEF IoRoom
  <2>3. CASE StreamRead
    <3>1. onWire' = onWire /\ edges' = edges /\ unread' = 0 BY <2>3 DEF StreamRead
    <3> QED BY <1>1, <1>2, <3>1 DEF IoRoom
  <2>4. CASE UNCHANGED byteVars
    BY <1>1, <2>4 DEF IoRoom, byteVars
  <2> QED
    BY <2>1, <2>2, <2>3, <2>4 DEF IoNext, IoPass, PassBegins, ClearReady, FlushesSent,
       StreamSend, ioVars
<1>5. IoOwes'
  <2>1. CASE FlushesSent
    <3>1. ~ioTransmitDone' /\ owed' = IF ioTransmitDone THEN owed - 1 ELSE owed
      BY <2>1 DEF FlushesSent
    <3> QED BY <1>1, <3>1 DEF IoOwes
  <2>2. CASE StreamSend
    <3>1. PICK written \in BOOLEAN :
            /\ ioTransmitDone' = written
            /\ owed' = (IF ioTransmitDone THEN owed - 1 ELSE owed) + (IF written THEN 1 ELSE 0)
      BY <2>2 DEF StreamSend
    <3>2. (IF ioTransmitDone THEN owed - 1 ELSE owed) = 0 BY <1>1 DEF IoOwes
    <3> QED BY <3>1, <3>2 DEF IoOwes
  <2>3. CASE UNCHANGED <<ioTransmitDone, owed>>
    BY <1>1, <2>3 DEF IoOwes
  <2> QED
    BY <2>1, <2>2, <2>3 DEF IoNext, IoPass, FallingEdge, StopBit, PassBegins, StreamRead,
       ClearReady, ioVars
<1> QED BY <1>3, <1>4, <1>5 DEF IoInv, IoTypeOK, IoFlags, IoRoom, IoOwes

\* Every frame sent is reported once, whether the stack or the main loop
\* flushes it, and the buffer of the IO stream keeps its bound.
THEOREM IoTypesHold == IoInit /\ [][IoNext]_ioVars => []IoTypeOK
<1>1. IoInv => IoTypeOK BY DEF IoInv
<1> QED BY IoInitInv, IoNextInv, <1>1, PTL

-----------------------------------------------------------------------------
(* The Green Power interface.                                              *)

\* The state of the buffer and the places of the frames, in the words of
\* GpHeldOnce; within otPlatRadioTxDone the buffer is the called host's.
GpInv ==
    /\ GpTypeOK /\ GpHeldOnce
    /\ gpTxDone # NoHost => gp_state = "waiting" /\ sBufferedTxInstance = gpTxDone

LEMMA GpInitInv == GpInit => GpInv
BY GpAssumption DEF GpInit, GpInv, GpTypeOK, GpStates, GpHeldOnce, InGpQueue, NoHost

LEMMA GpQueueGrows ==
    ASSUME GpTypeOK, NEW h \in GpHosts, gpQueue' = Append(gpQueue, h)
    PROVE  /\ gpQueue' \in Seq(GpHosts) /\ Len(gpQueue) \in Nat
           /\ Len(gpQueue') = Len(gpQueue) + 1
           /\ \A i \in 1..Len(gpQueue) : gpQueue'[i] = gpQueue[i]
           /\ gpQueue'[Len(gpQueue) + 1] = h
           /\ \A g \in GpHosts : InGpQueue(g)' <=> InGpQueue(g) \/ g = h
<1>1. /\ gpQueue' \in Seq(GpHosts) /\ Len(gpQueue) \in Nat
      /\ Len(gpQueue') = Len(gpQueue) + 1
      /\ \A i \in 1..Len(gpQueue) : gpQueue'[i] = gpQueue[i]
      /\ gpQueue'[Len(gpQueue) + 1] = h
  BY DEF GpTypeOK
<1>2. \A g \in GpHosts : InGpQueue(g) => InGpQueue(g)'
  BY <1>1 DEF InGpQueue
<1>3. InGpQueue(h)'
  <2>1. Len(gpQueue) + 1 \in 1..Len(gpQueue')
    BY <1>1
  <2> QED BY <1>1, <2>1 DEF InGpQueue
<1>4. \A g \in GpHosts : InGpQueue(g)' => InGpQueue(g) \/ g = h
  <2> SUFFICES ASSUME NEW g \in GpHosts, NEW i \in 1..Len(gpQueue'), gpQueue'[i] = g
               PROVE  InGpQueue(g) \/ g = h
    BY DEF InGpQueue
  <2>1. i \in 1..Len(gpQueue) \/ i = Len(gpQueue) + 1
    BY <1>1
  <2> QED BY <1>1, <2>1 DEF InGpQueue
<1> QED BY <1>1, <1>2, <1>3, <1>4

LEMMA GpQueueShrinks ==
    ASSUME GpTypeOK, gpQueue # <<>>, gpQueue' = Tail(gpQueue),
           \A i, j \in 1..Len(gpQueue) : gpQueue[i] = gpQueue[j] => i = j
    PROVE  /\ gpQueue' \in Seq(GpHosts) /\ Head(gpQueue) \in GpHosts
           /\ InGpQueue(Head(gpQueue))
           /\ \A i, j \in 1..Len(gpQueue') : gpQueue'[i] = gpQueue'[j] => i = j
           /\ \A g \in GpHosts : InGpQueue(g)' <=> InGpQueue(g) /\ g # Head(gpQueue)
<1>1. /\ gpQueue' \in Seq(GpHosts) /\ Head(gpQueue) \in GpHosts
      /\ Len(gpQueue) \in Nat /\ Len(gpQueue) >= 1 /\ Head(gpQueue) = gpQueue[1]
      /\ Len(gpQueue') = Len(gpQueue) - 1
      /\ \A i \in 1..Len(gpQueue') : gpQueue'[i] = gpQueue[i + 1]
  BY HeadTailProperties, EmptySeq DEF GpTypeOK
<1>2. InGpQueue(Head(gpQueue))
  BY <1>1 DEF InGpQueue
<1>3. ASSUME NEW i \in 1..Len(gpQueue'), NEW j \in 1..Len(gpQueue'), gpQueue'[i] = gpQueue'[j]
      PROVE  i = j
  <2>1. i + 1 \in 1..Len(gpQueue) /\ j + 1 \in 1..Len(gpQueue)
    BY <1>1
  <2>2. i + 1 = j + 1
    BY <1>1, <1>3, <2>1
  <2> QED BY <2>2
<1>4. ASSUME NEW g \in GpHosts PROVE InGpQueue(g)' <=> InGpQueue(g) /\ g # Head(gpQueue)
  <2>1. ASSUME NEW i \in 1..Len(gpQueue'), gpQueue'[i] = g
        PROVE  InGpQueue(g) /\ g # Head(gpQueue)
    <3>1. i + 1 \in 1..Len(gpQueue) /\ gpQueue[i + 1] = g /\ i + 1 # 1 /\ 1 \in 1..Len(gpQueue)
      BY <1>1, <2>1
    <3> QED BY <1>1, <3>1 DEF InGpQueue
  <2>2. ASSUME NEW i \in 1..Len(gpQueue), gpQueue[i] = g, g # Head(gpQueue)
        PROVE  InGpQueue(g)'
    <3>1. i - 1 \in 1..Len(gpQueue') /\ gpQueue'[i - 1] = gpQueue[(i - 1) + 1] /\ (i - 1) + 1 = i
      BY <1>1, <2>2
    <3> QED BY <2>2, <3>1 DEF InGpQueue
  <2> QED BY <2>1, <2>2 DEF InGpQueue
<1> QED BY <1>1, <1>2, <1>3, <1>4

LEMMA GpNextInv == GpInv /\ [GpNext]_gpVars => GpInv'
<1> SUFFICES ASSUME GpInv, [GpNext]_gpVars PROVE GpInv'
  OBVIOUS
<1> USE GpAssumption DEF GpInv, NoHost
<1>1. CASE GpTick
  BY <1>1 DEF GpTick, GpTypeOK, GpHeldOnce, InGpQueue
<1>2. ASSUME NEW h \in GpHosts, HandsIn(h) PROVE GpInv'
  <2>1. ~InGpQueue(h) /\ h \notin gpLost /\ (sBufferedTxInstance = h => gpTxDone = h)
    BY <1>2 DEF HandsIn, GpHeldOnce, GpTypeOK
  <2>2. CASE BufferPkt(h) /\ UNCHANGED gpQueue
    BY <1>2, <2>1, <2>2 DEF HandsIn, BufferPkt, GpTypeOK, GpStates, GpHeldOnce, InGpQueue
  <2>3. CASE /\ gp_state = "send" /\ gpQueue' = Append(gpQueue, h)
             /\ UNCHANGED <<gp_state, gpLeft, sBufferedTxInstance, gpLost>>
    <3>1. \A i, j \in 1..Len(gpQueue') : gpQueue'[i] = gpQueue'[j] => i = j
      BY <2>1, <2>3, GpQueueGrows DEF GpHeldOnce, InGpQueue
    <3>2. gpTxDone = 0 /\ gpTxDone' = 0 /\ gpWaiting' = gpWaiting \cup {h}
      BY <1>2, <2>3 DEF HandsIn
    <3>3. GpTypeOK'
      BY <1>2, <2>3, <3>2, GpQueueGrows DEF GpTypeOK
    <3>4. GpHeldOnce'
      BY <2>1, <2>3, <3>1, <3>2, GpQueueGrows DEF GpHeldOnce
    <3> QED BY <3>2, <3>3, <3>4
  <2> QED BY <1>2, <2>2, <2>3 DEF HandsIn
<1>3. CASE TakesQueued
  <2> DEFINE h == Head(gpQueue)
  <2>1. /\ gpQueue' \in Seq(GpHosts) /\ h \in GpHosts /\ InGpQueue(h)
        /\ \A i, j \in 1..Len(gpQueue') : gpQueue'[i] = gpQueue'[j] => i = j
        /\ \A g \in GpHosts : InGpQueue(g)' <=> InGpQueue(g) /\ g # h
    BY <1>3, GpQueueShrinks DEF TakesQueued, GpHeldOnce
  <2>2. h \in gpWaiting \ gpLost /\ sBufferedTxInstance # h /\ gpTxDone = 0 /\ gpTxDone' = 0
    BY <1>3, <2>1 DEF TakesQueued, GpHeldOnce
  <2> HIDE DEF h
  <2>3. CASE BufferPkt(h) /\ UNCHANGED gpWaiting
    <3>1. GpTypeOK'
      BY <2>1, <2>2, <2>3 DEF BufferPkt, GpTypeOK, GpStates
    <3>2. GpHeldOnce'
      BY <2>1, <2>2, <2>3 DEF BufferPkt, GpHeldOnce, GpTypeOK
    <3> QED BY <2>2, <3>1, <3>2
  <2>4. CASE GpRadio(h) /\ UNCHANGED <<gp_state, gpLeft, sBufferedTxInstance>>
    <3>1. GpTypeOK'
      BY <2>1, <2>2, <2>4 DEF GpRadio, GpTypeOK
    <3>2. GpHeldOnce'
      BY <2>1, <2>2, <2>4 DEF GpRadio, GpHeldOnce
    <3> QED BY <2>2, <3>1, <3>2
  <2> QED BY <1>3, <2>3, <2>4 DEF TakesQueued, h
<1>4. CASE RequestReceived
  BY <1>4 DEF RequestReceived, GpTypeOK, GpStates, GpHeldOnce, InGpQueue
<1>5. CASE GpStarts
  BY <1>5 DEF GpStarts, GpTypeOK, GpStates, GpHeldOnce, InGpQueue
<1>6. CASE SendsResponse
  <2> DEFINE h == sBufferedTxInstance
  <2>1. /\ gpTxDone = 0 /\ h \in GpHosts /\ h \in gpWaiting \ gpLost /\ ~InGpQueue(h)
        /\ gp_state' = "idle" /\ sBufferedTxInstance' = 0 /\ UNCHANGED <<gpLeft, gpTxDone>>
    BY <1>6 DEF SendsResponse, GpIdle, GpHeldOnce, GpTypeOK
  <2>2. CASE gpQueue' = Append(gpQueue, h) /\ UNCHANGED <<gpWaiting, gpLost>>
    <3>1. \A i, j \in 1..Len(gpQueue') : gpQueue'[i] = gpQueue'[j] => i = j
      BY <2>1, <2>2, GpQueueGrows DEF GpHeldOnce, InGpQueue
    <3>2. GpTypeOK'
      BY <2>1, <2>2, GpQueueGrows DEF GpTypeOK, GpStates
    <3>3. GpHeldOnce'
      BY <2>1, <2>2, <3>1, GpQueueGrows DEF GpHeldOnce
    <3> QED BY <2>1, <3>2, <3>3
  <2>3. CASE GpRadio(h) /\ UNCHANGED gpQueue
    BY <2>1, <2>3 DEF GpRadio, GpTypeOK, GpStates, GpHeldOnce, InGpQueue
  <2> QED BY <1>6, <2>2, <2>3 DEF SendsResponse
<1>7. CASE GivesUpWaiting
  <2>1. sBufferedTxInstance \in GpHosts /\ sBufferedTxInstance \in gpWaiting \ gpLost
    BY <1>7 DEF GivesUpWaiting, GpHeldOnce, GpTypeOK
  <2> QED BY <1>7, <2>1 DEF GivesUpWaiting, GpTypeOK, GpHeldOnce, InGpQueue
<1>8. CASE GivenUp
  BY <1>8 DEF GivenUp, GpIdle, GpTypeOK, GpStates, GpHeldOnce, InGpQueue
<1>9. CASE UNCHANGED gpVars
  BY <1>9 DEF gpVars, GpTypeOK, GpHeldOnce, InGpQueue
<1> QED BY <1>1, <1>2, <1>3, <1>4, <1>5, <1>6, <1>7, <1>8, <1>9 DEF GpNext, efr32GpProcess

\* The types, and that a host whose frame is nowhere is among those that wait.
THEOREM GpTypesHold == GpInit /\ [][GpNext]_gpVars => []GpTypeOK
<1>1. GpInv => GpTypeOK BY DEF GpInv
<1> QED BY GpInitInv, GpNextInv, <1>1, PTL

\* The assertions of efr32GpProcess hold for any hosts, and the frame of a host
\* that waits is in the buffer, in the queue or lost, never in two places.
THEOREM GpFramesHeldOnce == GpInit /\ [][GpNext]_gpVars => []GpHeldOnce
<1>1. GpInv => GpHeldOnce BY DEF GpInv
<1> QED BY GpInitInv, GpNextInv, <1>1, PTL

-----------------------------------------------------------------------------
(* The coexistence metrics.                                                *)

\* The counters of a direction, whatever has stopped them: grants that waited
\* are those denied and those granted late, and all were requested.
WaitsAdd ==
    \A d \in Directions :
        /\ metrics[d].wait = metrics[d].timeout + metrics[d].activated
        /\ metrics[d].immediate + metrics[d].wait <= metrics[d].requests

\* While they count, a request under way is the one that has not ended.
RequestsAdd ==
    ~mStopped => \A d \in Directions :
        metrics[d].requests = metrics[d].immediate + metrics[d].wait
                                + IF request[d] = Nothing THEN 0 ELSE 1

\* The one time stamp is that of each request under way.
DelaysAdd ==
    ~mStopped /\ ~restamped => \A d \in Directions :
        /\ metrics[d].delayed = lateGrants[d]
        /\ request[d] \in {Nothing, stampAge}

CoexTypes ==
    /\ metrics \in [Directions -> [Counters -> Nat]]
    /\ \A d \in Directions : \A c \in Counters : metrics[d][c] <= MaxCount
    /\ mStopped \in BOOLEAN
    /\ stampAge \in Ages
    /\ request \in [Directions -> Ages \cup {Nothing}]
    /\ lateGrants \in [Directions -> Nat]
    /\ restamped \in BOOLEAN

CoexInv == CoexTypes /\ WaitsAdd /\ RequestsAdd /\ DelaysAdd

\* What Count does, while the counters count.
LEMMA CountAdds ==
    ASSUME CoexTypes, WaitsAdd, NEW d \in Directions, NEW counters \in SUBSET (Counters \ {"wait"}),
           Count(d, counters)
    PROVE  \/ mStopped' /\ metrics' = metrics
           \/ /\ ~mStopped /\ ~mStopped'
              /\ \A c \in counters : metrics[d][c] < MaxCount
              /\ metrics' \in [Directions -> [Counters -> Nat]]
              /\ \A e \in Directions : e # d => metrics'[e] = metrics[e]
              /\ \A c \in Counters \ {"wait"} :
                    metrics'[d][c] = metrics[d][c] + IF c \in counters THEN 1 ELSE 0
              /\ metrics'[d].wait = metrics'[d].timeout + metrics'[d].activated
<1>1. CASE mStopped \/ \E c \in counters : metrics[d][c] = MaxCount
  <2>1. mStopped' = TRUE /\ metrics' = metrics BY <1>1 DEF Count
  <2> QED BY <2>1
<1>2. CASE ~(mStopped \/ \E c \in counters : metrics[d][c] = MaxCount)
  <2> DEFINE m == [c \in Counters |-> metrics[d][c] + IF c \in counters THEN 1 ELSE 0]
             n == [m EXCEPT !.wait = GrantWait(m)]
  <2>1. metrics' = [metrics EXCEPT ![d] = n] /\ mStopped' = mStopped
    BY <1>2 DEF Count
  <2>2. m \in [Counters -> Nat] BY DEF CoexTypes
  <2>3. GrantWait(m) = m.timeout + m.activated /\ "wait" \in Counters
        /\ "timeout" \in Counters /\ "activated" \in Counters
    BY DEF GrantWait, AllWaits, Counters
  <2>4. GrantWait(m) \in Nat BY <2>2, <2>3
  <2>5. /\ n \in [Counters -> Nat]
        /\ \A c \in Counters \ {"wait"} : n[c] = m[c]
        /\ n.wait = n.timeout + n.activated
    <3> HIDE DEF m
    <3>1. /\ n \in [Counters -> Nat] /\ n.wait = GrantWait(m)
          /\ \A c \in Counters \ {"wait"} : n[c] = m[c]
      BY <2>2, <2>3, <2>4
    <3>2. n.timeout = m.timeout /\ n.activated = m.activated BY <2>3, <3>1
    <3> QED BY <2>3, <3>1, <3>2
  <2>6. ASSUME NEW c \in counters PROVE metrics[d][c] < MaxCount
    <3>1. c \in Counters /\ metrics[d][c] # MaxCount BY <1>2
    <3>2. metrics[d][c] \in Nat /\ metrics[d][c] <= MaxCount BY <3>1 DEF CoexTypes
    <3> QED BY <3>1, <3>2, CoexAssumption
  <2>7. /\ metrics' \in [Directions -> [Counters -> Nat]]
        /\ metrics'[d] = n
        /\ \A e \in Directions : e # d => metrics'[e] = metrics[e]
    <3> HIDE DEF n
    <3> QED BY <2>1, <2>5 DEF CoexTypes
  <2> QED BY <1>2, <2>1, <2>5, <2>6, <2>7
<1> QED BY <1>1, <1>2

LEMMA CoexInitInv == CoexInit => CoexInv
<1> SUFFICES ASSUME CoexInit PROVE CoexInv
  OBVIOUS
<1>1. \A d \in Directions : \A c \in Counters : metrics[d][c] = 0
  BY DEF CoexInit
<1>2. {"requests", "immediate", "wait", "activated", "timeout", "delayed"} \subseteq Counters
  BY DEF Counters
<1>3. CoexTypes
  <2>1. MaxCount \in Nat /\ LateAfter + 1 \in Ages BY CoexAssumption DEF Ages
  <2>2. metrics \in [Directions -> [Counters -> Nat]]
    BY DEF CoexInit
  <2>3. request \in [Directions -> Ages \cup {Nothing}] BY DEF CoexInit
  <2>4. \A d \in Directions : \A c \in Counters : metrics[d][c] <= MaxCount
    BY <1>1, <2>1
  <2>5. lateGrants \in [Directions -> Nat] BY DEF CoexInit
  <2>6. mStopped \in BOOLEAN /\ restamped \in BOOLEAN /\ stampAge \in Ages
    BY <2>1 DEF CoexInit
  <2> QED BY <2>2, <2>3, <2>4, <2>5, <2>6 DEF CoexTypes
<1>4. \A d \in Directions : request[d] = Nothing /\ lateGrants[d] = 0
  BY DEF CoexInit
<1>5. WaitsAdd BY <1>1, <1>2 DEF WaitsAdd
<1>6. RequestsAdd BY <1>1, <1>2, <1>4 DEF RequestsAdd
<1>7. DelaysAdd BY <1>1, <1>2, <1>4 DEF DelaysAdd
<1> QED BY <1>3, <1>5, <1>6, <1>7 DEF CoexInv

One(b) == IF b THEN 1 ELSE 0

\* An event that ends as many requests of its direction as it counts keeps
\* the sums.
LEMMA EventKeepsSums ==
    ASSUME CoexInv, NEW d \in Directions, NEW counters \in SUBSET (Counters \ {"wait"}),
           Count(d, counters),
           request' \in [Directions -> Ages \cup {Nothing}],
           \A e \in Directions : e # d => request'[e] = request[e],
           One(request[d] # Nothing) + One("requests" \in counters)
             = One("immediate" \in counters) + One("timeout" \in counters)
                 + One("activated" \in counters) + One(request'[d] # Nothing)
    PROVE  /\ metrics' \in [Directions -> [Counters -> Nat]]
           /\ \A e \in Directions : \A c \in Counters : metrics'[e][c] <= MaxCount
           /\ mStopped' \in BOOLEAN
           /\ WaitsAdd' /\ RequestsAdd'
<1>1. CoexTypes /\ WaitsAdd /\ RequestsAdd BY DEF CoexInv
<1>2. {"requests", "immediate", "activated", "timeout"} \subseteq Counters \ {"wait"}
      /\ "wait" \in Counters
  BY DEF Counters
<1>3. mStopped' \in BOOLEAN
  BY <1>1 DEF Count, CoexTypes
<1>4. CASE mStopped' /\ metrics' = metrics
  BY <1>1, <1>3, <1>4 DEF CoexTypes, WaitsAdd, RequestsAdd
<1>5. CASE /\ ~mStopped /\ ~mStopped'
           /\ \A c \in counters : metrics[d][c] < MaxCount
           /\ metrics' \in [Directions -> [Counters -> Nat]]
           /\ \A e \in Directions : e # d => metrics'[e] = metrics[e]
           /\ \A c \in Counters \ {"wait"} :
                 metrics'[d][c] = metrics[d][c] + IF c \in counters THEN 1 ELSE 0
           /\ metrics'[d].wait = metrics'[d].timeout + metrics'[d].activated
  <2>1. /\ metrics'[d].requests = metrics[d].requests + One("requests" \in counters)
        /\ metrics'[d].immediate = metrics[d].immediate + One("immediate" \in counters)
        /\ metrics'[d].timeout = metrics[d].timeout + One("timeout" \in counters)
        /\ metrics'[d].activated = metrics[d].activated + One("activated" \in counters)
    BY <1>2, <1>5 DEF One
  <2>2. /\ metrics[d].requests \in Nat /\ metrics[d].immediate \in Nat
        /\ metrics[d].timeout \in Nat /\ metrics[d].activated \in Nat
        /\ metrics[d].wait = metrics[d].timeout + metrics[d].activated
    BY <1>1, <1>2 DEF CoexTypes, WaitsAdd
  <2>3. metrics[d].requests = metrics[d].immediate + metrics[d].wait + One(request[d] # Nothing)
    BY <1>1, <1>5 DEF RequestsAdd, One
  <2>4. metrics'[d].requests
          = metrics'[d].immediate + metrics'[d].wait + One(request'[d] # Nothing)
    <3>1. /\ One("requests" \in counters) \in 0..1 /\ One("immediate" \in counters) \in 0..1
          /\ One("timeout" \in counters) \in 0..1 /\ One("activated" \in counters) \in 0..1
          /\ One(request[d] # Nothing) \in 0..1 /\ One(request'[d] # Nothing) \in 0..1
      BY DEF One
    <3>2. metrics'[d].wait = metrics'[d].timeout + metrics'[d].activated BY <1>5
    <3> HIDE DEF One
    <3> QED BY <2>1, <2>2, <2>3, <3>1, <3>2
  <2>5. metrics'[d].immediate + metrics'[d].wait <= metrics'[d].requests
    BY <2>1, <2>2, <2>4, <1>5 DEF One
  <2>6. WaitsAdd'
    <3> SUFFICES ASSUME NEW e \in Directions
                 PROVE  /\ metrics'[e].wait = metrics'[e].timeout + metrics'[e].activated
                        /\ metrics'[e].immediate + metrics'[e].wait <= metrics'[e].requests
      BY DEF WaitsAdd
    <3> QED BY <1>1, <1>5, <2>5 DEF WaitsAdd
  <2>7. RequestsAdd'
    <3> SUFFICES ASSUME NEW e \in Directions
                 PROVE  metrics'[e].requests = metrics'[e].immediate + metrics'[e].wait
                          + IF request'[e] = Nothing THEN 0 ELSE 1
      BY DEF RequestsAdd, Nothing
    <3>1. CASE e = d BY <2>4, <3>1 DEF One
    <3>2. CASE e # d BY <1>1, <1>5, <3>2 DEF RequestsAdd
    <3> QED BY <3>1, <3>2
  <2>8. ASSUME NEW e \in Directions, NEW c \in Counters PROVE metrics'[e][c] <= MaxCount
    <3>1. MaxCount \in Nat BY CoexAssumption
    <3>2. CASE e # d BY <1>1, <1>5, <3>2 DEF CoexTypes
    <3>3. CASE e = d /\ c # "wait"
      <4>1. metrics'[d][c] = metrics[d][c] + IF c \in counters THEN 1 ELSE 0
        BY <1>5, <3>3
      <4>2. metrics[d][c] \in Nat /\ metrics[d][c] <= MaxCount
        BY <1>1 DEF CoexTypes
      <4>3. c \in counters => metrics[d][c] < MaxCount BY <1>5
      <4> QED BY <3>1, <3>3, <4>1, <4>2, <4>3
    <3>4. CASE e = d /\ c = "wait"
      <4>1. metrics'[d].requests <= MaxCount
        <5>1. metrics[d].requests <= MaxCount BY <1>1, <1>2 DEF CoexTypes
        <5>2. "requests" \in counters => metrics[d].requests < MaxCount BY <1>5
        <5> QED BY <2>1, <2>2, <3>1, <5>1, <5>2 DEF One
      <4>2. /\ metrics'[d].requests \in Nat /\ metrics'[d].immediate \in Nat
            /\ metrics'[d].wait \in Nat
        BY <1>2, <1>5
      <4> QED BY <2>5, <3>1, <3>4, <4>1, <4>2
    <3> QED BY <3>2, <3>3, <3>4
  <2> QED BY <1>3, <1>5, <2>6, <2>7, <2>8
<1> QED BY <1>1, <1>4, <1>5, CountAdds

\* The counter of delayed grants, when an event counts.
LEMMA DelayedCounted ==
    ASSUME CoexInv, NEW d \in Directions, NEW counters \in SUBSET (Counters \ {"wait"}),
           Count(d, counters), ~mStopped'
    PROVE  /\ ~mStopped
           /\ \A e \in Directions :
                 metrics'[e].delayed = metrics[e].delayed + One(e = d /\ "delayed" \in counters)
<1>1. CoexTypes /\ WaitsAdd BY DEF CoexInv
<1>2. "delayed" \in Counters \ {"wait"} BY DEF Counters
<1>3. ASSUME NEW e \in Directions PROVE metrics[e].delayed \in Nat
  BY <1>1, <1>2 DEF CoexTypes
<1>4. /\ ~mStopped
      /\ \A e \in Directions : e # d => metrics'[e] = metrics[e]
      /\ \A c \in Counters \ {"wait"} :
            metrics'[d][c] = metrics[d][c] + IF c \in counters THEN 1 ELSE 0
  BY <1>1, CountAdds
<1> QED BY <1>2, <1>3, <1>4 DEF One

LEMMA AsksKeeps ==
    ASSUME CoexInv, NEW d \in Directions, Asks(d) PROVE CoexInv'
<1> DEFINE counters == {"requests"}
<1>1. CoexTypes /\ DelaysAdd BY DEF CoexInv
<1>2. LateAfter \in Nat /\ Nothing \notin Ages /\ 0 \in Ages
      /\ Nothing # 0
  BY CoexAssumption DEF Nothing, Ages
<1>3. /\ request[d] = Nothing /\ request' = [request EXCEPT ![d] = 0]
      /\ stampAge' = IF mStopped THEN stampAge ELSE 0
      /\ restamped' = (restamped \/ \E e \in Directions : request[e] \in 1..(LateAfter + 1))
      /\ Count(d, counters) /\ lateGrants' = lateGrants
  BY DEF Asks
<1>4. counters \in SUBSET (Counters \ {"wait"}) BY DEF Counters
<1>5. request' \in [Directions -> Ages \cup {Nothing}]
  BY <1>1, <1>2, <1>3 DEF CoexTypes
<1>6. request'[d] = 0 /\ \A e \in Directions : e # d => request'[e] = request[e]
  BY <1>1, <1>3 DEF CoexTypes
<1>7. One(request[d] # Nothing) + One("requests" \in counters)
        = One("immediate" \in counters) + One("timeout" \in counters)
            + One("activated" \in counters) + One(request'[d] # Nothing)
  BY <1>2, <1>3, <1>6 DEF One
<1>8. /\ metrics' \in [Directions -> [Counters -> Nat]]
      /\ \A e \in Directions : \A c \in Counters : metrics'[e][c] <= MaxCount
      /\ mStopped' \in BOOLEAN
      /\ WaitsAdd' /\ RequestsAdd'
  <2> HIDE DEF counters
  <2> QED BY <1>3, <1>4, <1>5, <1>6, <1>7, EventKeepsSums
<1>9. stampAge' \in Ages /\ restamped' \in BOOLEAN /\ lateGrants' \in [Directions -> Nat]
  BY <1>1, <1>2, <1>3 DEF CoexTypes
<1>10. DelaysAdd'
  <2> SUFFICES ASSUME ~mStopped', ~restamped', NEW e \in Directions
               PROVE  metrics'[e].delayed = lateGrants'[e] /\ request'[e] \in {Nothing, stampAge'}
    BY DEF DelaysAdd, Nothing
  <2>1. ~mStopped /\ metrics'[e].delayed = metrics[e].delayed + 0
    <3>1. One(e = d /\ "delayed" \in counters) = 0 BY DEF One
    <3> HIDE DEF counters
    <3> QED BY <1>3, <1>4, <3>1, DelayedCounted
  <2>2. ~restamped /\ request[e] \notin 1..(LateAfter + 1) BY <1>3
  <2>3. metrics[e].delayed = lateGrants[e] /\ lateGrants[e] \in Nat
    BY <1>1, <2>1, <2>2 DEF DelaysAdd, CoexTypes
  <2>4. request'[e] \in {Nothing, 0} /\ stampAge' = 0
    <3>1. request[e] \in Ages \cup {Nothing} BY <1>1 DEF CoexTypes
    <3>2. request[e] \in {Nothing, 0} BY <1>2, <2>2, <3>1 DEF Ages
    <3> QED BY <1>3, <1>6, <2>1, <3>2
  <2> QED BY <1>3, <2>1, <2>3, <2>4
<1> QED BY <1>5, <1>8, <1>9, <1>10 DEF CoexInv, CoexTypes, Nothing

\* A request ends: it was immediate, denied or granted.
LEMMA EndsKeeps ==
    ASSUME CoexInv, NEW d \in Directions, GrantedAtOnce(d) \/ Denied(d) \/ Granted(d)
    PROVE  CoexInv'
<1>1. CoexTypes /\ DelaysAdd BY DEF CoexInv
<1>2. LateAfter \in Nat /\ Nothing \notin Ages BY CoexAssumption DEF Nothing, Ages
<1>3. /\ request[d] # Nothing /\ request' = [request EXCEPT ![d] = Nothing]
      /\ stampAge' = stampAge /\ restamped' = restamped
  BY DEF GrantedAtOnce, Denied, Granted, Ends
<1>4. PICK counters \in SUBSET (Counters \ {"wait"}) :
        /\ Count(d, counters) /\ "requests" \notin counters
        /\ One("immediate" \in counters) + One("timeout" \in counters)
             + One("activated" \in counters) = 1
        /\ \/ lateGrants' = lateGrants /\ "delayed" \notin counters
           \/ /\ lateGrants' = IF ~mStopped /\ request[d] > LateAfter
                               THEN [lateGrants EXCEPT ![d] = @ + 1] ELSE lateGrants
              /\ "delayed" \in counters <=> stampAge > LateAfter
  <2>1. CASE GrantedAtOnce(d)
    <3>1. {"immediate"} \in SUBSET (Counters \ {"wait"}) BY DEF Counters
    <3>2. Count(d, {"immediate"}) /\ lateGrants' = lateGrants BY <2>1 DEF GrantedAtOnce
    <3> QED BY <3>1, <3>2 DEF One
  <2>2. CASE Denied(d)
    <3>1. {"timeout"} \in SUBSET (Counters \ {"wait"}) BY DEF Counters
    <3>2. Count(d, {"timeout"}) /\ lateGrants' = lateGrants BY <2>2 DEF Denied
    <3> QED BY <3>1, <3>2 DEF One
  <2>3. CASE Granted(d)
    <3> DEFINE counters == {"activated"} \cup IF IsDelayed THEN {"delayed"} ELSE {}
    <3>1. counters \in SUBSET (Counters \ {"wait"}) BY DEF Counters
    <3>2. Count(d, counters) BY <2>3 DEF Granted
    <3>3. lateGrants' = IF ~mStopped /\ request[d] > LateAfter
                        THEN [lateGrants EXCEPT ![d] = @ + 1] ELSE lateGrants
      BY <2>3 DEF Granted
    <3>4. "delayed" \in counters <=> stampAge > LateAfter BY DEF IsDelayed
    <3>5. /\ "activated" \in counters /\ "requests" \notin counters
          /\ "immediate" \notin counters /\ "timeout" \notin counters
      OBVIOUS
    <3> HIDE DEF counters
    <3> QED BY <3>1, <3>2, <3>3, <3>4, <3>5 DEF One
  <2> QED BY <2>1, <2>2, <2>3
<1>5. request' \in [Directions -> Ages \cup {Nothing}]
  BY <1>1, <1>3 DEF CoexTypes
<1>6. request'[d] = Nothing /\ \A e \in Directions : e # d => request'[e] = request[e]
  BY <1>1, <1>3 DEF CoexTypes
<1>7. One(request[d] # Nothing) + One("requests" \in counters)
        = One("immediate" \in counters) + One("timeout" \in counters)
            + One("activated" \in counters) + One(request'[d] # Nothing)
  BY <1>3, <1>4, <1>6 DEF One
<1>8. /\ metrics' \in [Directions -> [Counters -> Nat]]
      /\ \A e \in Directions : \A c \in Counters : metrics'[e][c] <= MaxCount
      /\ mStopped' \in BOOLEAN
      /\ WaitsAdd' /\ RequestsAdd'
  BY <1>4, <1>5, <1>6, <1>7, EventKeepsSums
<1>9. stampAge' \in Ages /\ restamped' \in BOOLEAN /\ lateGrants' \in [Directions -> Nat]
  <2>1. [lateGrants EXCEPT ![d] = @ + 1] \in [Directions -> Nat] BY <1>1 DEF CoexTypes
  <2> QED BY <1>1, <1>3, <1>4, <2>1 DEF CoexTypes
<1>10. DelaysAdd'
  <2> SUFFICES ASSUME ~mStopped', ~restamped', NEW e \in Directions
               PROVE  metrics'[e].delayed = lateGrants'[e] /\ request'[e] \in {Nothing, stampAge'}
    BY DEF DelaysAdd, Nothing
  <2>1. ~mStopped
        /\ metrics'[e].delayed = metrics[e].delayed + One(e = d /\ "delayed" \in counters)
    BY <1>4, DelayedCounted
  <2>2. ~restamped BY <1>3
  <2>3. /\ metrics[e].delayed = lateGrants[e] /\ lateGrants[e] \in Nat
        /\ request[e] \in {Nothing, stampAge} /\ request[d] = stampAge
    BY <1>1, <1>3, <2>1, <2>2 DEF DelaysAdd, CoexTypes
  <2>4. lateGrants'[e] = lateGrants[e] + One(e = d /\ "delayed" \in counters)
    <3>1. CASE lateGrants' = lateGrants /\ "delayed" \notin counters
      BY <2>3, <3>1 DEF One
    <3>2. CASE /\ lateGrants' = IF ~mStopped /\ request[d] > LateAfter
                                THEN [lateGrants EXCEPT ![d] = @ + 1] ELSE lateGrants
               /\ "delayed" \in counters <=> stampAge > LateAfter
      <4>1. CASE stampAge > LateAfter
        <5>1. lateGrants' = [lateGrants EXCEPT ![d] = @ + 1] /\ "delayed" \in counters
          BY <2>1, <2>3, <3>2, <4>1
        <5> QED BY <1>1, <2>3, <5>1 DEF One, CoexTypes
      <4>2. CASE ~(stampAge > LateAfter)
        <5>1. lateGrants' = lateGrants /\ "delayed" \notin counters
          BY <2>1, <2>3, <3>2, <4>2
        <5> QED BY <2>3, <5>1 DEF One
      <4> QED BY <4>1, <4>2
    <3> QED BY <1>4, <3>1, <3>2
  <2>5. request'[e] \in {Nothing, stampAge'} BY <1>3, <1>6, <2>3
  <2> QED BY <2>1, <2>3, <2>4, <2>5
<1> QED BY <1>5, <1>8, <1>9, <1>10 DEF CoexInv, CoexTypes, Nothing

LEMMA AbortKeeps ==
    ASSUME CoexInv, NEW d \in Directions, GrantAborted(d) PROVE CoexInv'
<1> DEFINE counters == {"deactivated"}
<1>1. CoexTypes /\ DelaysAdd BY DEF CoexInv
<1>2. /\ Count(d, counters) /\ stampAge' = stampAge /\ request' = request
      /\ lateGrants' = lateGrants /\ restamped' = restamped
  BY DEF GrantAborted
<1>3. counters \in SUBSET (Counters \ {"wait"}) BY DEF Counters
<1>4. One(request[d] # Nothing) + One("requests" \in counters)
        = One("immediate" \in counters) + One("timeout" \in counters)
            + One("activated" \in counters) + One(request'[d] # Nothing)
  BY <1>2 DEF One
<1>5. /\ metrics' \in [Directions -> [Counters -> Nat]]
      /\ \A e \in Directions : \A c \in Counters : metrics'[e][c] <= MaxCount
      /\ mStopped' \in BOOLEAN
      /\ WaitsAdd' /\ RequestsAdd'
  <2> HIDE DEF counters
  <2> QED BY <1>1, <1>2, <1>3, <1>4, EventKeepsSums DEF CoexTypes
<1>6. DelaysAdd'
  <2> SUFFICES ASSUME ~mStopped', ~restamped', NEW e \in Directions
               PROVE  metrics'[e].delayed = lateGrants'[e] /\ request'[e] \in {Nothing, stampAge'}
    BY DEF DelaysAdd, Nothing
  <2>1. ~mStopped /\ metrics'[e].delayed = metrics[e].delayed + 0
    <3>1. One(e = d /\ "delayed" \in counters) = 0 BY DEF One
    <3> HIDE DEF counters
    <3> QED BY <1>2, <1>3, <3>1, DelayedCounted
  <2>2. metrics[e].delayed = lateGrants[e] /\ lateGrants[e] \in Nat
        /\ request[e] \in {Nothing, stampAge}
    BY <1>1, <1>2, <2>1 DEF DelaysAdd, CoexTypes
  <2> QED BY <1>2, <2>1, <2>2
<1> QED BY <1>1, <1>2, <1>5, <1>6 DEF CoexInv, CoexTypes, Nothing

LEMMA TimeKeeps ==
    ASSUME CoexInv, TimeGoesOn PROVE CoexInv'
<1>1. CoexTypes /\ WaitsAdd /\ RequestsAdd /\ DelaysAdd BY DEF CoexInv
<1>2. LateAfter \in Nat BY CoexAssumption
<1>3. /\ stampAge' = Older(stampAge)
      /\ request' = [d \in Directions |-> Older(request[d])]
      /\ metrics' = metrics /\ mStopped' = mStopped /\ lateGrants' = lateGrants
      /\ restamped' = restamped
  BY DEF TimeGoesOn
<1>4. /\ \A a \in Ages : Older(a) \in Ages
      /\ \A a \in Ages \cup {Nothing} : Older(a) = Nothing <=> a = Nothing
  BY <1>2 DEF Older, Ages, Nothing
<1>5. CoexTypes'
  BY <1>1, <1>3, <1>4 DEF CoexTypes, Nothing
<1>6. \A d \in Directions : request'[d] = Nothing <=> request[d] = Nothing
  BY <1>1, <1>3, <1>4 DEF CoexTypes
<1>7. WaitsAdd' BY <1>1, <1>3 DEF WaitsAdd
<1>8. RequestsAdd'
  BY <1>1, <1>3, <1>6 DEF RequestsAdd, Nothing
<1>9. DelaysAdd'
  <2> SUFFICES ASSUME ~mStopped, ~restamped, NEW e \in Directions
               PROVE  request'[e] \in {Nothing, stampAge'}
    BY <1>1, <1>3 DEF DelaysAdd, Nothing
  <2>1. request[e] \in {Nothing, stampAge} BY <1>1 DEF DelaysAdd
  <2> QED BY <1>1, <1>3, <1>6, <2>1
<1> QED BY <1>5, <1>7, <1>8, <1>9 DEF CoexInv

LEMMA CoexNextInv == CoexInv /\ [CoexNext]_coexVars => CoexInv'
<1> SUFFICES ASSUME CoexInv, [CoexNext]_coexVars PROVE CoexInv'
  OBVIOUS
<1>1. ASSUME NEW d \in Directions,
             Asks(d) \/ GrantedAtOnce(d) \/ Denied(d) \/ Granted(d) \/ GrantAborted(d)
      PROVE  CoexInv'
  BY <1>1, AsksKeeps, EndsKeeps, AbortKeeps
<1>2. CASE UNCHANGED coexVars
  BY <1>2 DEF coexVars, CoexInv, CoexTypes, WaitsAdd, RequestsAdd, DelaysAdd
<1> QED BY <1>1, <1>2, TimeKeeps DEF CoexNext

\* Requests that wait, that were granted and that were late are each counted
\* once, whichever direction the arbiter answers first.
THEOREM CoexInvariant == CoexInit /\ [][CoexNext]_coexVars => []CoexInv
BY CoexInitInv, CoexNextInv, PTL

\* The counters of each direction add up as radio_coex.h says, but for the
\* request under way, until one is at its end; and the delayed grants are
\* those that came late while only one direction waits at a time.
THEOREM MetricsHold == CoexInit /\ [][CoexNext]_coexVars => []MetricsAddUp
<1>1. CoexInv => MetricsAddUp
  BY DEF CoexInv, RequestsAdd, DelaysAdd, MetricsAddUp
<1> QED BY <1>1, CoexInvariant, PTL

-----------------------------------------------------------------------------
(* Transmit security.                                                      *)

Steps     == Len(CounterFirst)
StepNames == {"counter", "keyId", "previous", "current", "next",
              "exportPrevious", "exportCurrent", "exportNext"}

\* What otPlatRadioSetMacKey has still to do is an end of its list, and the
\* main loop is not within the increment of a counter meanwhile.
ChangingInOrder ==
    /\ changing \in Seq(StepNames) /\ Len(changing) \in 0..Steps
    /\ \A i \in 1..Len(changing) : changing[i] = CounterFirst[i + Steps - Len(changing)]
    /\ changing # <<>> => loaded = NotLoaded

\* The slots of the previous and the current key hold no newer key than their
\* name says, and the key the stack changes to is not yet the current one
\* when the counter is reset.
SlotsBehind ==
    /\ keys["previous"] < newest /\ keys["current"] <= newest
    /\ Len(changing) = Steps => keys["current"] # newest

\* A key that is not the current one yet was used for no frame, unless as the
\* next one for an ACK.
Untouched(k) == k \in early \/ (nextFor[k] = 0 /\ k \notin fell)
FutureUntouched ==
    \A k \in KeyNumbers :
        k > newest \/ (k = newest /\ Len(changing) = Steps) => Untouched(k)

\* The counter is beyond every value used with the newest key.
CounterBeyond ==
    ~raced =>
        /\ loaded # NotLoaded => macFrameCounter = loaded
        /\ newest \in early \/ (newest \notin fell /\ nextFor[newest] <= macFrameCounter)

SecurityTypes ==
    /\ keyId \in 1..KeyIds
    /\ keys \in [KeySlots -> KeyNumbers \cup {Reference}]
    /\ macFrameCounter \in 0..MaxCounter
    /\ newest \in 1..MaxKey
    /\ loaded \in 0..(MaxCounter - 1) \cup {NotLoaded}
    /\ nextFor \in [KeyNumbers -> 0..MaxCounter]
    /\ fell \subseteq KeyNumbers /\ early \subseteq KeyNumbers \cup {Reference}
    /\ raced \in BOOLEAN

SecurityInv ==
    /\ SecurityTypes /\ ChangingInOrder /\ SlotsBehind
    /\ FutureUntouched /\ CounterBeyond

LEMMA StepsCounted ==
    /\ Steps = 8 /\ CounterFirst \in Seq(StepNames)
    /\ CounterFirst[1] = "counter"
    /\ CounterFirst[2] = "keyId" /\ CounterFirst[3] = "previous"
    /\ CounterFirst[4] = "current" /\ CounterFirst[5] = "next"
    /\ CounterFirst[6] = "exportPrevious" /\ CounterFirst[7] = "exportCurrent"
    /\ CounterFirst[8] = "exportNext"
<1>1. Steps = 8 BY DEF Steps, CounterFirst
<1>2. CounterFirst \in Seq(StepNames) BY DEF CounterFirst, StepNames
<1>3. /\ CounterFirst[1] = "counter"
      /\ CounterFirst[2] = "keyId" /\ CounterFirst[3] = "previous"
      /\ CounterFirst[4] = "current" /\ CounterFirst[5] = "next"
  BY DEF CounterFirst
<1>4. /\ CounterFirst[6] = "exportPrevious" /\ CounterFirst[7] = "exportCurrent"
      /\ CounterFirst[8] = "exportNext"
  BY DEF CounterFirst
<1> QED BY <1>1, <1>2, <1>3, <1>4

LEMMA KeyIdInRange == ASSUME NEW k \in Nat PROVE IdOf(k) \in 1..KeyIds
<1>1. KeyIds \in Nat /\ KeyIds > 0 BY SecurityAssumption
<1>2. k % KeyIds \in 0..(KeyIds - 1) BY <1>1
<1> QED BY <1>1, <1>2 DEF IdOf

LEMMA SecurityInitInv == SecurityInit => SecurityInv
<1> SUFFICES ASSUME SecurityInit PROVE SecurityInv
  OBVIOUS
<1>1. MaxKey \in Nat /\ MaxKey > 0 /\ MaxCounter \in Nat BY SecurityAssumption
<1>2. /\ newest = 1 /\ keyId = IdOf(1) /\ macFrameCounter = 0 /\ changing = <<>>
      /\ loaded = NotLoaded /\ fell = {} /\ early = {}
      /\ keys = [previous |-> 0, current |-> 1, next |-> 2]
      /\ nextFor = [k \in KeyNumbers |-> 0]
  BY DEF SecurityInit
<1>3. Len(changing) = 0 /\ changing \in Seq(StepNames) BY <1>2
<1>4. SecurityTypes
  <2>1. {0, 1, 2} \subseteq KeyNumbers BY <1>1 DEF KeyNumbers
  <2>2. keys \in [KeySlots -> KeyNumbers \cup {Reference}]
    BY <1>2, <2>1 DEF KeySlots
  <2>3. raced \in BOOLEAN BY DEF SecurityInit
  <2>4. keyId \in 1..KeyIds BY <1>2, KeyIdInRange
  <2>5. newest \in 1..MaxKey /\ 0 \in 0..MaxCounter BY <1>1, <1>2
  <2>6. nextFor \in [KeyNumbers -> 0..MaxCounter] BY <1>2, <2>5
  <2> QED BY <1>2, <2>2, <2>3, <2>4, <2>5, <2>6 DEF SecurityTypes
<1>5. ChangingInOrder BY <1>2, <1>3, StepsCounted DEF ChangingInOrder
<1>6. SlotsBehind BY <1>2, <1>3, StepsCounted DEF SlotsBehind
<1>7. FutureUntouched BY <1>2 DEF FutureUntouched, Untouched
<1>8. CounterBeyond
  <2>1. newest \in KeyNumbers BY <1>1, <1>2 DEF KeyNumbers
  <2> QED BY <1>2, <2>1 DEF CounterBeyond
<1> QED BY <1>4, <1>5, <1>6, <1>7, <1>8 DEF SecurityInv

\* What securing a frame does to the record of a key.
LEMMA UseOfKey ==
    ASSUME SecurityTypes, NEW key \in KeyNumbers \cup {Reference},
           NEW counter \in 0..(MaxCounter - 1), Uses(key, counter)
    PROVE  /\ nextFor' \in [KeyNumbers -> 0..MaxCounter] /\ fell' \subseteq KeyNumbers
           /\ \A k \in KeyNumbers : k # key =>
                 nextFor'[k] = nextFor[k] /\ (k \in fell' <=> k \in fell)
           /\ key # Reference /\ nextFor[key] <= counter =>
                 nextFor'[key] = counter + 1 /\ (key \in fell' <=> key \in fell)
<1>1. MaxCounter \in Nat BY SecurityAssumption
<1>2. CASE key = Reference
  BY <1>2 DEF Uses, SecurityTypes
<1>3. CASE key # Reference
  <2>1. key \in KeyNumbers BY <1>3
  <2>2. /\ nextFor' = [nextFor EXCEPT ![key] = IF counter < @ THEN @ ELSE counter + 1]
        /\ fell' = IF counter < nextFor[key] THEN fell \cup {key} ELSE fell
    BY <1>3 DEF Uses
  <2>3. nextFor[key] \in 0..MaxCounter BY <2>1 DEF SecurityTypes
  <2>4. counter + 1 \in 0..MaxCounter BY <1>1
  <2>5. nextFor' \in [KeyNumbers -> 0..MaxCounter]
    BY <2>1, <2>2, <2>3, <2>4 DEF SecurityTypes
  <2>6. fell' \subseteq KeyNumbers BY <2>1, <2>2 DEF SecurityTypes
  <2>7. ASSUME NEW k \in KeyNumbers, k # key
        PROVE  nextFor'[k] = nextFor[k] /\ (k \in fell' <=> k \in fell)
    BY <2>1, <2>2, <2>7 DEF SecurityTypes
  <2>8. ASSUME nextFor[key] <= counter
        PROVE  nextFor'[key] = counter + 1 /\ (key \in fell' <=> key \in fell)
    <3>1. ~(counter < nextFor[key]) BY <1>1, <2>3, <2>8
    <3> QED BY <2>1, <2>2, <3>1 DEF SecurityTypes
  <2> QED BY <2>5, <2>6, <2>7, <2>8
<1> QED BY <1>2, <1>3

LEMMA LoadKeeps == ASSUME SecurityInv, LoadCounter PROVE SecurityInv'
<1>1. SecurityTypes /\ ChangingInOrder /\ SlotsBehind /\ FutureUntouched /\ CounterBeyond
  BY DEF SecurityInv
<1>2. MaxCounter \in Nat BY SecurityAssumption
<1>3. /\ changing = <<>> /\ macFrameCounter < MaxCounter
      /\ loaded' = macFrameCounter /\ macFrameCounter' = macFrameCounter
      /\ keyId' = keyId /\ keys' = keys /\ newest' = newest /\ changing' = changing
      /\ nextFor' = nextFor /\ fell' = fell /\ early' = early /\ raced' = raced
  BY DEF LoadCounter, keyVars, useVars
<1>4. SecurityTypes'
  <2>1. macFrameCounter \in 0..(MaxCounter - 1) BY <1>1, <1>2, <1>3 DEF SecurityTypes
  <2> QED BY <1>1, <1>3, <2>1 DEF SecurityTypes
<1>5. ChangingInOrder' BY <1>1, <1>3 DEF ChangingInOrder
<1>6. SlotsBehind' BY <1>1, <1>3 DEF SlotsBehind
<1>7. FutureUntouched' BY <1>1, <1>3 DEF FutureUntouched, Untouched
<1>8. CounterBeyond' BY <1>1, <1>3 DEF CounterBeyond
<1> QED BY <1>4, <1>5, <1>6, <1>7, <1>8 DEF SecurityInv

LEMMA StoreKeeps == ASSUME SecurityInv, StoreCounter PROVE SecurityInv'
<1>1. SecurityTypes /\ ChangingInOrder /\ SlotsBehind /\ FutureUntouched /\ CounterBeyond
  BY DEF SecurityInv
<1>2. MaxCounter \in Nat /\ MaxKey \in Nat BY SecurityAssumption
<1>3. /\ loaded # NotLoaded /\ macFrameCounter' = loaded + 1 /\ loaded' = NotLoaded
      /\ Uses(keys["current"], loaded)
      /\ keyId' = keyId /\ keys' = keys /\ newest' = newest /\ changing' = changing
      /\ early' = early /\ raced' = raced
  BY DEF StoreCounter
<1>4. loaded \in 0..(MaxCounter - 1) /\ keys["current"] \in KeyNumbers \cup {Reference}
  BY <1>1, <1>3 DEF SecurityTypes, KeySlots
<1>5. changing = <<>> /\ Len(changing) = 0 BY <1>1, <1>3 DEF ChangingInOrder
<1>6. keys["current"] <= newest BY <1>1 DEF SlotsBehind
<1>7. /\ nextFor' \in [KeyNumbers -> 0..MaxCounter] /\ fell' \subseteq KeyNumbers
      /\ \A k \in KeyNumbers : k # keys["current"] =>
            nextFor'[k] = nextFor[k] /\ (k \in fell' <=> k \in fell)
      /\ keys["current"] # Reference /\ nextFor[keys["current"]] <= loaded =>
            /\ nextFor'[keys["current"]] = loaded + 1
            /\ keys["current"] \in fell' <=> keys["current"] \in fell
  BY <1>1, <1>3, <1>4, UseOfKey
<1>8. newest \in KeyNumbers /\ newest # Reference /\ newest \in Int
  BY <1>1, <1>2 DEF SecurityTypes, KeyNumbers, Reference
<1>9. SecurityTypes'
  <2>1. loaded + 1 \in 0..MaxCounter BY <1>2, <1>4
  <2> QED BY <1>1, <1>3, <1>7, <2>1 DEF SecurityTypes
<1>10. ChangingInOrder' BY <1>1, <1>3 DEF ChangingInOrder
<1>11. SlotsBehind' BY <1>1, <1>3 DEF SlotsBehind
<1>12. FutureUntouched'
  <2> SUFFICES ASSUME NEW k \in KeyNumbers, k > newest PROVE Untouched(k)'
    BY <1>3, <1>5, StepsCounted DEF FutureUntouched, KeyNumbers
  <2>1. k # keys["current"] BY <1>4, <1>6, <1>8 DEF KeyNumbers, Reference
  <2> QED BY <1>1, <1>3, <1>7, <2>1 DEF FutureUntouched, Untouched
<1>13. CounterBeyond'
  <2> SUFFICES ASSUME ~raced, newest \notin early
               PROVE  newest \notin fell' /\ nextFor'[newest] <= loaded + 1
    BY <1>3 DEF CounterBeyond
  <2>1. macFrameCounter = loaded /\ newest \notin fell /\ nextFor[newest] <= macFrameCounter
    BY <1>1, <1>3 DEF CounterBeyond
  <2>2. nextFor[newest] \in Int BY <1>1, <1>2, <1>8 DEF SecurityTypes
  <2>3. CASE keys["current"] = newest
    BY <1>4, <1>7, <1>8, <2>1, <2>3
  <2>4. CASE keys["current"] # newest
    <3>1. nextFor'[newest] = nextFor[newest] /\ newest \notin fell'
      BY <1>7, <1>8, <2>1, <2>4
    <3> QED BY <1>2, <1>4, <2>1, <2>2, <3>1
  <2> QED BY <2>3, <2>4
<1> QED BY <1>9, <1>10, <1>11, <1>12, <1>13 DEF SecurityInv

\* The ACK may be secured with the next key, which is early, or with the
\* current one, which takes the counter.
LEMMA AckKeeps == ASSUME SecurityInv, SecureEnhancedAck PROVE SecurityInv'
<1>1. SecurityTypes /\ ChangingInOrder /\ SlotsBehind /\ FutureUntouched /\ CounterBeyond
  BY DEF SecurityInv
<1>2. MaxCounter \in Nat /\ MaxKey \in Nat BY SecurityAssumption
<1>3. /\ macFrameCounter < MaxCounter /\ macFrameCounter' = macFrameCounter + 1
      /\ raced' = (raced \/ loaded # NotLoaded)
      /\ loaded' = loaded
      /\ keyId' = keyId /\ keys' = keys /\ newest' = newest /\ changing' = changing
  BY DEF SecureEnhancedAck
<1>4. PICK slot \in KeySlots :
        /\ Uses(keys[slot], macFrameCounter)
        /\ early' = IF slot = "next" THEN early \cup {keys["next"]} ELSE early
  BY DEF SecureEnhancedAck, SlotsFor
<1>5. macFrameCounter \in 0..(MaxCounter - 1) /\ keys[slot] \in KeyNumbers \cup {Reference}
  BY <1>1, <1>2, <1>3 DEF SecurityTypes
<1>6. /\ nextFor' \in [KeyNumbers -> 0..MaxCounter] /\ fell' \subseteq KeyNumbers
      /\ \A k \in KeyNumbers : k # keys[slot] =>
            nextFor'[k] = nextFor[k] /\ (k \in fell' <=> k \in fell)
      /\ keys[slot] # Reference /\ nextFor[keys[slot]] <= macFrameCounter =>
            /\ nextFor'[keys[slot]] = macFrameCounter + 1
            /\ keys[slot] \in fell' <=> keys[slot] \in fell
  BY <1>1, <1>4, <1>5, UseOfKey
<1>7. early \subseteq early' /\ (slot = "next" => keys[slot] \in early')
  BY <1>4
<1>8. slot # "next" => keys[slot] <= newest /\ (Len(changing) = Steps => keys[slot] # newest)
  <2>1. newest \in Int /\ \A s \in KeySlots : keys[s] \in Int
    BY <1>1, <1>2 DEF SecurityTypes, KeyNumbers, Reference
  <2>2. {"previous", "current"} \subseteq KeySlots BY DEF KeySlots
  <2>3. slot \in {"previous", "current", "next"} BY DEF KeySlots
  <2> QED BY <1>1, <2>1, <2>2, <2>3 DEF SlotsBehind
<1>9. newest \in KeyNumbers /\ newest # Reference /\ newest \in Int
  BY <1>1, <1>2 DEF SecurityTypes, KeyNumbers, Reference
<1>10. SecurityTypes'
  <2>1. macFrameCounter + 1 \in 0..MaxCounter BY <1>2, <1>5
  <2>2. early' \subseteq KeyNumbers \cup {Reference} BY <1>1, <1>4 DEF SecurityTypes, KeySlots
  <2>3. raced' \in BOOLEAN BY <1>3
  <2> QED BY <1>1, <1>3, <1>6, <2>1, <2>2, <2>3 DEF SecurityTypes
<1>11. ChangingInOrder' BY <1>1, <1>3 DEF ChangingInOrder
<1>12. SlotsBehind' BY <1>1, <1>3 DEF SlotsBehind
<1>13. FutureUntouched'
  <2> SUFFICES ASSUME NEW k \in KeyNumbers,
                      k > newest \/ (k = newest /\ Len(changing) = Steps), k \notin early'
               PROVE  nextFor'[k] = 0 /\ k \notin fell'
    BY <1>3 DEF FutureUntouched, Untouched
  <2>1. k # keys[slot] BY <1>5, <1>7, <1>8, <1>9 DEF KeyNumbers, Reference
  <2> QED BY <1>1, <1>6, <1>7, <2>1 DEF FutureUntouched, Untouched
<1>14. CounterBeyond'
  <2> SUFFICES ASSUME ~raced'
               PROVE  /\ loaded' # NotLoaded => macFrameCounter' = loaded'
                      /\ newest' \in early' \/ (newest' \notin fell' /\ nextFor'[newest'] <= macFrameCounter')
    BY DEF CounterBeyond, NotLoaded
  <2>1. ~raced /\ loaded = NotLoaded BY <1>3
  <2> SUFFICES ASSUME newest \notin early'
               PROVE  newest \notin fell' /\ nextFor'[newest] <= macFrameCounter + 1
    BY <1>3, <2>1
  <2>2. newest \notin fell /\ nextFor[newest] <= macFrameCounter
    BY <1>1, <1>7, <2>1 DEF CounterBeyond
  <2>3. nextFor[newest] \in Int BY <1>1, <1>2, <1>9 DEF SecurityTypes
  <2>4. CASE keys[slot] = newest
    BY <1>2, <1>5, <1>6, <1>9, <2>2, <2>4
  <2>5. CASE keys[slot] # newest
    <3>1. nextFor'[newest] = nextFor[newest] /\ newest \notin fell'
      BY <1>6, <1>9, <2>2, <2>5
    <3> QED BY <1>2, <1>5, <2>2, <2>3, <3>1
  <2> QED BY <2>4, <2>5
<1> QED BY <1>10, <1>11, <1>12, <1>13, <1>14 DEF SecurityInv

LEMMA SetMacKeyKeeps == ASSUME SecurityInv, SetMacKey PROVE SecurityInv'
<1>1. SecurityTypes /\ ChangingInOrder /\ SlotsBehind /\ FutureUntouched /\ CounterBeyond
  BY DEF SecurityInv
<1>2. MaxCounter \in Nat /\ MaxKey \in Nat BY SecurityAssumption
<1>3. /\ loaded = NotLoaded /\ loaded' = loaded /\ newest < MaxKey /\ newest' = newest + 1
      /\ changing' = CounterFirst /\ macFrameCounter' = macFrameCounter
      /\ keyId' = keyId /\ keys' = keys
      /\ nextFor' = nextFor /\ fell' = fell /\ early' = early /\ raced' = raced
  BY DEF SetMacKey, keyVars, useVars
<1>4. newest \in Int /\ keys["previous"] \in Int /\ keys["current"] \in Int
  BY <1>1, <1>2 DEF SecurityTypes, KeySlots, KeyNumbers, Reference
<1>5. SecurityTypes'
  <2>1. newest + 1 \in 1..MaxKey BY <1>1, <1>2, <1>3 DEF SecurityTypes
  <2> QED BY <1>1, <1>3, <2>1 DEF SecurityTypes
<1>6. ChangingInOrder'
  <2>1. Len(changing') = Steps BY <1>3 DEF Steps
  <2> QED BY <1>3, <2>1, StepsCounted DEF ChangingInOrder
<1>7. SlotsBehind' BY <1>1, <1>3, <1>4 DEF SlotsBehind
<1>8. FutureUntouched'
  <2> SUFFICES ASSUME NEW k \in KeyNumbers, k > newest + 1 \/ k = newest + 1
               PROVE  Untouched(k)'
    BY <1>3 DEF FutureUntouched
  <2>1. k > newest BY <1>4 DEF KeyNumbers
  <2> QED BY <1>1, <1>3, <2>1 DEF FutureUntouched, Untouched
<1>9. CounterBeyond'
  <2>1. newest + 1 \in KeyNumbers /\ newest + 1 > newest
    BY <1>1, <1>2 DEF SecurityTypes, KeyNumbers
  <2>2. Untouched(newest + 1) BY <1>1, <2>1 DEF FutureUntouched
  <2>3. macFrameCounter \in Nat BY <1>1, <1>2 DEF SecurityTypes
  <2> QED BY <1>3, <2>2, <2>3 DEF CounterBeyond, Untouched
<1> QED BY <1>5, <1>6, <1>7, <1>8, <1>9 DEF SecurityInv

\* What each step of the change of keys does.
LEMMA StepOutcome ==
    ASSUME SetMacKeyStep
    PROVE  /\ Head(changing) = "counter" => macFrameCounter' = 0 /\ keyId' = keyId /\ keys' = keys
           /\ Head(changing) \in {"keyId", "previous", "current", "next", "exportPrevious",
                                  "exportCurrent", "exportNext"} => macFrameCounter' = macFrameCounter
           /\ Head(changing) = "keyId" => keyId' = IdOf(newest) /\ keys' = keys
           /\ Head(changing) \in {"previous", "current", "next", "exportPrevious",
                                  "exportCurrent", "exportNext"} => keyId' = keyId
           /\ Head(changing) = "previous" => keys' = [keys EXCEPT !["previous"] = Reference]
           /\ Head(changing) = "current" => keys' = [keys EXCEPT !["current"] = Reference]
           /\ Head(changing) = "next" => keys' = [keys EXCEPT !["next"] = Reference]
           /\ Head(changing) = "exportPrevious" => keys' = [keys EXCEPT !["previous"] = newest - 1]
           /\ Head(changing) = "exportCurrent" => keys' = [keys EXCEPT !["current"] = newest]
           /\ Head(changing) = "exportNext" => keys' = [keys EXCEPT !["next"] = newest + 1]
<1> DEFINE head == Head(changing)
<1>1. CASE head = "counter"
  <2>1. macFrameCounter' = 0 /\ keyId' = keyId /\ keys' = keys
    BY <1>1 DEF SetMacKeyStep, KeySlots
  <2> QED BY <1>1, <2>1
<1>2. CASE head = "keyId"
  <2>1. keyId' = IdOf(newest) /\ keys' = keys /\ macFrameCounter' = macFrameCounter
    BY <1>2 DEF SetMacKeyStep, KeySlots
  <2> QED BY <1>2, <2>1
<1>3. CASE head = "previous" BY <1>3 DEF SetMacKeyStep, Put, KeySlots
<1>4. CASE head = "current" BY <1>4 DEF SetMacKeyStep, Put, KeySlots
<1>5. CASE head = "next" BY <1>5 DEF SetMacKeyStep, Put, KeySlots
<1>6. CASE head = "exportPrevious" BY <1>6 DEF SetMacKeyStep, Put, KeySlots
<1>7. CASE head = "exportCurrent" BY <1>7 DEF SetMacKeyStep, Put, KeySlots
<1>8. CASE head = "exportNext" BY <1>8 DEF SetMacKeyStep, Put, KeySlots
<1> QED BY <1>1, <1>2, <1>3, <1>4, <1>5, <1>6, <1>7, <1>8

LEMMA SetMacKeyStepKeeps == ASSUME SecurityInv, SetMacKeyStep PROVE SecurityInv'
<1>1. SecurityTypes /\ ChangingInOrder /\ SlotsBehind /\ FutureUntouched /\ CounterBeyond
  BY DEF SecurityInv
<1>2. MaxCounter \in Nat /\ MaxKey \in Nat BY SecurityAssumption
<1>3. /\ changing # <<>> /\ changing' = Tail(changing)
      /\ newest' = newest /\ loaded' = loaded
      /\ nextFor' = nextFor /\ fell' = fell /\ early' = early /\ raced' = raced
  BY DEF SetMacKeyStep, useVars
<1>4. /\ changing \in Seq(StepNames) /\ Len(changing) \in 1..8
      /\ Head(changing) = CounterFirst[9 - Len(changing)]
      /\ Len(changing') = Len(changing) - 1 /\ Len(changing') \in 0..7
  <2>1. changing \in Seq(StepNames) /\ Len(changing) \in 0..8
    BY <1>1, StepsCounted DEF ChangingInOrder
  <2>2. Len(changing) \in 1..8 BY <1>3, <2>1
  <2>3. Head(changing) = changing[1] /\ Len(Tail(changing)) = Len(changing) - 1
    BY <1>3, <2>1
  <2>4. changing[1] = CounterFirst[1 + 8 - Len(changing)]
    BY <1>1, <2>2, StepsCounted DEF ChangingInOrder
  <2>5. 1 + 8 - Len(changing) = 9 - Len(changing) BY <2>2
  <2>6. Head(changing) = CounterFirst[9 - Len(changing)] BY <2>3, <2>4, <2>5
  <2>7. Len(changing') = Len(changing) - 1 BY <1>3, <2>3
  <2>8. \A n \in 1..8 : n - 1 \in 0..7 OBVIOUS
  <2>9. Len(changing') \in 0..7 BY <2>2, <2>7, <2>8, Zenon
  <2> QED BY <2>1, <2>2, <2>6, <2>7, <2>9
<1>5. ChangingInOrder'
  <2>1. changing' \in Seq(StepNames) BY <1>3, <1>4
  <2>2. ASSUME NEW i \in 1..Len(changing') PROVE changing'[i] = CounterFirst[i + 8 - Len(changing')]
    <3>1. changing'[i] = changing[i + 1] BY <1>3, <1>4
    <3>2. i + 1 \in 1..Len(changing) BY <1>4
    <3>3. changing[i + 1] = CounterFirst[(i + 1) + 8 - Len(changing)]
      BY <1>1, <3>2, StepsCounted DEF ChangingInOrder
    <3>4. (i + 1) + 8 - Len(changing) = i + 8 - Len(changing') BY <1>4
    <3> QED BY <3>1, <3>3, <3>4
  <2>3. loaded = NotLoaded BY <1>1, <1>3 DEF ChangingInOrder
  <2>4. Steps = 8 BY StepsCounted
  <2>5. Len(changing') \in 0..Steps
    <3>1. Len(changing') \in 0..7 BY <1>4
    <3> QED BY <2>4, <3>1
  <2>6. \A i \in 1..Len(changing') : changing'[i] = CounterFirst[i + Steps - Len(changing')]
    BY <2>2, <2>4
  <2> QED BY <1>3, <2>1, <2>3, <2>5, <2>6 DEF ChangingInOrder
<1>6. newest \in 1..MaxKey /\ newest \in Int
      /\ {newest - 1, newest, newest + 1} \subseteq KeyNumbers
  BY <1>1, <1>2 DEF SecurityTypes, KeyNumbers
<1>7. FutureUntouched' /\ Len(changing') # Steps
  <2>1. Len(changing') # Steps
    <3>1. Steps = 8 BY StepsCounted
    <3>2. Len(changing') \in 0..7 BY <1>4
    <3>3. 8 \notin 0..7 OBVIOUS
    <3> QED BY <3>1, <3>2, <3>3
  <2> SUFFICES ASSUME NEW k \in KeyNumbers, k > newest
               PROVE  k \in early \/ (nextFor[k] = 0 /\ k \notin fell)
    BY <1>3, <2>1 DEF FutureUntouched, Untouched
  <2> QED BY <1>1 DEF FutureUntouched, Untouched
<1>8. CASE Len(changing) = 8
  <2>1. Head(changing) = "counter" BY <1>4, <1>8, StepsCounted
  <2>2. macFrameCounter' = 0 /\ keyId' = keyId /\ keys' = keys
    BY <2>1, StepOutcome
  <2>3. SecurityTypes' BY <1>1, <1>2, <1>3, <2>2 DEF SecurityTypes
  <2>4. SlotsBehind' BY <1>1, <1>3, <1>7, <2>2 DEF SlotsBehind
  <2>5. CounterBeyond'
    <3>1. Untouched(newest) BY <1>1, <1>6, <1>8, StepsCounted DEF FutureUntouched
    <3>2. loaded = NotLoaded BY <1>1, <1>3 DEF ChangingInOrder
    <3> QED BY <1>3, <2>2, <3>1, <3>2 DEF CounterBeyond, Untouched
  <2> QED BY <1>5, <1>7, <2>3, <2>4, <2>5 DEF SecurityInv
<1>9. CASE Len(changing) # 8
  <2>1. Head(changing) \in {"keyId", "previous", "current", "next",
                            "exportPrevious", "exportCurrent", "exportNext"}
    <3> DEFINE left == Len(changing)
    <3>1. left \in 1..8 /\ left # 8 BY <1>4, <1>9
    <3>2. 9 - left \in {2, 3, 4, 5, 6, 7, 8}
      <4> HIDE DEF left
      <4> QED BY <3>1
    <3> QED BY <1>4, <3>2, StepsCounted
  <2>2. macFrameCounter' = macFrameCounter /\ keyId' \in 1..KeyIds
    <3>1. IdOf(newest) \in 1..KeyIds BY <1>2, <1>6, KeyIdInRange
    <3>2. keyId \in 1..KeyIds BY <1>1 DEF SecurityTypes
    <3> QED BY <2>1, <3>1, <3>2, StepOutcome
  <2>3. /\ keys' \in [KeySlots -> KeyNumbers \cup {Reference}]
        /\ keys'["previous"] \in {keys["previous"], Reference, newest - 1}
        /\ keys'["current"] \in {keys["current"], Reference, newest}
    <3>1. CASE keys' = keys BY <1>1, <3>1 DEF SecurityTypes
    <3>2. CASE \/ keys' = [keys EXCEPT !["previous"] = Reference]
               \/ keys' = [keys EXCEPT !["current"] = Reference]
               \/ keys' = [keys EXCEPT !["next"] = Reference]
      BY <1>1, <3>2 DEF SecurityTypes, KeySlots
    <3>3. CASE \/ keys' = [keys EXCEPT !["previous"] = newest - 1]
               \/ keys' = [keys EXCEPT !["current"] = newest]
               \/ keys' = [keys EXCEPT !["next"] = newest + 1]
      BY <1>1, <1>6, <3>3 DEF SecurityTypes, KeySlots
    <3> QED BY <2>1, <3>1, <3>2, <3>3, StepOutcome
  <2>4. SecurityTypes' BY <1>1, <1>3, <2>2, <2>3 DEF SecurityTypes
  <2>5. SlotsBehind'
    <3>0. Len(changing') # Steps BY <1>7
    <3>1. keys["previous"] \in Int /\ keys["current"] \in Int
      BY <1>1, <1>2 DEF SecurityTypes, KeySlots, KeyNumbers, Reference
    <3>2. Reference < newest BY <1>2, <1>6 DEF Reference
    <3>3. keys["previous"] < newest /\ keys["current"] <= newest BY <1>1 DEF SlotsBehind
    <3>4. keys'["previous"] < newest /\ keys'["current"] <= newest
      <4>1. newest - 1 < newest /\ newest <= newest /\ Reference <= newest
        BY <1>6, <3>2 DEF Reference
      <4> QED BY <2>3, <3>2, <3>3, <4>1
    <3> QED BY <1>3, <3>0, <3>4 DEF SlotsBehind
  <2>6. CounterBeyond' BY <1>1, <1>3, <2>2 DEF CounterBeyond
  <2> QED BY <1>5, <1>7, <2>4, <2>5, <2>6 DEF SecurityInv
<1> QED BY <1>8, <1>9

LEMMA SetCounterKeeps == ASSUME SecurityInv, SetMacFrameCounter PROVE SecurityInv'
<1>1. SecurityTypes /\ ChangingInOrder /\ SlotsBehind /\ FutureUntouched /\ CounterBeyond
  BY DEF SecurityInv
<1>2. MaxCounter \in Nat /\ MaxKey \in Nat BY SecurityAssumption
<1>3. /\ loaded = NotLoaded /\ loaded' = loaded /\ newest' = newest /\ changing' = changing
      /\ keyId' = keyId /\ keys' = keys
      /\ nextFor' = nextFor /\ fell' = fell /\ early' = early /\ raced' = raced
  BY DEF SetMacFrameCounter, useVars
<1>4. macFrameCounter' \in (macFrameCounter + 1)..MaxCounter
  BY DEF SetMacFrameCounter
<1>5. macFrameCounter \in Nat /\ macFrameCounter' \in 0..MaxCounter /\ macFrameCounter' > macFrameCounter
  BY <1>1, <1>2, <1>4 DEF SecurityTypes
<1>6. SecurityTypes' BY <1>1, <1>3, <1>5 DEF SecurityTypes
<1>7. ChangingInOrder' BY <1>1, <1>3 DEF ChangingInOrder
<1>8. SlotsBehind' BY <1>1, <1>3 DEF SlotsBehind
<1>9. FutureUntouched' BY <1>1, <1>3 DEF FutureUntouched, Untouched
<1>10. CounterBeyond'
  <2>1. newest \in KeyNumbers BY <1>1, <1>2 DEF SecurityTypes, KeyNumbers
  <2>2. nextFor[newest] \in Int BY <1>1, <1>2, <2>1 DEF SecurityTypes
  <2>3. nextFor[newest] <= macFrameCounter => nextFor[newest] <= macFrameCounter'
    BY <1>2, <1>5, <2>2
  <2> QED BY <1>1, <1>3, <2>3 DEF CounterBeyond
<1> QED BY <1>6, <1>7, <1>8, <1>9, <1>10 DEF SecurityInv

LEMMA SecurityNextInv == SecurityInv /\ [SecurityNext]_securityVars => SecurityInv'
<1> SUFFICES ASSUME SecurityInv, [SecurityNext]_securityVars PROVE SecurityInv'
  OBVIOUS
<1>1. CASE UNCHANGED securityVars
  BY <1>1 DEF securityVars, keyVars, useVars, SecurityInv, SecurityTypes, ChangingInOrder,
              SlotsBehind, FutureUntouched, Untouched, CounterBeyond
<1> QED
  BY <1>1, LoadKeeps, StoreKeeps, AckKeeps, SetMacKeyKeeps, SetMacKeyStepKeeps,
     SetCounterKeeps DEF SecurityNext

\* The steps of otPlatRadioSetMacKey come in their order, and until the counter
\* was reset the slots of the current key hold only older keys.
THEOREM SecurityInvariant == SecuritySpec => []SecurityInv
BY SecurityInitInv, SecurityNextInv, PTL DEF SecuritySpec

\* However the stack changes keys while ACKs are secured in the interrupt, no
\* counter is used twice with the current key: the counter is reset before
\* the key is there.  The two exceptions are in the property.
THEOREM CounterGrows == SecuritySpec => []CountsUpAfterChange
<1>1. SecurityInv => CountsUpAfterChange
  BY DEF SecurityInv, CounterBeyond, CountsUpAfterChange
<1> QED BY <1>1, SecurityInvariant, PTL

-----------------------------------------------------------------------------
(* All of them.                                                            *)

\* Each step of the whole is a step of one part and leaves the others alone.
LEMMA PartsStep ==
    ASSUME [DevicesNext]_devicesVars
    PROVE  /\ [Next]_vars /\ [IoNext]_ioVars /\ [SpiNext]_spiVars
           /\ [SettingsNext]_settingsVars /\ [SrcMatchNext]_matchVars /\ [GpNext]_gpVars
           /\ [PowerNext]_powerVars /\ [SecurityNext]_securityVars /\ [CoexNext]_coexVars
           /\ UNCHANGED part
<1>1. CASE DevicesNext BY <1>1 DEF DevicesNext
<1>2. CASE UNCHANGED devicesVars BY <1>2 DEF devicesVars
<1> QED BY <1>1, <1>2

\* Devices implements every part of the layer that it joins, with what the
\* scheduling gives it: no part disturbs another.
THEOREM PartsImplemented ==
    DevicesSpec =>
        /\ Spec /\ SpiSpec /\ SrcMatchSpec /\ PowerSpec /\ SecuritySpec
        /\ IoInit /\ [][IoNext]_ioVars /\ IoFairness
        /\ SettingsInit /\ [][SettingsNext]_settingsVars
        /\ GpInit /\ [][GpNext]_gpVars /\ GpFairness
        /\ CoexInit /\ [][CoexNext]_coexVars
<1>1. DevicesInit => /\ Init /\ IoInit /\ SpiInit /\ SettingsInit /\ SrcMatchInit
                     /\ GpInit /\ PowerInit /\ SecurityInit /\ CoexInit
  BY DEF DevicesInit
<1>2. [DevicesNext]_devicesVars =>
         /\ [Next]_vars /\ [IoNext]_ioVars /\ [SpiNext]_spiVars
         /\ [SettingsNext]_settingsVars /\ [SrcMatchNext]_matchVars /\ [GpNext]_gpVars
         /\ [PowerNext]_powerVars /\ [SecurityNext]_securityVars /\ [CoexNext]_coexVars
  BY PartsStep
<1>3. DevicesFairness => Fairness /\ IoFairness /\ SpiFairness /\ GpFairness
  BY DEF DevicesFairness
<1> QED
  BY <1>1, <1>2, <1>3, PTL
     DEF DevicesSpec, Spec, SpiSpec, SrcMatchSpec, PowerSpec, SecuritySpec

\* One part runs, and every variable of every part keeps its type.
THEOREM DevicesTyped == DevicesSpec => []DevicesTypeOK
<1>1. DevicesSpec => [](part \in Parts)
  <2>1. DevicesInit => part \in Parts BY DEF DevicesInit
  <2>2. part \in Parts /\ [DevicesNext]_devicesVars => (part \in Parts)'
    BY PartsStep
  <2> QED BY <2>1, <2>2, PTL DEF DevicesSpec
<1>2. SpiInv => SpiTypeOK BY DEF SpiInv
<1>3. SecurityInv => SecurityTypeOK
  <2> SUFFICES ASSUME SecurityInv PROVE SecurityTypeOK
    OBVIOUS
  <2>1. SecurityTypes /\ Len(changing) \in 0..Len(CounterFirst)
    BY DEF SecurityInv, ChangingInOrder, Steps
  <2>2. loaded \in 0..MaxCounter \cup {NotLoaded}
    BY <2>1, SecurityAssumption DEF SecurityTypes
  <2> QED BY <2>1, <2>2 DEF SecurityTypes, SecurityTypeOK
<1>4. CoexInv => CoexTypeOK BY DEF CoexInv, CoexTypes, CoexTypeOK
<1>5. /\ part \in Parts /\ TypeOK /\ IoTypeOK /\ SpiTypeOK /\ SettingsTypeOK
      /\ SrcMatchTypeOK /\ GpTypeOK /\ PowerTypeOK /\ SecurityTypeOK /\ CoexTypeOK
      => DevicesTypeOK
  BY DEF DevicesTypeOK
<1> QED
  BY <1>1, <1>2, <1>3, <1>4, <1>5, PartsImplemented, Typed, IoTypesHold, SpiInvariant,
     SettingsTyped, MatchTyped, GpTypesHold, PowerTypesHold, SecurityInvariant,
     CoexInvariant, PTL

\* What the run of the whole checks, for every value of the constants: the
\* copies of the UART stay in its ring and its bytes come in order, a
\* transaction reports the bytes taken (with the driver of spidrv_usart.c),
\* the settings keep their promises, pending children are told so, the power
\* is within every limit, the counters grow and the metrics add up.
THEOREM DevicesSafe ==
    /\ DevicesSpec => [](CopyStaysInside /\ BytesInOrder /\ SettingsKept /\ PendingIsTold)
    /\ DevicesSpec => [](PowerWithinLimits /\ CountsUpAfterChange /\ MetricsAddUp)
    /\ DevicesSpec => []GpHeldOnce
    /\ ~Eusart => (DevicesSpec => []SizeIsTaken)
<1>1. DevicesSpec => [](CopyStaysInside /\ BytesInOrder /\ SettingsKept /\ PendingIsTold)
  BY PartsImplemented, NoOverrun, BytesComeInOrder, PromisesKept, EveryChildTold, PTL
<1>2. DevicesSpec => [](PowerWithinLimits /\ CountsUpAfterChange /\ MetricsAddUp)
  BY PartsImplemented, WithinEveryLimit, CounterGrows, MetricsHold, PTL
<1>3. DevicesSpec => []GpHeldOnce
  BY PartsImplemented, GpFramesHeldOnce, PTL
<1>4. ASSUME ~Eusart PROVE DevicesSpec => []SizeIsTaken
  BY <1>4, PartsImplemented, SizeReported, PTL
<1> QED BY <1>1, <1>2, <1>3, <1>4
=============================================================================
