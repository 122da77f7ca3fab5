---------------------------- MODULE PowerManager ----------------------------
(***************************************************************************)
(* The transmit power manager of radio_power_manager.c, as radio.c uses    *)
(* it.  Each host gives a default power and a limit per channel; there is  *)
(* one radio and it has one power.  The power is worked out from the       *)
(* channel the radio is on, before an operation takes it to another.       *)
(***************************************************************************)
EXTENDS Integers, FiniteSets, FiniteSetsExt

CONSTANTS
    PowerHosts,
    Channels,
    Limits,        \* limits the hosts set
    Defaults,      \* default powers the hosts set
    Strays,        \* what may be read behind the table of limits
    Invalid,       \* SL_INVALID_TX_POWER: larger than every power
    DefaultPower,  \* OPENTHREAD_CONFIG_DEFAULT_TRANSMIT_POWER
    SwitchingSlots \* SL_RAIL_IEEE802154_RX_CHANNEL_SWITCHING_NUM_CHANNELS

ASSUME PowerAssumption ==
    /\ IsFiniteSet(PowerHosts) /\ PowerHosts # {}
    /\ IsFiniteSet(Channels) /\ Channels # {} /\ Channels \subseteq Nat \ {255}
    /\ Limits \cup Defaults \cup Strays \cup {Invalid, DefaultPower} \subseteq -128..127
    /\ \A p \in Limits \cup Defaults \cup {DefaultPower} : p < Invalid
    /\ Strays # {} /\ \A p \in Strays : p <= Invalid
    /\ SwitchingSlots \in Nat /\ Cardinality(PowerHosts) <= SwitchingSlots

VARIABLES
    fastSwitching,            \* FAST_CHANNEL_SWITCHING_SUPPORT
    sli_max_channel_power,
    sli_default_tx_power,
    listensOn,                \* sChannelSwitchingCfg: the channel of each host
    radioChannel,
    railPower,                \* what RAIL was told last
    moved                     \* the radio has changed channel since

powerVars == <<fastSwitching, sli_max_channel_power, sli_default_tx_power,
               listensOn, radioChannel, railPower, moved>>

\* UNINITIALIZED_CHANNEL.
Nowhere == 255

PowerInit ==
    /\ fastSwitching \in BOOLEAN
    /\ sli_max_channel_power = [h \in PowerHosts |-> [c \in Channels |-> Invalid]]
    /\ sli_default_tx_power = [h \in PowerHosts |-> Invalid]
    /\ listensOn = [h \in PowerHosts |-> Nowhere]
    /\ radioChannel \in Channels
    /\ railPower = DefaultPower
    /\ moved = FALSE

\* sl_is_multi_channel_enabled, of the channels the hosts listen on.
ChannelsOf(listens)   == {listens[h] : h \in PowerHosts} \ {Nowhere}
MultiChannel(listens) == fastSwitching /\ Cardinality(ChannelsOf(listens)) > 1

\* The channels whose limits count.
Watched(listens, channel) ==
    IF MultiChannel(listens) THEN ChannelsOf(listens) ELSE {channel}

\* sli_get_default_and_max_powers_across_iids.  Mutation: the highest limit.
HighestLimit(limits, watched) == {Max({limits[h][c] : h \in PowerHosts, c \in watched})}
LimitsOn(limits, watched)     == {limits[h][c] : h \in PowerHosts, c \in watched}
HighestDefault(defaults) ==
    LET valid == {defaults[h] : h \in PowerHosts} \ {Invalid}
    IN  IF valid = {} THEN Invalid ELSE Max(valid)

\* The limits of a switching slot that no host listens on are looked up too,
\* with UNINITIALIZED_CHANNEL: behind the table, where anything may be.
HasUnusedSlot(listens) ==
    Cardinality({h \in PowerHosts : listens[h] # Nowhere}) < SwitchingSlots
BehindTable(listens) ==
    IF MultiChannel(listens) /\ HasUnusedSlot(listens) THEN Strays ELSE {Invalid}

\* sli_get_max_tx_power_across_iids selects the lowest of these; stray is such a value.
Candidates(limits, defaults, watched, stray) ==
    LimitsOn(limits, watched) \cup {HighestDefault(defaults), stray}

\* sl_get_tx_power_for_current_channel and sli_set_tx_power_in_rail.
SetsPower(limits, defaults, listens) ==
    \E stray \in BehindTable(listens) :
        LET candidates == Candidates(limits, defaults, Watched(listens, radioChannel), stray)
        IN  \E selected \in candidates :
               /\ \A p \in candidates : selected <= p
               /\ railPower' = IF selected = Invalid THEN DefaultPower ELSE selected

\* sli_set_channel_max_tx_power.
SetChannelMax(h, c, power) ==
    /\ sli_max_channel_power' = [sli_max_channel_power EXCEPT ![h][c] = power]
    /\ SetsPower(sli_max_channel_power', sli_default_tx_power, listensOn)
    /\ moved' = FALSE
    /\ UNCHANGED <<fastSwitching, sli_default_tx_power, listensOn, radioChannel>>

\* sli_set_default_tx_power.
SetDefault(h, power) ==
    /\ sli_default_tx_power' = [sli_default_tx_power EXCEPT ![h] = power]
    /\ SetsPower(sli_max_channel_power, sli_default_tx_power', listensOn)
    /\ moved' = FALSE
    /\ UNCHANGED <<fastSwitching, sli_max_channel_power, listensOn, radioChannel>>

\* The power, and then the channel, of an operation.
Goes(listens, channel) ==
    /\ SetsPower(sli_max_channel_power, sli_default_tx_power, listens)
    /\ radioChannel' = channel
    /\ moved' = ~(channel \in Watched(listens, radioChannel))
    /\ UNCHANGED <<fastSwitching, sli_max_channel_power, sli_default_tx_power>>

\* otPlatRadioReceive.
ReceiveOn(h, channel) ==
    /\ listensOn' = [listensOn EXCEPT ![h] = IF fastSwitching THEN channel ELSE @]
    /\ Goes(listensOn', channel)

\* otPlatRadioTransmit and otPlatRadioReceiveAt.
OperateOn(channel) ==
    /\ UNCHANGED listensOn
    /\ Goes(listensOn, channel)

PowerNext ==
    \/ \E h \in PowerHosts :
          \/ \E c \in Channels, p \in Limits : SetChannelMax(h, c, p)
          \/ \E p \in Defaults : SetDefault(h, p)
          \/ \E c \in Channels : ReceiveOn(h, c)
    \/ \E c \in Channels : OperateOn(c)

PowerSpec == PowerInit /\ [][PowerNext]_powerVars

-----------------------------------------------------------------------------
PowerTypeOK ==
    /\ fastSwitching \in BOOLEAN
    /\ sli_max_channel_power \in [PowerHosts -> [Channels -> Limits \cup {Invalid}]]
    /\ sli_default_tx_power \in [PowerHosts -> Defaults \cup {Invalid}]
    /\ listensOn \in [PowerHosts -> Channels \cup {Nowhere}]
    /\ radioChannel \in Channels
    /\ railPower \in Limits \cup Defaults \cup Strays \cup {DefaultPower}
    /\ moved \in BOOLEAN

\* The radio is never above the limit that any host has set for the channel it
\* is on, nor with fast switching for one it may switch to; only an operation
\* that takes it to a channel is done with the limits of the channel before.
PowerWithinLimits ==
    \A h \in PowerHosts : \A c \in Watched(listensOn, radioChannel) :
        ~moved /\ sli_max_channel_power[h][c] # Invalid
            => railPower <= sli_max_channel_power[h][c]
=============================================================================
