----------------------------- MODULE TxSecurity -----------------------------
(***************************************************************************)
(* Transmit security in radio.c, for one interface.  The main loop secures *)
(* a frame with the current key; the interrupt of a received frame secures *)
(* the enhanced ACK with the key of that frame, the previous, the current  *)
(* or the next one.  Both take the next value of one counter.  The stack   *)
(* changes keys and counter step by step.  A key is its number; a frame    *)
(* carries an identifier of it, which wraps.                               *)
(***************************************************************************)
EXTENDS Integers, Sequences

CONSTANTS
    KeyIds,      \* key identifiers are 1..KeyIds (127)
    MaxKey,      \* bound: keys the stack goes through
    MaxCounter   \* bound: values of the frame counter

ASSUME SecurityAssumption ==
    /\ KeyIds \in Nat /\ KeyIds > 2
    /\ MaxKey \in Nat \ {0}
    /\ MaxCounter \in Nat

VARIABLES
    keyId, keys, macFrameCounter,   \* of sMacKeys
    newest,       \* the key the stack has made or is making the current one
    changing,     \* what otPlatRadioSetMacKey has still to do
    loaded,       \* the counter value the main loop has read, or NotLoaded
    nextFor,      \* per key: one more than the largest counter used with it
    fell,         \* keys with which a counter was used that was not larger
    early,        \* keys used as the next one, before they were the current one
    raced         \* an interrupt came between the read and write of a counter

keyVars == <<keyId, keys, macFrameCounter>>
useVars == <<nextFor, fell, early, raced>>
securityVars == <<keyVars, newest, changing, loaded, useVars>>

\* A slot whose key PSA has not exported yet holds the reference of the key.
Reference == -1
KeyNumbers      == 0..(MaxKey + 1)
KeySlots     == {"previous", "current", "next"}
NotLoaded == -1
IdOf(key) == (key % KeyIds) + 1

SecurityInit ==
    /\ newest = 1
    /\ keyId = IdOf(1)
    /\ keys = [previous |-> 0, current |-> 1, next |-> 2]
    /\ macFrameCounter = 0
    /\ changing = <<>> /\ loaded = NotLoaded
    /\ nextFor = [k \in KeyNumbers |-> 0] /\ fell = {} /\ early = {} /\ raced = FALSE

\* A frame is secured with a key and a counter value.
Uses(key, counter) ==
    IF key = Reference THEN UNCHANGED <<nextFor, fell>>
    ELSE /\ nextFor' = [nextFor EXCEPT ![key] = IF counter < @ THEN @ ELSE counter + 1]
         /\ fell' = IF counter < nextFor[key] THEN fell \cup {key} ELSE fell

-----------------------------------------------------------------------------
(* radioProcessTransmitSecurity of a frame, in the main loop.              *)

LoadCounter ==
    /\ loaded = NotLoaded /\ changing = <<>>
    /\ macFrameCounter < MaxCounter
    /\ loaded' = macFrameCounter
    /\ UNCHANGED <<keyVars, newest, changing, useVars>>

StoreCounter ==
    /\ loaded # NotLoaded
    /\ macFrameCounter' = loaded + 1
    /\ loaded' = NotLoaded
    /\ Uses(keys.current, loaded)
    /\ UNCHANGED <<keyId, keys, newest, changing, early, raced>>

-----------------------------------------------------------------------------
(* radioProcessTransmitSecurity of an enhanced ACK, in the interrupt.      *)

\* The slots for an identifier: compared without wrapping.
SlotsFor(id) ==
    {s \in KeySlots : id = CASE s = "previous" -> keyId - 1
                          [] s = "current" -> keyId
                          [] s = "next" -> keyId + 1}

\* The sender of the frame is at most one key ahead or behind; without a slot
\* the ACK is not sent.
SecureEnhancedAck ==
    /\ macFrameCounter < MaxCounter
    /\ \E sent \in {newest - 1, newest, newest + 1} : \E slot \in SlotsFor(IdOf(sent)) :
          /\ Uses(keys[slot], macFrameCounter)
          /\ early' = IF slot = "next" THEN early \cup {keys.next} ELSE early
    /\ macFrameCounter' = macFrameCounter + 1
    /\ raced' = (raced \/ loaded # NotLoaded)
    /\ UNCHANGED <<keyId, keys, newest, changing, loaded>>

-----------------------------------------------------------------------------
(* The stack.                                                              *)

\* "MAC frame counters are reset before updating keys."  Mutation: after.
KeysFirst    == <<"keyId", "previous", "current", "next",
                  "exportPrevious", "exportCurrent", "exportNext", "counter">>
CounterFirst == <<"counter", "keyId", "previous", "current", "next",
                  "exportPrevious", "exportCurrent", "exportNext">>

SetMacKey ==
    /\ changing = <<>> /\ loaded = NotLoaded
    /\ newest < MaxKey
    /\ newest' = newest + 1
    /\ changing' = CounterFirst
    /\ UNCHANGED <<keyVars, loaded, useVars>>

Put(slot, key) == keys' = [keys EXCEPT ![slot] = key] /\ UNCHANGED <<keyId, macFrameCounter>>

SetMacKeyStep ==
    /\ changing # <<>>
    /\ changing' = Tail(changing)
    /\ CASE Head(changing) = "counter" -> macFrameCounter' = 0 /\ UNCHANGED <<keyId, keys>>
         [] Head(changing) = "keyId" -> keyId' = IdOf(newest) /\ UNCHANGED <<keys, macFrameCounter>>
         [] Head(changing) \in KeySlots -> Put(Head(changing), Reference)
         [] Head(changing) = "exportPrevious" -> Put("previous", newest - 1)
         [] Head(changing) = "exportCurrent" -> Put("current", newest)
         [] Head(changing) = "exportNext" -> Put("next", newest + 1)
    /\ UNCHANGED <<newest, loaded, useVars>>

\* otPlatRadioSetMacFrameCounter and ...IfLarger, with a value beyond those used.
SetMacFrameCounter ==
    /\ changing = <<>> /\ loaded = NotLoaded
    /\ \E c \in (macFrameCounter + 1)..MaxCounter : macFrameCounter' = c
    /\ UNCHANGED <<keyId, keys, newest, changing, loaded, useVars>>

SecurityNext ==
    \/ LoadCounter \/ StoreCounter \/ SecureEnhancedAck
    \/ SetMacKey \/ SetMacKeyStep \/ SetMacFrameCounter

SecuritySpec == SecurityInit /\ [][SecurityNext]_securityVars

-----------------------------------------------------------------------------
SecurityTypeOK ==
    /\ keyId \in 1..KeyIds
    /\ keys \in [KeySlots -> KeyNumbers \cup {Reference}]
    /\ macFrameCounter \in 0..MaxCounter
    /\ newest \in 1..MaxKey
    /\ Len(changing) \in 0..Len(CounterFirst)
    /\ loaded \in 0..MaxCounter \cup {NotLoaded}
    /\ nextFor \in [KeyNumbers -> 0..MaxCounter]
    /\ fell \subseteq KeyNumbers /\ early \subseteq KeyNumbers \cup {Reference} /\ raced \in BOOLEAN

\* What the order of the steps of otPlatRadioSetMacKey is for: no frame secured
\* with the current key has a counter that is not larger than one used
\* with that key before, or the peer would refuse it.  Two things break
\* it and are left aside: an ACK within the increment of the main loop, and
\* the key having been used for ACKs while it was the next one.
CountsUpAfterChange == raced \/ newest \in early \/ newest \notin fell
=============================================================================
