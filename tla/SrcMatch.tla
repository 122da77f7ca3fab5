------------------------------ MODULE SrcMatch ------------------------------
(***************************************************************************)
(* The source match tables of soft_source_match_table.c: which children    *)
(* have data pending.  The main loop writes them field by field and the    *)
(* interrupt of a data request looks an address up between any two writes. *)
(* An address is the sum of its 16-bit words, before it is cut to 16 bits; *)
(* so two extended addresses may have the checksum of one.                 *)
(***************************************************************************)
EXTENDS Integers, FiniteSets

CONSTANTS
    Sums,           \* a checksum is counted modulo this (2^16)
    ShortAddresses,
    ExtAddresses,
    Entries,        \* RADIO_CONFIG_SRC_MATCH_SHORT_ENTRY_NUM, and of the other table
    PanIds

ASSUME SrcMatchAssumption ==
    /\ Sums \in Nat \ {0} /\ Entries \in Nat \ {0}
    /\ ShortAddresses \subseteq 0..(Sums - 1) /\ ExtAddresses \subseteq Nat
    /\ PanIds \subseteq 0..(Sums - 1) /\ PanIds # {}

VARIABLES
    multiPanRcp,    \* the build has OPENTHREAD_CONFIG_MULTIPAN_RCP_ENABLE
    panId,          \* sPanId of the interface
    table,          \* srcMatchShortEntry and srcMatchExtEntry
    write,          \* the write the main loop has still to do
    pendingFor,     \* the addresses the stack has added and not cleared
    lost            \* of these, those without an entry of their own any more

matchVars == <<multiPanRcp, panId, table, write, pendingFor, lost>>

Tables     == {"short", "ext"}
Slots      == 1..Entries
Addresses(t) == IF t = "short" THEN ShortAddresses ELSE ExtAddresses
NoWrite    == [do |-> "none"]
Unused     == [checksum |-> 0, allocated |-> FALSE]

SrcMatchInit ==
    /\ multiPanRcp \in BOOLEAN
    /\ panId \in PanIds
    /\ table = [t \in Tables |-> [s \in Slots |-> Unused]]
    /\ write = NoWrite
    /\ pendingFor = [t \in Tables |-> {}] /\ lost = [t \in Tables |-> {}]

Checksum(a) == (a + panId) % Sums

\* utilsSoftSrcMatchShortFindEntry and ExtFindEntry; None when there is none.
\* Mutation: a slot is free when its checksum is 0.
Matching(t, a) == {s \in Slots : table[t][s].allocated /\ table[t][s].checksum = Checksum(a)}
ZeroSum(t, s)  == table[t][s].checksum = 0
FreeSlot(t, s) == ~table[t][s].allocated

\* The interrupt: the frame pending bit of the ACK.
FramePending(t, a) == Matching(t, a) # {}

-----------------------------------------------------------------------------
(* otPlatRadioAddSrcMatchShortEntry and ExtEntry.  A MultiPan build takes    *)
(* an entry with the same checksum for the entry of the address.           *)

AlreadyThere(t, a) == multiPanRcp /\ FramePending(t, a)

AddFinds(t, a) ==
    /\ write = NoWrite /\ a \notin pendingFor[t]
    /\ AlreadyThere(t, a)
    /\ pendingFor' = [pendingFor EXCEPT ![t] = @ \cup {a}]
    /\ lost' = [lost EXCEPT ![t] = @ \ {a}]
    /\ UNCHANGED <<multiPanRcp, panId, table, write>>

\* The checksum is written first; without a free slot it is OT_ERROR_NO_BUFS.
AddWritesSum(t, a) ==
    /\ write = NoWrite /\ a \notin pendingFor[t]
    /\ ~AlreadyThere(t, a)
    /\ \E s \in Slots :
          /\ FreeSlot(t, s) /\ \A r \in 1..(s - 1) : ~FreeSlot(t, r)
          /\ table' = [table EXCEPT ![t][s].checksum = Checksum(a)]
          /\ write' = [do |-> "allocate", in |-> t, slot |-> s, for |-> a]
    /\ UNCHANGED <<multiPanRcp, panId, pendingFor, lost>>

AddAllocates ==
    /\ write.do = "allocate"
    /\ table' = [table EXCEPT ![write.in][write.slot].allocated = TRUE]
    /\ pendingFor' = [pendingFor EXCEPT ![write.in] = @ \cup {write.for}]
    /\ lost' = [lost EXCEPT ![write.in] = @ \ {write.for}]
    /\ write' = NoWrite
    /\ UNCHANGED <<multiPanRcp, panId>>

-----------------------------------------------------------------------------
(* otPlatRadioClearSrcMatchShortEntry and ExtEntry.  The entry found may be  *)
(* that of another address: the only one two share in a MultiPan build, or  *)
(* the wrong one when the own is of an earlier PAN.                        *)

SharedWith(t, a) ==
    IF multiPanRcp \/ a \in lost[t]
    THEN {b \in pendingFor[t] \ {a} : Checksum(b) = Checksum(a)} ELSE {}

Forgets(t, a) ==
    /\ pendingFor' = [pendingFor EXCEPT ![t] = @ \ {a}]
    /\ lost' = [lost EXCEPT ![t] = (@ \cup SharedWith(t, a)) \ {a}]

ClearFindsNone(t, a) ==
    /\ write = NoWrite /\ a \in pendingFor[t] /\ ~FramePending(t, a)
    /\ Forgets(t, a)
    /\ UNCHANGED <<multiPanRcp, panId, table, write>>

ClearFrees(t, a) ==
    /\ write = NoWrite /\ a \in pendingFor[t] /\ FramePending(t, a)
    /\ \E s \in Matching(t, a) :
          /\ \A r \in Matching(t, a) : s <= r
          /\ table' = [table EXCEPT ![t][s].allocated = FALSE]
          /\ write' = [do |-> "zero", in |-> t, slot |-> s]
    /\ Forgets(t, a)
    /\ UNCHANGED <<multiPanRcp, panId>>

ClearZeroes ==
    /\ write.do = "zero"
    /\ table' = [table EXCEPT ![write.in][write.slot].checksum = 0]
    /\ write' = NoWrite
    /\ UNCHANGED <<multiPanRcp, panId, pendingFor, lost>>

\* otPlatRadioClearSrcMatchShortEntries and ExtEntries.
ClearAll(t) ==
    /\ write = NoWrite
    /\ table' = [table EXCEPT ![t] = [s \in Slots |-> Unused]]
    /\ pendingFor' = [pendingFor EXCEPT ![t] = {}]
    /\ lost' = [lost EXCEPT ![t] = {}]
    /\ UNCHANGED <<multiPanRcp, panId, write>>

\* utilsSoftSrcMatchSetPanId: the entries keep the checksums of the old PAN.
SetPanId(pan) ==
    /\ write = NoWrite /\ pan # panId
    /\ panId' = pan
    /\ lost' = pendingFor
    /\ UNCHANGED <<multiPanRcp, table, write, pendingFor>>

SrcMatchNext ==
    \/ \E t \in Tables : \E a \in Addresses(t) :
          \/ AddFinds(t, a) \/ AddWritesSum(t, a)
          \/ ClearFindsNone(t, a) \/ ClearFrees(t, a)
    \/ AddAllocates \/ ClearZeroes
    \/ \E t \in Tables : ClearAll(t)
    \/ \E pan \in PanIds : SetPanId(pan)

SrcMatchSpec == SrcMatchInit /\ [][SrcMatchNext]_matchVars

-----------------------------------------------------------------------------
SrcMatchTypeOK ==
    /\ multiPanRcp \in BOOLEAN
    /\ panId \in PanIds
    /\ table \in [Tables -> [Slots -> [checksum : 0..(Sums - 1), allocated : BOOLEAN]]]
    /\ write.do \in {"none", "allocate", "zero"}
    /\ \A t \in Tables : lost[t] \subseteq pendingFor[t] /\ pendingFor[t] \subseteq Addresses(t)

\* At every moment at which its data request may come, a child with data
\* pending is told so; it is not after a change of the PAN identifier or when
\* an address with the same checksum was cleared from an entry they shared.
PendingIsTold ==
    \A t \in Tables : \A a \in pendingFor[t] \ lost[t] : FramePending(t, a)
=============================================================================
