------------------------------ MODULE Settings ------------------------------
(***************************************************************************)
(* The settings of flash.c in NVM3.  A key has one object per index; every *)
(* read, write or delete of an object is atomic in NVM3, a call of the     *)
(* stack is several of them, any of them may fail, and the power may fail  *)
(* between two.  The stack gives a key no value twice, so that a key is    *)
(* the set of its values.                                                  *)
(***************************************************************************)
EXTENDS Integers, Sequences, FiniteSets

CONSTANTS
    Keys,
    Values,
    NumIndexed,    \* NUM_INDEXED_SETTINGS
    ListSize       \* ENUM_NVM3_KEY_LIST_SIZE

VARIABLES
    nvm3,          \* the value of each object, Absent if there is none
    nvmOpen,       \* hasBeenOpened
    nvmOpenedByOT,
    op,            \* the call under way
    promised,      \* what the stack may read of a key, between two calls
    unmet          \* keys whose last call succeeded without its work

nvmVars      == <<nvmOpen, nvmOpenedByOT>>
settingsVars == <<nvm3, nvmVars, op, promised, unmet>>

Indices == 0..NumIndexed
Absent  == "absent"
AllOf   == -1
Idle    == [call |-> "none"]

ASSUME SettingsAssumption ==
    /\ NumIndexed \in Nat
    /\ ListSize \in Nat \ {0}
    /\ Absent \notin Values

Stored(k)  == {i \in Indices : nvm3[<<k, i>>] # Absent}
Content(k) == {nvm3[<<k, i>>] : i \in Stored(k)}

SettingsInit ==
    /\ nvm3 = [o \in Keys \X Indices |-> Absent]
    /\ nvmOpen = FALSE /\ nvmOpenedByOT = FALSE
    /\ op = Idle
    /\ promised = [k \in Keys |-> {}]
    /\ unmet = {}

-----------------------------------------------------------------------------
(* Opening and closing; the application may open NVM3 for itself.          *)

otPlatSettingsInit ==
    /\ op = Idle
    /\ nvmOpenedByOT' = ~nvmOpen
    /\ nvmOpen' = TRUE
    /\ UNCHANGED <<nvm3, op, promised, unmet>>

otPlatSettingsDeinit ==
    /\ op = Idle /\ nvmOpenedByOT /\ nvmOpen
    /\ nvmOpen' = FALSE
    /\ nvmOpenedByOT' = FALSE
    /\ UNCHANGED <<nvm3, op, promised, unmet>>

OthersOpen ==
    /\ ~nvmOpen
    /\ nvmOpen' = TRUE
    /\ UNCHANGED <<nvm3, nvmOpenedByOT, op, promised, unmet>>

-----------------------------------------------------------------------------
(* Calls of the stack.                                                     *)

Rank(i, S) == Cardinality({j \in S : j < i})

\* nvm3_enumObjects: the first ListSize indices of k from an index on.
Enumerate(k, from) ==
    LET found == {i \in Stored(k) : i >= from}
        list  == {i \in found : Rank(i, found) < ListSize}
    IN  [n \in 1..Cardinality(list) |-> CHOOSE i \in list : Rank(i, list) = n - 1]

\* The value that otPlatSettingsGet reads as number n of k.
Nth(k, n) == nvm3[<<k, CHOOSE i \in Stored(k) : Rank(i, Stored(k)) = n>>]

\* A call, with the number it is to delete and what it is to make of the key.
Begin(call, k, value, index, want) ==
    /\ op = Idle /\ nvmOpen
    /\ op' = [call |-> call, step |-> IF call = "add" THEN "write" ELSE "enumerate",
              key |-> k, value |-> value, index |-> index, want |-> want,
              from |-> 0, list |-> <<>>, full |-> FALSE, idx |-> 0,
              failed |-> FALSE, skipped |-> FALSE]
    /\ UNCHANGED <<nvm3, nvmVars, promised, unmet>>

SettingsCall ==
    \E k \in Keys :
       \/ \E v \in Values \ Content(k) :
             \/ Begin("set", k, v, AllOf, {v})
             \/ Begin("add", k, v, AllOf, Content(k) \cup {v})
       \/ \E n \in 0..(Cardinality(Stored(k)) - 1) :
             Begin("delete", k, Absent, n, Content(k) \ {Nth(k, n)})
       \/ Begin("delete", k, Absent, AllOf, {})

Returns(now, met) ==
    /\ op' = Idle
    /\ promised' = [promised EXCEPT ![op.key] = now]
    /\ unmet' = IF met THEN unmet \ {op.key} ELSE unmet \cup {op.key}

ReturnsError == Returns(Content(op.key), TRUE)

\* An operation of NVM3 fails: what is left of the key is what it has.
Fails ==
    /\ op.call \notin {"none", "wipe"}
    /\ ReturnsError
    /\ UNCHANGED <<nvm3, nvmVars>>

\* otPlatSettingsDelete, list by list, alone and as the beginning of
\* otPlatSettingsSet.  Its error is that of the last look at an object.
Deleted(failed) ==
    IF failed THEN ReturnsError
    ELSE IF op.call = "set"
    THEN op' = [op EXCEPT !.step = "write"] /\ UNCHANGED <<promised, unmet>>
    ELSE Returns(op.want, ~op.skipped)

ListsObjects ==
    /\ op # Idle /\ op.step = "enumerate"
    /\ LET list == Enumerate(op.key, op.from) IN
       IF op.idx > NumIndexed \/ list = <<>>
       THEN Deleted(op.failed)
       ELSE /\ op' = [op EXCEPT !.list = list, !.full = (Len(list) = ListSize),
                                !.step = "objects"]
            /\ UNCHANGED <<promised, unmet>>
    /\ UNCHANGED <<nvm3, nvmVars>>

\* Where the next list begins.  Mutation: an object behind it.
SkipsOne(i) == i + 2
NextFrom(i) == i + 1

Matches == op.index = AllOf \/ op.idx = op.index
EndsSearch == \/ Matches /\ op.index # AllOf
              \/ Len(op.list) = 1 /\ ~op.full

\* One object of the list.  One that cannot be looked at stays, and the search
\* goes on.
NextObject ==
    /\ op # Idle /\ op.step = "objects"
    /\ \E failed \in IF Matches THEN BOOLEAN ELSE {FALSE} :
          LET i == Head(op.list) IN
          /\ nvm3' = IF Matches /\ ~failed THEN [nvm3 EXCEPT ![<<op.key, i>>] = Absent] ELSE nvm3
          /\ IF EndsSearch THEN Deleted(failed)
             ELSE /\ op' = [op EXCEPT !.list = Tail(@), !.idx = @ + 1, !.from = NextFrom(i),
                                      !.failed = failed, !.skipped = (@ \/ failed),
                                      !.step = IF Len(op.list) > 1 THEN @ ELSE "enumerate"]
                  /\ UNCHANGED <<promised, unmet>>
    /\ UNCHANGED nvmVars

\* addSetting: the first index without an object.  When there is none the last
\* look at an object has succeeded, and so does the call.
FirstFree == {i \in Indices \ Stored(op.key) : \A j \in 0..(i - 1) : j \in Stored(op.key)}

addSetting ==
    /\ op # Idle /\ op.step = "write"
    /\ nvm3' = [o \in Keys \X Indices |->
                   IF o[1] = op.key /\ o[2] \in FirstFree THEN op.value ELSE nvm3[o]]
    /\ Returns(op.want, FirstFree # {} /\ ~op.skipped)
    /\ UNCHANGED nvmVars

\* otPlatSettingsWipe deletes what it finds, list after list, whatever fails.
WipeBegins ==
    /\ op = Idle /\ nvmOpen
    /\ op' = [call |-> "wipe", step |-> "wipe"]
    /\ UNCHANGED <<nvm3, nvmVars, promised, unmet>>

WipesObject ==
    /\ op # Idle /\ op.step = "wipe"
    /\ \E k \in Keys : \E i \in Stored(k) : nvm3' = [nvm3 EXCEPT ![<<k, i>>] = Absent]
    /\ UNCHANGED <<nvmVars, op, promised, unmet>>

WipeEnds ==
    /\ op # Idle /\ op.step = "wipe"
    /\ \A k \in Keys : Stored(k) = {}
    /\ op' = Idle
    /\ promised' = [k \in Keys |-> {}] /\ unmet' = {}
    /\ UNCHANGED <<nvm3, nvmVars>>

\* The power fails; the restarted stack reads what is there.
PowerFails ==
    /\ nvmOpen' = FALSE /\ nvmOpenedByOT' = FALSE
    /\ op' = Idle
    /\ promised' = [k \in Keys |-> Content(k)] /\ unmet' = {}
    /\ UNCHANGED nvm3

SettingsNext ==
    \/ otPlatSettingsInit \/ otPlatSettingsDeinit \/ OthersOpen
    \/ SettingsCall \/ ListsObjects \/ NextObject \/ addSetting \/ Fails
    \/ WipeBegins \/ WipesObject \/ WipeEnds \/ PowerFails

-----------------------------------------------------------------------------
SettingsTypeOK ==
    /\ nvm3 \in [Keys \X Indices -> Values \cup {Absent}]
    /\ nvmOpen \in BOOLEAN /\ nvmOpenedByOT \in BOOLEAN
    /\ op.call \in {"none", "set", "add", "delete", "wipe"}
    /\ promised \in [Keys -> SUBSET Values]
    /\ unmet \subseteq Keys

\* What may be read of key k while a call changes it: what was there or what is
\* wanted, and, as several values are deleted one by one, anything between.
Halfway(k) ==
    \/ Content(k) \in {promised[k], op.want}
    \/ op.index = AllOf /\ op.call # "add" /\ Content(k) \subseteq promised[k]

\* At any moment the power may fail a key has the values it had or those it is
\* to have; replacing or deleting all of them may leave some of the old ones,
\* and a set that is interrupted may leave none.  No other key is touched.
\* A call that succeeded has done what it was asked, except for a value
\* added to a key with all indices used and an object that could not be
\* looked at before one that was deleted.
SettingsKept ==
    \A k \in Keys \ unmet :
       CASE op = Idle -> Content(k) = promised[k]
         [] op.call = "wipe" -> Content(k) \subseteq promised[k]
         [] OTHER -> IF k = op.key THEN Halfway(k) ELSE Content(k) = promised[k]
=============================================================================
