--------------------------- MODULE SrcMatch_proofs ---------------------------
(***************************************************************************)
(* A child with data pending is told so at every moment, for tables of any *)
(* size and any checksums.  In a build without MultiPan two addresses may  *)
(* share a checksum but not an entry: Own gives each address one.          *)
(***************************************************************************)
EXTENDS SrcMatch, TLAPS

\* The addresses that must be found.
Wanted(t) == pendingFor[t] \ lost[t]

HasSum(t, s, a) == table[t][s].allocated /\ table[t][s].checksum = Checksum(a)
Told(t) == \A a \in Wanted(t) : \E s \in Slots : HasSum(t, s, a)
Own(t) ==
    \E f \in [Wanted(t) -> Slots] :
        /\ \A a, b \in Wanted(t) : f[a] = f[b] => a = b
        /\ \A a \in Wanted(t) : HasSum(t, f[a], a)

\* The entry that is being written is not allocated.
Writing ==
    \/ write = NoWrite
    \/ /\ write.do = "allocate" /\ write.in \in Tables /\ write.slot \in Slots
       /\ ~table[write.in][write.slot].allocated
       /\ table[write.in][write.slot].checksum = Checksum(write.for)
       /\ write.for \in Addresses(write.in)
    \/ /\ write.do = "zero" /\ write.in \in Tables /\ write.slot \in Slots
       /\ ~table[write.in][write.slot].allocated

Found == \A t \in Tables : IF multiPanRcp THEN Told(t) ELSE Own(t)

Types ==
    /\ multiPanRcp \in BOOLEAN /\ panId \in PanIds
    /\ table \in [Tables -> [Slots -> [checksum : 0..(Sums - 1), allocated : BOOLEAN]]]
    /\ pendingFor \in [Tables -> SUBSET Nat] /\ lost \in [Tables -> SUBSET Nat]
    /\ \A t \in Tables : lost[t] \subseteq pendingFor[t] /\ pendingFor[t] \subseteq Addresses(t)

MatchInv == Types /\ Writing /\ Found

LEMMA Numbers ==
    /\ 0 \in 0..(Sums - 1)
    /\ \A t \in Tables : \A a \in Addresses(t) : a \in Nat
    /\ \A a \in Nat : panId \in PanIds => Checksum(a) \in 0..(Sums - 1)
<1>1. Sums \in Nat /\ Sums > 0 /\ PanIds \subseteq Nat /\ ShortAddresses \subseteq Nat
      /\ ExtAddresses \subseteq Nat
  BY SrcMatchAssumption
<1>2. \A n \in Nat : n % Sums \in 0..(Sums - 1)
  BY <1>1
<1>3. \A a \in Nat : panId \in PanIds => Checksum(a) \in 0..(Sums - 1)
  BY <1>1, <1>2 DEF Checksum
<1> QED BY <1>1, <1>3 DEF Addresses

\* The table after a write of a checksum or of the allocated flag.
LEMMA SumWritten ==
    ASSUME Types, NEW t \in Tables, NEW s \in Slots, NEW n \in 0..(Sums - 1),
           table' = [table EXCEPT ![t][s].checksum = n]
    PROVE  table' \in [Tables -> [Slots -> [checksum : 0..(Sums - 1), allocated : BOOLEAN]]]
<1>1. [table[t][s] EXCEPT !.checksum = n] \in [checksum : 0..(Sums - 1), allocated : BOOLEAN]
  BY DEF Types
<1> QED BY <1>1 DEF Types

LEMMA FlagWritten ==
    ASSUME Types, NEW t \in Tables, NEW s \in Slots, NEW b \in BOOLEAN,
           table' = [table EXCEPT ![t][s].allocated = b]
    PROVE  table' \in [Tables -> [Slots -> [checksum : 0..(Sums - 1), allocated : BOOLEAN]]]
<1>1. [table[t][s] EXCEPT !.allocated = b] \in [checksum : 0..(Sums - 1), allocated : BOOLEAN]
  BY DEF Types
<1> QED BY <1>1 DEF Types

LEMMA NoneWanted ==
    ASSUME NEW t, Wanted(t) = {}
    PROVE  Told(t) /\ Own(t)
<1>1. [a \in {} |-> 1] \in [Wanted(t) -> Slots]
  OBVIOUS
<1> QED BY <1>1 DEF Told, Own

LEMMA MatchInitInv == SrcMatchInit => MatchInv
<1> SUFFICES ASSUME SrcMatchInit PROVE MatchInv
  OBVIOUS
<1>1. Types
  BY Numbers DEF SrcMatchInit, Types, Unused
<1>2. \A t \in Tables : Wanted(t) = {}
  BY DEF SrcMatchInit, Wanted
<1> QED BY <1>1, <1>2, NoneWanted DEF SrcMatchInit, MatchInv, Writing, Found

\* Entries that are allocated stay as they are and no address is added.
LEMMA StillFound ==
    ASSUME MatchInv, NEW t \in Tables, panId' = panId, Wanted(t)' \subseteq Wanted(t),
           \A s \in Slots : table[t][s].allocated => table'[t][s] = table[t][s]
    PROVE  (Told(t) => Told(t)') /\ (Own(t) => Own(t)')
<1>1. \A s \in Slots, a \in Wanted(t)' : HasSum(t, s, a) => HasSum(t, s, a)'
  BY DEF HasSum, Checksum
<1>2. Told(t) => Told(t)'
  BY <1>1 DEF Told
<1>3. ASSUME Own(t) PROVE Own(t)'
  <2>1. PICK f \in [Wanted(t) -> Slots] :
               /\ \A a, b \in Wanted(t) : f[a] = f[b] => a = b
               /\ \A a \in Wanted(t) : HasSum(t, f[a], a)
    BY <1>3 DEF Own
  <2>2. PICK W : W = Wanted(t)'
    OBVIOUS
  <2> DEFINE g == [a \in W |-> f[a]]
  <2>3. g \in [W -> Slots]
    BY <2>2
  <2>4. /\ \A a, b \in W : g[a] = g[b] => a = b
        /\ \A a \in W : HasSum(t, g[a], a)'
    BY <1>1, <2>1, <2>2
  <2> HIDE DEF g
  <2> QED BY <2>2, <2>3, <2>4 DEF Own
<1> QED BY <1>2, <1>3

LEMMA NoneWantedNext ==
    ASSUME NEW t, Wanted(t)' = {}
    PROVE  Told(t)' /\ Own(t)'
<1>1. [a \in {} |-> 1] \in [Wanted(t)' -> Slots]
  OBVIOUS
<1> QED BY <1>1 DEF Told, Own

\* An operation on one table leaves the other one alone.
LEMMA OtherTable ==
    ASSUME MatchInv, NEW t \in Tables, NEW u \in Tables, u # t, panId' = panId,
           table'[u] = table[u], pendingFor'[u] = pendingFor[u], lost'[u] = lost[u]
    PROVE  (Told(u) => Told(u)') /\ (Own(u) => Own(u)')
<1>1. Wanted(u)' = Wanted(u)
  BY DEF Wanted
<1> QED BY <1>1, StillFound

LEMMA ClearAllInv == ASSUME MatchInv, NEW t \in Tables, ClearAll(t) PROVE MatchInv'
<1>1. Types'
  BY Numbers DEF MatchInv, Types, ClearAll, Unused
<1>2. Writing'
  BY DEF MatchInv, Writing, ClearAll
<1>3. ASSUME NEW u \in Tables PROVE IF multiPanRcp' THEN Told(u)' ELSE Own(u)'
  <2>1. CASE u = t
    <3>1. Wanted(u)' = {}
      BY <2>1 DEF Wanted, ClearAll, MatchInv, Types
    <3> QED BY <3>1, NoneWantedNext
  <2>2. CASE u # t
    <3>1. /\ table'[u] = table[u] /\ pendingFor'[u] = pendingFor[u] /\ lost'[u] = lost[u]
          /\ panId' = panId /\ multiPanRcp' = multiPanRcp
      BY <2>2 DEF ClearAll, MatchInv, Types
    <3> QED BY <2>2, <3>1, OtherTable DEF MatchInv, Found
  <2> QED BY <2>1, <2>2
<1> QED BY <1>1, <1>2, <1>3 DEF MatchInv, Found

LEMMA SetPanInv == ASSUME MatchInv, NEW pan \in PanIds, SetPanId(pan) PROVE MatchInv'
<1>1. Types'
  BY DEF MatchInv, Types, SetPanId
<1>2. Writing'
  BY DEF MatchInv, Writing, SetPanId
<1>3. \A u \in Tables : Wanted(u)' = {}
  BY DEF Wanted, SetPanId
<1> QED BY <1>1, <1>2, <1>3, NoneWantedNext DEF MatchInv, Found

LEMMA ZeroesInv == ASSUME MatchInv, ClearZeroes PROVE MatchInv'
<1>0. write # NoWrite /\ write.do = "zero"
  BY DEF ClearZeroes, NoWrite
<1>1. /\ write.in \in Tables /\ write.slot \in Slots
      /\ ~table[write.in][write.slot].allocated
      /\ table' = [table EXCEPT ![write.in][write.slot].checksum = 0]
      /\ write' = NoWrite
      /\ UNCHANGED <<multiPanRcp, panId, pendingFor, lost>>
  BY <1>0 DEF ClearZeroes, MatchInv, Writing
<1>2. Types'
  <2>1. table' \in [Tables -> [Slots -> [checksum : 0..(Sums - 1), allocated : BOOLEAN]]]
    BY <1>1, Numbers, SumWritten DEF MatchInv
  <2> QED BY <1>1, <2>1 DEF MatchInv, Types
<1>3. ASSUME NEW u \in Tables PROVE IF multiPanRcp' THEN Told(u)' ELSE Own(u)'
  <2>1. \A s \in Slots : table[u][s].allocated => table'[u][s] = table[u][s]
    BY <1>1 DEF MatchInv, Types
  <2>2. Wanted(u)' = Wanted(u)
    BY <1>1 DEF Wanted
  <2> QED BY <1>1, <2>1, <2>2, StillFound DEF MatchInv, Found
<1> QED BY <1>1, <1>2, <1>3 DEF MatchInv, Found, Writing

LEMMA WritesInv ==
    ASSUME MatchInv, NEW t \in Tables, NEW a \in Addresses(t), AddWritesSum(t, a)
    PROVE  MatchInv'
<1>1. PICK s \in Slots :
          /\ ~table[t][s].allocated
          /\ table' = [table EXCEPT ![t][s].checksum = Checksum(a)]
          /\ write' = [do |-> "allocate", in |-> t, slot |-> s, for |-> a]
  BY DEF AddWritesSum, FreeSlot
<1>2. UNCHANGED <<multiPanRcp, panId, pendingFor, lost>>
  BY DEF AddWritesSum
<1>3. Checksum(a) \in 0..(Sums - 1) /\ Checksum(a)' = Checksum(a)
  BY <1>2, Numbers DEF MatchInv, Types, Checksum
<1>4. Types'
  <2>1. table' \in [Tables -> [Slots -> [checksum : 0..(Sums - 1), allocated : BOOLEAN]]]
    BY <1>1, <1>3, SumWritten DEF MatchInv
  <2> QED BY <1>2, <2>1 DEF MatchInv, Types
<1>5. Writing'
  <2>1. /\ write'.do = "allocate" /\ write'.in = t /\ write'.slot = s /\ write'.for = a
    BY <1>1
  <2>2. ~table'[t][s].allocated /\ table'[t][s].checksum = Checksum(a)
    BY <1>1, <1>3 DEF MatchInv, Types
  <2> QED BY <1>3, <2>1, <2>2 DEF Writing
<1>6. ASSUME NEW u \in Tables PROVE IF multiPanRcp' THEN Told(u)' ELSE Own(u)'
  <2>1. \A r \in Slots : table[u][r].allocated => table'[u][r] = table[u][r]
    BY <1>1 DEF MatchInv, Types
  <2>2. Wanted(u)' = Wanted(u)
    BY <1>2 DEF Wanted
  <2> QED BY <1>2, <2>1, <2>2, StillFound DEF MatchInv, Found
<1> QED BY <1>4, <1>5, <1>6 DEF MatchInv, Found

LEMMA FindsInv ==
    ASSUME MatchInv, NEW t \in Tables, NEW a \in Addresses(t), AddFinds(t, a)
    PROVE  MatchInv'
<1>1. /\ multiPanRcp /\ FramePending(t, a)
      /\ pendingFor' = [pendingFor EXCEPT ![t] = @ \cup {a}]
      /\ lost' = [lost EXCEPT ![t] = @ \ {a}]
      /\ UNCHANGED <<multiPanRcp, panId, table, write>>
  BY DEF AddFinds, AlreadyThere
<1>2. Types'
  BY <1>1, Numbers DEF MatchInv, Types
<1>3. Writing'
  BY <1>1 DEF MatchInv, Writing, Checksum
<1>4. ASSUME NEW u \in Tables PROVE Told(u)'
  <2>1. \A s \in Slots : \A b : HasSum(u, s, b)' <=> HasSum(u, s, b)
    BY <1>1 DEF HasSum, Checksum
  <2>2. Told(u)
    BY <1>1 DEF MatchInv, Found
  <2>3. \A b \in Wanted(u)' : b \in Wanted(u) \/ (b = a /\ u = t)
    BY <1>1 DEF Wanted, MatchInv, Types
  <2>4. \E s \in Slots : HasSum(t, s, a)
    BY <1>1 DEF FramePending, Matching, HasSum
  <2> QED BY <2>1, <2>2, <2>3, <2>4 DEF Told
<1> QED BY <1>1, <1>2, <1>3, <1>4 DEF MatchInv, Found

\* The address gets the entry that was free: no other one has it.
LEMMA AllocatesInv == ASSUME MatchInv, AddAllocates PROVE MatchInv'
<1>0. write # NoWrite /\ write.do = "allocate"
  BY DEF AddAllocates, NoWrite
<1>1. PICK t \in Tables, s \in Slots :
          write.in = t /\ write.slot = s /\ write.for \in Addresses(t)
  BY <1>0 DEF MatchInv, Writing
<1>a. PICK a \in Addresses(t) : a = write.for
  BY <1>1
<1>2. /\ ~table[t][s].allocated /\ table[t][s].checksum = Checksum(a)
      /\ table' = [table EXCEPT ![t][s].allocated = TRUE]
      /\ pendingFor' = [pendingFor EXCEPT ![t] = @ \cup {a}]
      /\ lost' = [lost EXCEPT ![t] = @ \ {a}]
      /\ write' = NoWrite
      /\ UNCHANGED <<multiPanRcp, panId>>
  BY <1>0, <1>1, <1>a DEF AddAllocates, MatchInv, Writing
<1>3. Types'
  <2>1. table' \in [Tables -> [Slots -> [checksum : 0..(Sums - 1), allocated : BOOLEAN]]]
    BY <1>2, FlagWritten DEF MatchInv
  <2>2. a \in Nat
    BY <1>a, Numbers
  <2> QED BY <1>2, <1>a, <2>1, <2>2 DEF MatchInv, Types
<1>4. ASSUME NEW u \in Tables, u # t PROVE IF multiPanRcp' THEN Told(u)' ELSE Own(u)'
  <2>1. table'[u] = table[u] /\ pendingFor'[u] = pendingFor[u] /\ lost'[u] = lost[u]
    BY <1>2, <1>4 DEF MatchInv, Types
  <2> QED BY <1>2, <1>4, <2>1, OtherTable DEF MatchInv, Found
<1>s. /\ table'[t][s].allocated /\ table'[t][s].checksum = table[t][s].checksum
      /\ \A r \in Slots : r # s => table'[t][r] = table[t][r]
  BY <1>2 DEF MatchInv, Types
<1>5. /\ HasSum(t, s, a)'
      /\ \A r \in Slots : \A b : HasSum(t, r, b) => r # s /\ HasSum(t, r, b)'
  BY <1>2, <1>s DEF HasSum, Checksum
<1>6. /\ \A b \in Wanted(t)' : b \in Wanted(t) \/ b = a
      /\ Wanted(t) \subseteq Nat
  BY <1>2 DEF Wanted, MatchInv, Types
<1>7. ASSUME Told(t) PROVE Told(t)'
  <2>1. \A b \in Wanted(t)' : \E r \in Slots : HasSum(t, r, b)'
    BY <1>5, <1>6, <1>7 DEF Told
  <2> QED BY <2>1 DEF Told
<1>8. ASSUME Own(t) PROVE Own(t)'
  <2>1. PICK f \in [Wanted(t) -> Slots] :
               /\ \A b, c \in Wanted(t) : f[b] = f[c] => b = c
               /\ \A b \in Wanted(t) : HasSum(t, f[b], b)
    BY <1>8 DEF Own
  <2>2. PICK W : W = Wanted(t)'
    OBVIOUS
  <2> DEFINE g == [b \in W |-> IF b = a THEN s ELSE f[b]]
  <2>3. g \in [W -> Slots]
    BY <1>6, <2>1, <2>2
  <2>4. \A b \in W : b # a => b \in Wanted(t) /\ g[b] = f[b] /\ f[b] \in Slots
    BY <1>6, <2>1, <2>2
  <2>5. \A b \in W : b # a => g[b] # s /\ HasSum(t, g[b], b)'
    BY <1>5, <2>1, <2>4
  <2>6. a \in W => g[a] = s
    OBVIOUS
  <2>7. /\ \A b, c \in W : g[b] = g[c] => b = c
        /\ \A b \in W : HasSum(t, g[b], b)'
    <3> HIDE DEF g
    <3> QED BY <1>5, <2>1, <2>4, <2>5, <2>6
  <2> HIDE DEF g
  <2> QED BY <2>2, <2>3, <2>7 DEF Own
<1>9. IF multiPanRcp' THEN Told(t)' ELSE Own(t)'
  BY <1>2, <1>7, <1>8 DEF MatchInv, Found
<1> QED BY <1>2, <1>3, <1>4, <1>9 DEF MatchInv, Found, Writing

\* What an address that is cleared leaves of the others.
Leaves(t, a) ==
    /\ pendingFor' \in [Tables -> SUBSET Nat] /\ lost' \in [Tables -> SUBSET Nat]
    /\ \A u \in Tables : /\ lost'[u] \subseteq pendingFor'[u]
                         /\ pendingFor'[u] \subseteq Addresses(u)
                         /\ u # t => pendingFor'[u] = pendingFor[u] /\ lost'[u] = lost[u]
    /\ Wanted(t)' = (Wanted(t) \ {a}) \ SharedWith(t, a)

LEMMA ForgetsWanted ==
    ASSUME MatchInv, NEW t \in Tables, NEW a \in Addresses(t), Forgets(t, a)
    PROVE  Leaves(t, a)
<1>1. SharedWith(t, a) \subseteq pendingFor[t] \ {a}
  BY DEF SharedWith
<1>2. /\ pendingFor' = [pendingFor EXCEPT ![t] = @ \ {a}]
      /\ lost' = [lost EXCEPT ![t] = (@ \cup SharedWith(t, a)) \ {a}]
  BY DEF Forgets
<1> QED BY <1>1, <1>2 DEF MatchInv, Types, Wanted, Leaves

LEMMA FindsNoneInv ==
    ASSUME MatchInv, NEW t \in Tables, NEW a \in Addresses(t), ClearFindsNone(t, a)
    PROVE  MatchInv'
<1>1. Forgets(t, a) /\ UNCHANGED <<multiPanRcp, panId, table, write>>
  BY DEF ClearFindsNone
<1>f. Leaves(t, a)
  BY <1>1, ForgetsWanted
<1>2. Types'
  BY <1>1, <1>f DEF MatchInv, Types, Leaves
<1>3. Writing'
  BY <1>1 DEF MatchInv, Writing, Checksum
<1>4. ASSUME NEW u \in Tables PROVE IF multiPanRcp' THEN Told(u)' ELSE Own(u)'
  <2>1. Wanted(u)' \subseteq Wanted(u)
    <3>1. CASE u = t
      BY <1>f, <3>1 DEF Leaves
    <3>2. CASE u # t
      BY <1>f, <3>2 DEF Wanted, Leaves
    <3> QED BY <3>1, <3>2
  <2> QED BY <1>1, <2>1, StillFound DEF MatchInv, Found
<1> QED BY <1>2, <1>3, <1>4 DEF MatchInv, Found

\* Without MultiPan the entry freed may be that of another address with the same
\* checksum: that one is then found in the entry of the address cleared.
LEMMA FreesInv ==
    ASSUME MatchInv, NEW t \in Tables, NEW a \in Addresses(t), ClearFrees(t, a)
    PROVE  MatchInv'
<1>1. PICK s \in Matching(t, a) :
          /\ table' = [table EXCEPT ![t][s].allocated = FALSE]
          /\ write' = [do |-> "zero", in |-> t, slot |-> s]
  BY DEF ClearFrees
<1>2. Forgets(t, a) /\ a \in pendingFor[t] /\ UNCHANGED <<multiPanRcp, panId>>
  BY DEF ClearFrees
<1>3. s \in Slots /\ HasSum(t, s, a)
  BY <1>1 DEF Matching, HasSum
<1>f. Leaves(t, a)
  BY <1>2, ForgetsWanted
<1>4. Types'
  <2>1. table' \in [Tables -> [Slots -> [checksum : 0..(Sums - 1), allocated : BOOLEAN]]]
    BY <1>1, <1>3, FlagWritten DEF MatchInv
  <2> QED BY <1>2, <1>f, <2>1 DEF MatchInv, Types, Leaves
<1>5. Writing'
  <2>1. write'.do = "zero" /\ write'.in = t /\ write'.slot = s
    BY <1>1
  <2>2. ~table'[t][s].allocated
    BY <1>1, <1>3 DEF MatchInv, Types
  <2> QED BY <1>3, <2>1, <2>2 DEF Writing
<1>6. ASSUME NEW u \in Tables, u # t PROVE IF multiPanRcp' THEN Told(u)' ELSE Own(u)'
  <2>1. table'[u] = table[u] /\ pendingFor'[u] = pendingFor[u] /\ lost'[u] = lost[u]
    BY <1>1, <1>6, <1>f DEF MatchInv, Types, Leaves
  <2> QED BY <1>2, <1>6, <2>1, OtherTable DEF MatchInv, Found
<1>s. \A r \in Slots : r # s => table'[t][r] = table[t][r]
  BY <1>1, <1>3 DEF MatchInv, Types
<1>7. \A r \in Slots : \A b : HasSum(t, r, b) /\ r # s => HasSum(t, r, b)'
  BY <1>2, <1>s DEF HasSum, Checksum
<1>8. Wanted(t)' = (Wanted(t) \ {a}) \ SharedWith(t, a) /\ Wanted(t) \subseteq pendingFor[t]
  BY <1>f DEF Wanted, Leaves
<1>9. ASSUME multiPanRcp \/ a \in lost[t] PROVE IF multiPanRcp' THEN Told(t)' ELSE Own(t)'
  <2>1. \A b \in Wanted(t)' : Checksum(b) # Checksum(a) /\ b \in Wanted(t)
    BY <1>8, <1>9 DEF SharedWith
  <2>2. \A b \in Wanted(t)' : ~HasSum(t, s, b)
    BY <1>3, <2>1 DEF HasSum
  <2>3. ASSUME Told(t) PROVE Told(t)'
    <3>1. \A b \in Wanted(t)' : \E r \in Slots : HasSum(t, r, b)'
      BY <1>7, <2>1, <2>2, <2>3 DEF Told
    <3> QED BY <3>1 DEF Told
  <2>4. ASSUME Own(t) PROVE Own(t)'
    <3>1. PICK f \in [Wanted(t) -> Slots] :
                 /\ \A b, c \in Wanted(t) : f[b] = f[c] => b = c
                 /\ \A b \in Wanted(t) : HasSum(t, f[b], b)
      BY <2>4 DEF Own
    <3>2. PICK W : W = Wanted(t)'
      OBVIOUS
    <3> DEFINE g == [b \in W |-> f[b]]
    <3>3. g \in [W -> Slots]
      BY <2>1, <3>1, <3>2
    <3>4. \A b \in W : g[b] # s /\ HasSum(t, g[b], b)
      BY <2>1, <2>2, <3>1, <3>2
    <3>5. \A b, c \in W : g[b] = g[c] => b = c
      BY <2>1, <3>1, <3>2
    <3> HIDE DEF g
    <3>6. /\ \A b, c \in W : g[b] = g[c] => b = c
          /\ \A b \in W : HasSum(t, g[b], b)'
      BY <1>7, <3>3, <3>4, <3>5
    <3> QED BY <3>2, <3>3, <3>6 DEF Own
  <2> QED BY <1>2, <2>3, <2>4 DEF MatchInv, Found
<1>10. ASSUME ~multiPanRcp, a \notin lost[t] PROVE IF multiPanRcp' THEN Told(t)' ELSE Own(t)'
  <2>1. a \in Wanted(t) /\ Wanted(t)' = Wanted(t) \ {a}
    BY <1>2, <1>8, <1>10 DEF Wanted, SharedWith
  <2>2. PICK f \in [Wanted(t) -> Slots] :
               /\ \A b, c \in Wanted(t) : f[b] = f[c] => b = c
               /\ \A b \in Wanted(t) : HasSum(t, f[b], b)
    BY <1>10 DEF MatchInv, Found, Own
  <2>3. PICK W : W = Wanted(t)'
    OBVIOUS
  <2> DEFINE g == [b \in W |-> IF f[b] = s THEN f[a] ELSE f[b]]
  <2>4. g \in [W -> Slots]
    BY <2>1, <2>2, <2>3
  <2>5. \A b \in W : f[b] # f[a]
    BY <2>1, <2>2, <2>3
  <2>6. \A b \in W : g[b] # s
    BY <2>1, <2>3, <2>5
  <2>7. \A b \in W : HasSum(t, g[b], b)
    <3>1. ASSUME NEW b \in W, f[b] = s PROVE HasSum(t, f[a], b)
      <4>1. HasSum(t, s, b) /\ HasSum(t, f[a], a)
        BY <2>1, <2>2, <2>3, <3>1
      <4> QED BY <1>3, <4>1 DEF HasSum
    <3> QED BY <2>1, <2>2, <2>3, <3>1
  <2>8. \A b, c \in W : g[b] = g[c] => b = c
    BY <2>1, <2>2, <2>3, <2>5
  <2> HIDE DEF g
  <2>9. /\ \A b, c \in W : g[b] = g[c] => b = c
        /\ \A b \in W : HasSum(t, g[b], b)'
    BY <1>7, <2>4, <2>6, <2>7, <2>8
  <2>10. Own(t)'
    BY <2>3, <2>4, <2>9 DEF Own
  <2> QED BY <1>2, <1>10, <2>10
<1> QED BY <1>2, <1>4, <1>5, <1>6, <1>9, <1>10 DEF MatchInv, Found, Types

LEMMA MatchStutters == MatchInv /\ UNCHANGED matchVars => MatchInv'
<1> SUFFICES ASSUME MatchInv, UNCHANGED matchVars PROVE MatchInv'
  OBVIOUS
<1>1. UNCHANGED <<multiPanRcp, panId, table, write, pendingFor, lost>>
  BY DEF matchVars
<1>2. ASSUME NEW u \in Tables PROVE IF multiPanRcp' THEN Told(u)' ELSE Own(u)'
  <2>1. Wanted(u)' \subseteq Wanted(u)
    BY <1>1 DEF Wanted
  <2> QED BY <1>1, <2>1, StillFound DEF MatchInv, Found
<1> QED BY <1>1, <1>2 DEF MatchInv, Types, Writing, Checksum, Found

\* Every wanted address has its entry after every step of every call.
THEOREM MatchInvariant == SrcMatchSpec => []MatchInv
<1>1. MatchInv /\ [SrcMatchNext]_matchVars => MatchInv'
  <2> SUFFICES ASSUME MatchInv, [SrcMatchNext]_matchVars PROVE MatchInv'
    OBVIOUS
  <2>1. ASSUME NEW t \in Tables, NEW a \in Addresses(t),
               AddFinds(t, a) \/ AddWritesSum(t, a) \/ ClearFindsNone(t, a) \/ ClearFrees(t, a)
        PROVE  MatchInv'
    BY <2>1, FindsInv, WritesInv, FindsNoneInv, FreesInv
  <2>2. CASE AddAllocates \/ ClearZeroes
    BY <2>2, AllocatesInv, ZeroesInv
  <2>3. CASE (\E t \in Tables : ClearAll(t)) \/ (\E pan \in PanIds : SetPanId(pan))
    BY <2>3, ClearAllInv, SetPanInv
  <2>4. CASE UNCHANGED matchVars
    BY <2>4, MatchStutters
  <2> QED BY <2>1, <2>2, <2>3, <2>4 DEF SrcMatchNext
<1> QED BY MatchInitInv, <1>1, PTL DEF SrcMatchSpec

\* A child whose data the stack has announced, and that kept its entry, has the
\* frame pending bit in its ACK at every moment its data request may come, also
\* between the two writes of an entry.  Not those in `lost`: after a change of
\* the PAN identifier, or after the clearing of an address with the same
\* checksum in whose entry they were.
THEOREM EveryChildTold == SrcMatchSpec => []PendingIsTold
<1>1. MatchInv => PendingIsTold
  BY DEF MatchInv, Found, Told, Own, Wanted, HasSum, PendingIsTold, FramePending, Matching
<1> QED BY <1>1, MatchInvariant, PTL

\* The table has its type: what is written of an entry is a checksum.
THEOREM MatchTyped == SrcMatchSpec => []SrcMatchTypeOK
<1>1. MatchInv => SrcMatchTypeOK
  <2> SUFFICES ASSUME MatchInv PROVE SrcMatchTypeOK
    OBVIOUS
  <2>1. write.do \in {"none", "allocate", "zero"} BY DEF MatchInv, Writing, NoWrite
  <2> QED BY <2>1 DEF MatchInv, Types, SrcMatchTypeOK
<1> QED BY <1>1, MatchInvariant, PTL
=============================================================================
