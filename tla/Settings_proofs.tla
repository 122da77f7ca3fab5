--------------------------- MODULE Settings_proofs ---------------------------
(***************************************************************************)
(* The settings keep what they promise, for any number of keys, indices    *)
(* and values and any length of the lists of nvm3_enumObjects.  A call     *)
(* goes through the objects of a key list by list: the invariant says that *)
(* nothing it should have taken is behind it, and, when it looks for the   *)
(* one value to delete, that it has counted those it passed.               *)
(***************************************************************************)
EXTENDS Settings, FiniteSetsExt, FiniteSetTheorems, SequenceTheorems, WellFoundedInduction, TLAPS

-----------------------------------------------------------------------------
(* Numbers.  The least-number principle stands for induction.              *)

LEMMA LeastNatural ==
    ASSUME NEW T \in SUBSET Nat, T # {}
    PROVE  \E m \in T : \A n \in T : m <= n
<1> DEFINE Less == {ss \in Nat \X Nat : ss[1] < ss[2]}
<1>1. IsWellFoundedOn(Less, Nat)
  BY NatLessThanWellFounded DEF OpToRel
<1>2. PICK m \in T : \A n \in T : ~ (<<n, m>> \in Less)
  <2> HIDE DEF Less
  <2> QED BY <1>1, WFMin
<1>3. ASSUME NEW n \in T PROVE m <= n
  <2>1. m \in Nat /\ n \in Nat OBVIOUS
  <2>2. n < m => <<n, m>> \in Less BY <2>1
  <2> QED BY <1>2, <2>1, <2>2
<1> QED BY <1>3

\* What Max returns for a set of integers with an upper bound.
LEMMA LargestOfBounded ==
    ASSUME NEW S \in SUBSET Int, S # {}, NEW b \in Int, \A n \in S : n <= b
    PROVE  Max(S) \in S /\ \A n \in S : n <= Max(S)
<1> DEFINE T == {b - n : n \in S}
<1>1. \A n \in S : b - n \in Nat OBVIOUS
<1>2. T \in SUBSET Nat BY <1>1
<1>3. T # {} OBVIOUS
<1>4. PICK m \in T : \A n \in T : m <= n
  <2> HIDE DEF T
  <2> QED BY <1>2, <1>3, LeastNatural
<1>5. PICK x \in S : m = b - x OBVIOUS
<1>6. ASSUME NEW n \in S PROVE x >= n
  <2>1. b - n \in T OBVIOUS
  <2> QED BY <1>4, <1>5, <2>1
<1>7. Max(S) \in S /\ \A n \in S : Max(S) >= n BY <1>6 DEF Max
<1> QED BY <1>7

-----------------------------------------------------------------------------
(* The settings.  The rank of an index among the stored ones.              *)

LEMMA RankType ==
    ASSUME NEW S \in SUBSET Indices, NEW i \in Int
    PROVE  /\ IsFiniteSet(S) /\ Cardinality(S) \in Nat /\ Cardinality(S) <= NumIndexed + 1
           /\ Rank(i, S) \in Nat /\ Rank(i, S) <= Cardinality(S)
<1>1. NumIndexed \in Nat BY SettingsAssumption
<1>2. IsFiniteSet(Indices) /\ Cardinality(Indices) = NumIndexed + 1
  BY <1>1, FS_Interval DEF Indices
<1>3. IsFiniteSet(S) /\ Cardinality(S) <= NumIndexed + 1 BY <1>2, FS_Subset
<1>4. Cardinality(S) \in Nat BY <1>3, FS_CardinalityType
<1>5. {j \in S : j < i} \in SUBSET S OBVIOUS
<1>6. IsFiniteSet({j \in S : j < i}) /\ Cardinality({j \in S : j < i}) <= Cardinality(S)
  BY <1>3, <1>5, FS_Subset
<1>7. Cardinality({j \in S : j < i}) \in Nat BY <1>6, FS_CardinalityType
<1> QED BY <1>1, <1>3, <1>4, <1>6, <1>7 DEF Rank

\* The rank grows behind every element, and nowhere else.
LEMMA RankGrows ==
    ASSUME NEW S \in SUBSET Indices, NEW i \in Int, NEW j \in Int, i < j,
           \A l \in S : l < j => l <= i
    PROVE  Rank(j, S) = Rank(i, S) + (IF i \in S THEN 1 ELSE 0)
<1> DEFINE below == {l \in S : l < i}
<1>1. IsFiniteSet(S) BY RankType
<1>2. below \in SUBSET S /\ i \notin below OBVIOUS
<1>3. IsFiniteSet(below) BY <1>1, <1>2, FS_Subset
<1>4. S \subseteq Int BY SettingsAssumption DEF Indices
<1>5. Cardinality(below) \in Nat BY <1>3, FS_CardinalityType
<1>6. CASE i \in S
  <2>1. {l \in S : l < j} = below \cup {i}
    <3>1. ASSUME NEW l \in S PROVE l < j <=> l < i \/ l = i BY <1>4
    <3> QED BY <1>6, <3>1
  <2>2. Cardinality(below \cup {i}) = Cardinality(below) + 1
    BY <1>2, <1>3, FS_AddElement
  <2> QED BY <1>6, <2>1, <2>2 DEF Rank
<1>7. CASE i \notin S
  <2>1. {l \in S : l < j} = below
    <3>1. ASSUME NEW l \in S PROVE l < j <=> l < i BY <1>4, <1>7
    <3> QED BY <3>1
  <2> QED BY <1>5, <1>7, <2>1 DEF Rank
<1> QED BY <1>6, <1>7

LEMMA RankMonotone ==
    ASSUME NEW S \in SUBSET Indices, NEW i \in Int, NEW j \in Int
    PROVE  /\ i <= j => Rank(i, S) <= Rank(j, S)
           /\ i \in S /\ i < j => Rank(i, S) < Rank(j, S)
<1> DEFINE lower == {l \in S : l < i}
           upper == {l \in S : l < j}
<1>1. IsFiniteSet(S) BY RankType
<1>2. S \subseteq Int BY SettingsAssumption DEF Indices
<1>3. upper \in SUBSET S OBVIOUS
<1>4. IsFiniteSet(upper) BY <1>1, <1>3, FS_Subset
<1>5. Rank(i, S) = Cardinality(lower) /\ Rank(j, S) = Cardinality(upper) BY DEF Rank
<1>6. Rank(i, S) \in Nat /\ Rank(j, S) \in Nat BY RankType
<1>7. ASSUME i <= j
      PROVE  Cardinality(lower) <= Cardinality(upper)
             /\ (Cardinality(lower) = Cardinality(upper) => lower = upper)
  <2>1. lower \in SUBSET upper
    <3>1. ASSUME NEW l \in S, l < i PROVE l < j BY <1>2, <1>7, <3>1
    <3> QED BY <3>1
  <2> HIDE DEF lower, upper
  <2> QED BY <1>4, <2>1, FS_Subset
<1>8. ASSUME i \in S, i < j PROVE lower # upper BY <1>8
<1> HIDE DEF lower, upper
<1>9. ASSUME i \in S, i < j PROVE Rank(i, S) < Rank(j, S)
  BY <1>5, <1>6, <1>7, <1>8, <1>9
<1> QED BY <1>5, <1>7, <1>9

LEMMA RankExists ==
    ASSUME NEW S \in SUBSET Indices, NEW n \in 0..(Cardinality(S) - 1)
    PROVE  \E i \in S : Rank(i, S) = n
<1> DEFINE T == {i \in S : Rank(i, S) >= n}
<1>1. NumIndexed \in Nat /\ S \subseteq Int /\ S \subseteq Nat
  BY SettingsAssumption DEF Indices
<1>2. IsFiniteSet(S) /\ Cardinality(S) \in Nat BY <1>1, RankType
<1>3. S # {} BY <1>2, FS_EmptySet
<1>4. \A i \in Int : Rank(i, S) \in Int BY RankType
<1>5. T # {}
  <2>1. \A l \in S : l <= NumIndexed BY <1>1 DEF Indices
  <2>2. Max(S) \in S /\ \A l \in S : l <= Max(S)
    <3>1. S \in SUBSET Int /\ NumIndexed \in Int BY <1>1
    <3> QED BY <1>3, <2>1, <3>1, LargestOfBounded
  <2> DEFINE top == Max(S)
  <2>3. top \in S /\ \A l \in S : l <= top BY <2>2
  <2> HIDE DEF top
  <2>4. top \in Int BY <1>1, <2>3
  <2>5. {l \in S : l < top + 1} = S
    <3>1. ASSUME NEW l \in S PROVE l < top + 1 BY <1>1, <2>3, <2>4
    <3> QED BY <3>1
  <2>6. Rank(top + 1, S) = Cardinality(S) BY <2>5 DEF Rank
  <2>7. \A l \in S : l < top + 1 => l <= top BY <2>3
  <2>8. Rank(top + 1, S) = Rank(top, S) + 1 BY <2>3, <2>4, <2>7, RankGrows
  <2>9. Rank(top, S) >= n BY <1>2, <1>4, <2>4, <2>6, <2>8
  <2> QED BY <2>3, <2>9
<1>6. T \in SUBSET Nat BY <1>1
<1>7. PICK i \in T : \A l \in T : i <= l
  <2> HIDE DEF T
  <2> QED BY <1>5, <1>6, LeastNatural
<1>8. i \in S /\ i \in Int /\ Rank(i, S) >= n BY <1>1, <1>7
<1>9. CASE Rank(i, S) = n BY <1>8, <1>9
<1>10. CASE Rank(i, S) # n
  <2> DEFINE below == {l \in S : l < i}
  <2>1. Rank(i, S) > n /\ Rank(i, S) > 0 BY <1>4, <1>8, <1>10
  <2>2. below # {}
    <3>1. Rank(i, S) = Cardinality(below) BY DEF Rank
    <3> HIDE DEF below
    <3> QED BY <2>1, <3>1, FS_EmptySet
  <2>3. below \in SUBSET Int /\ \A l \in below : l <= i
    <3>1. ASSUME NEW l \in S, l < i PROVE l \in Int /\ l <= i BY <1>1, <1>8, <3>1
    <3> QED BY <3>1
  <2>4. Max(below) \in below /\ \A l \in below : l <= Max(below)
    <3> HIDE DEF below
    <3> QED BY <1>8, <2>2, <2>3, LargestOfBounded
  <2> DEFINE j == Max(below)
  <2>5. j \in below /\ \A l \in below : l <= j BY <2>4
  <2> HIDE DEF j
  <2>6. j \in S /\ j \in Int /\ j < i BY <1>1, <2>5
  <2>7. \A l \in S : l < i => l <= j BY <2>5
  <2>8. Rank(i, S) = Rank(j, S) + 1 BY <1>8, <2>6, <2>7, RankGrows
  <2>9. Rank(j, S) >= n BY <1>4, <1>8, <2>1, <2>6, <2>8
  <2>10. j \in T BY <2>6, <2>9
  <2> QED BY <1>7, <1>8, <2>6, <2>10
<1> QED BY <1>9, <1>10

LEMMA RankBounds ==
    ASSUME NEW S \in SUBSET Indices, NEW i \in S
    PROVE  Rank(i, S) \in 0..(Cardinality(S) - 1)
<1>1. i \in Int /\ S \subseteq Int BY SettingsAssumption DEF Indices
<1>2. IsFiniteSet(S) /\ Cardinality(S) \in Nat /\ Rank(i, S) \in Nat
      /\ Rank(i, S) <= Cardinality(S)
  BY <1>1, RankType
<1> DEFINE lower == {l \in S : l < i}
<1>3. lower \in SUBSET S /\ i \notin lower BY <1>1
<1>4. Rank(i, S) = Cardinality(lower) BY DEF Rank
<1>5. Rank(i, S) # Cardinality(S)
  <2> HIDE DEF lower
  <2> QED BY <1>2, <1>3, <1>4, FS_Subset
<1> QED BY <1>2, <1>5

LEMMA RankUnique ==
    ASSUME NEW S \in SUBSET Indices, NEW i \in S, NEW j \in S, Rank(i, S) = Rank(j, S)
    PROVE  i = j
<1>1. i \in Int /\ j \in Int BY SettingsAssumption DEF Indices
<1>2. Rank(i, S) \in Nat /\ Rank(j, S) \in Nat BY <1>1, RankType
<1>3. i < j => Rank(i, S) < Rank(j, S) BY <1>1, RankMonotone
<1>4. j < i => Rank(j, S) < Rank(i, S) BY <1>1, RankMonotone
<1> QED BY <1>1, <1>2, <1>3, <1>4

\* A list that nvm3_enumObjects fills has ListSize entries.
LEMMA FullList ==
    ASSUME NEW S \in SUBSET Indices, NEW x \in S, Rank(x, S) >= ListSize
    PROVE  LET list == {i \in S : Rank(i, S) < ListSize}
           IN  Cardinality(list) = ListSize /\ \A i \in list : i < x
<1> DEFINE list == {i \in S : Rank(i, S) < ListSize}
<1>1. ListSize \in Nat /\ S \subseteq Int BY SettingsAssumption DEF Indices
<1>2. \A i \in S : Rank(i, S) \in Nat BY <1>1, RankType
<1>3. Rank(x, S) \in 0..(Cardinality(S) - 1) BY RankBounds
<1>4. Cardinality(S) \in Nat BY <1>1, RankType
<1>5. ListSize \in 0..(Cardinality(S) - 1) BY <1>1, <1>2, <1>3, <1>4
<1>6. PICK y \in S : Rank(y, S) = ListSize BY <1>5, RankExists
<1>7. ASSUME NEW i \in S PROVE Rank(i, S) < ListSize <=> i < y
  <2>1. i \in Int /\ y \in Int /\ Rank(i, S) \in Nat BY <1>1, <1>2
  <2>2. i < y => Rank(i, S) < Rank(y, S) BY <2>1, RankMonotone
  <2>3. y <= i => Rank(y, S) <= Rank(i, S) BY <2>1, RankMonotone
  <2> QED BY <1>1, <1>6, <2>1, <2>2, <2>3
<1>8. list = {i \in S : i < y} BY <1>7
<1>9. Cardinality(list) = ListSize BY <1>6, <1>8 DEF Rank
<1>10. ASSUME NEW i \in list PROVE i < x
  <2>1. i \in S /\ i \in Int /\ x \in Int /\ Rank(i, S) < ListSize
        /\ Rank(i, S) \in Nat /\ Rank(x, S) \in Nat
    BY <1>1, <1>2
  <2>2. x <= i => Rank(x, S) <= Rank(i, S) BY <2>1, RankMonotone
  <2> QED BY <1>1, <2>1, <2>2
<1> QED BY <1>9, <1>10

\* What nvm3_enumObjects returns: indices that are stored, from the given one
\* on and in order, and all of them unless the list is full.
LEMMA EnumerateLists ==
    ASSUME NEW k \in Keys, NEW from \in Nat
    PROVE  LET e == Enumerate(k, from)
           IN  /\ e \in Seq(Indices)
               /\ \A m, n \in 1..Len(e) : m < n => e[m] < e[n]
               /\ \A n \in 1..Len(e) : e[n] \in Stored(k) /\ e[n] >= from
               /\ \A j \in Stored(k) : j >= from =>
                     \/ \E n \in 1..Len(e) : e[n] = j
                     \/ Len(e) = ListSize /\ \A n \in 1..Len(e) : e[n] < j
<1> DEFINE found == {i \in Stored(k) : i >= from}
           list  == {i \in found : Rank(i, found) < ListSize}
           e     == Enumerate(k, from)
<1>1. found \in SUBSET Indices /\ list \in SUBSET Indices BY DEF Stored
<1>2. list \subseteq found /\ Indices \subseteq Int /\ ListSize \in Nat
  BY SettingsAssumption DEF Indices
<1>3. e = [n \in 1..Cardinality(list) |-> CHOOSE i \in list : Rank(i, list) = n - 1]
  BY DEF Enumerate
<1>4. \A x \in found : Rank(x, found) >= ListSize =>
         Cardinality(list) = ListSize /\ \A i \in list : i < x
  <2> HIDE DEF found
  <2> QED BY <1>1, FullList
<1>5. \A x \in found : Rank(x, found) \in Nat
  <2> HIDE DEF found
  <2> QED BY <1>1, <1>2, RankType
<1>6. ASSUME NEW x \in found, x \notin list
      PROVE  Cardinality(list) = ListSize /\ \A i \in list : i < x
  <2>1. Rank(x, found) >= ListSize BY <1>2, <1>5, <1>6
  <2> QED BY <1>4, <2>1
<1>7. \A x \in list : x \in Stored(k) /\ x >= from OBVIOUS
<1>8. \A j \in Stored(k) : j >= from => j \in found OBVIOUS
<1> HIDE DEF list, found, e
<1>9. Cardinality(list) \in Nat BY <1>1, <1>2, RankType, SettingsAssumption DEF Indices
<1> DEFINE size == Cardinality(list)
<1>10. ASSUME NEW n \in 1..size PROVE e[n] \in list /\ Rank(e[n], list) = n - 1
  <2>1. n - 1 \in 0..(size - 1) BY <1>9
  <2>2. \E i \in list : Rank(i, list) = n - 1 BY <1>1, <2>1, RankExists
  <2>3. e[n] = CHOOSE i \in list : Rank(i, list) = n - 1 BY <1>3
  <2> QED BY <2>2, <2>3
<1>11. e \in [1..size -> Indices]
  <2>1. DOMAIN e = 1..size BY <1>3
  <2> QED BY <1>1, <1>3, <1>10, <2>1
<1>12. e \in Seq(Indices) /\ Len(e) = size BY <1>9, <1>11, LenProperties, SeqDef
<1>13. ASSUME NEW m \in 1..size, NEW n \in 1..size, m < n PROVE e[m] < e[n]
  <2>1. e[m] \in Int /\ e[n] \in Int BY <1>1, <1>2, <1>10
  <2>2. Rank(e[m], list) = m - 1 /\ Rank(e[n], list) = n - 1 BY <1>10
  <2>3. e[n] <= e[m] => Rank(e[n], list) <= Rank(e[m], list) BY <1>1, <2>1, RankMonotone
  <2>4. m \in Int /\ n \in Int /\ ~(n - 1 <= m - 1) BY <1>9, <1>13
  <2> QED BY <2>1, <2>2, <2>3, <2>4
<1>14. ASSUME NEW j \in list PROVE \E n \in 1..size : e[n] = j
  <2> DEFINE n == Rank(j, list) + 1
  <2>1. Rank(j, list) \in 0..(size - 1) BY <1>1, RankBounds
  <2>2. n \in 1..size /\ n - 1 = Rank(j, list) BY <1>9, <2>1
  <2> HIDE DEF n
  <2>3. e[n] \in list /\ Rank(e[n], list) = Rank(j, list) BY <1>10, <2>2
  <2>4. e[n] = j BY <1>1, <2>3, RankUnique
  <2> QED BY <2>2, <2>4
<1>15. \A j \in Stored(k) : j >= from =>
          \/ \E n \in 1..size : e[n] = j
          \/ size = ListSize /\ \A n \in 1..size : e[n] < j
  BY <1>6, <1>8, <1>10, <1>14
<1>16. \A n \in 1..size : e[n] \in Stored(k) /\ e[n] >= from BY <1>7, <1>10
<1> HIDE DEF size
<1> USE DEF e
<1> QED BY <1>12, <1>13, <1>15, <1>16

-----------------------------------------------------------------------------
(* The settings.  What a call under way has still to do.                   *)

CallKinds == {"set", "add", "delete"}
KeyCalls == [call : CallKinds, step : {"enumerate", "objects", "write"}, key : Keys,
          value : Values \cup {Absent}, index : Indices \cup {AllOf}, want : SUBSET Values,
          from : Nat, list : Seq(Indices), full : BOOLEAN, idx : Nat,
          failed : BOOLEAN, skipped : BOOLEAN]
Wipe == [call |-> "wipe", step |-> "wipe"]

SettingsTypes ==
    /\ nvm3 \in [Keys \X Indices -> Values \cup {Absent}]
    /\ nvmOpen \in BOOLEAN /\ nvmOpenedByOT \in BOOLEAN
    /\ op \in KeyCalls \cup {Idle, Wipe}
    /\ promised \in [Keys -> SUBSET Values]
    /\ unmet \subseteq Keys

NoValueTwice ==
    \A k \in Keys : \A i, j \in Stored(k) : nvm3[<<k, i>>] = nvm3[<<k, j>>] => i = j

\* Between its steps a call has only taken values away, and one that adds or
\* that deletes a single value has changed nothing.
KeyKept(k) ==
    IF op = Idle THEN Content(k) = promised[k]
    ELSE IF op = Wipe THEN Content(k) \subseteq promised[k]
    ELSE IF k = op.key /\ op.index = AllOf /\ op.call # "add"
         THEN Content(k) \subseteq promised[k] ELSE Content(k) = promised[k]
AsPromised == \A k \in Keys \ unmet : KeyKept(k)

Adding ==
    op.call = "add" =>
        /\ op.step = "write" /\ op.index = AllOf /\ ~op.skipped
        /\ op.value \in Values \ Content(op.key) /\ op.want = Content(op.key) \cup {op.value}

\* A set writes when it has deleted all the others.
Setting ==
    op.call = "set" =>
        /\ op.index = AllOf /\ op.value \in Values \ Content(op.key) /\ op.want = {op.value}
        /\ op.step = "write" /\ ~op.skipped => Stored(op.key) = {}
Deleting == op.call = "delete" => op.step # "write" /\ (op.index = AllOf => op.want = {})

Below(k, i) == {j \in Stored(k) : j < i}

\* The delete of one value counts the ones it has passed.
DeletingOne ==
    op \in KeyCalls /\ op.index # AllOf =>
        /\ op.call = "delete" /\ ~op.failed /\ ~op.skipped
        /\ op.index \in 0..(Cardinality(Stored(op.key)) - 1)
        /\ op.want = Content(op.key) \ {Nth(op.key, op.index)}
        /\ op.idx <= op.index /\ op.idx = Rank(op.from, Stored(op.key))

\* The search has left nothing behind it.
Searching ==
    op \in KeyCalls /\ op.call # "add" /\ op.step # "write" =>
        /\ op.idx <= op.from
        /\ op.index = AllOf /\ ~op.skipped => Below(op.key, op.from) = {}

\* The list holds what is stored from here on, up to its end if it was full.
Listed ==
    op \in KeyCalls /\ op.step = "objects" =>
        /\ op.list # <<>>
        /\ \A m, n \in 1..Len(op.list) : m < n => op.list[m] < op.list[n]
        /\ \A n \in 1..Len(op.list) : op.list[n] \in Stored(op.key) /\ op.list[n] >= op.from
        /\ \A j \in Stored(op.key) : j >= op.from =>
              \/ \E n \in 1..Len(op.list) : op.list[n] = j
              \/ op.full /\ \A n \in 1..Len(op.list) : op.list[n] < j

CallInv == Adding /\ Setting /\ Deleting /\ DeletingOne /\ Searching /\ Listed
SettingsInv == SettingsTypes /\ NoValueTwice /\ AsPromised /\ CallInv

LEMMA Fields ==
    ASSUME NEW o \in KeyCalls
    PROVE  /\ o.call \in CallKinds /\ o.step \in {"enumerate", "objects", "write"}
           /\ o.key \in Keys /\ o.value \in Values \cup {Absent}
           /\ o.index \in Indices \cup {AllOf} /\ o.want \in SUBSET Values
           /\ o.from \in Nat /\ o.list \in Seq(Indices) /\ o.full \in BOOLEAN
           /\ o.idx \in Nat /\ o.failed \in BOOLEAN /\ o.skipped \in BOOLEAN
           /\ o # Idle /\ o # Wipe
<1>1. o.call \in CallKinds BY DEF KeyCalls
<1>2. Idle.call = "none" /\ Wipe.call = "wipe" BY DEF Idle, Wipe
<1>3. o # Idle /\ o # Wipe BY <1>1, <1>2 DEF CallKinds
<1> QED BY <1>3 DEF KeyCalls

LEMMA Kinds ==
    ASSUME op \in KeyCalls \cup {Idle, Wipe}
    PROVE  /\ op = Idle => op.call = "none" /\ op \notin KeyCalls /\ op # Wipe
           /\ op = Wipe => op.call = "wipe" /\ op.step = "wipe" /\ op \notin KeyCalls /\ op # Idle
           /\ op # Idle /\ op.step \in {"enumerate", "objects", "write"} => op \in KeyCalls
           /\ op.call \in CallKinds => op \in KeyCalls
           /\ op # Idle /\ op.step = "wipe" => op = Wipe
<1>1. Idle.call = "none" /\ Wipe.call = "wipe" /\ Wipe.step = "wipe" BY DEF Idle, Wipe
<1>2. op \in KeyCalls => op.call \in CallKinds /\ op.step \in {"enumerate", "objects", "write"}
      /\ op # Idle /\ op # Wipe
  BY Fields
<1> QED BY <1>1, <1>2 DEF CallKinds

LEMMA Contents ==
    ASSUME SettingsTypes, NEW k \in Keys
    PROVE  /\ \A i \in Indices : nvm3[<<k, i>>] \in Values \cup {Absent}
           /\ Stored(k) \in SUBSET Indices /\ Content(k) \in SUBSET Values
<1>1. \A i \in Indices : nvm3[<<k, i>>] \in Values \cup {Absent} BY DEF SettingsTypes
<1> QED BY <1>1 DEF Stored, Content

LEMMA SettingsInitInv == SettingsInit => SettingsInv
<1> SUFFICES ASSUME SettingsInit PROVE SettingsInv
  OBVIOUS
<1>1. /\ nvm3 = [o \in Keys \X Indices |-> Absent] /\ op = Idle
      /\ promised = [k \in Keys |-> {}] /\ unmet = {}
      /\ nvmOpen = FALSE /\ nvmOpenedByOT = FALSE
  BY DEF SettingsInit
<1>2. SettingsTypes BY <1>1 DEF SettingsTypes
<1>3. \A k \in Keys : Stored(k) = {} /\ Content(k) = {} BY <1>1 DEF Stored, Content
<1>4. op.call = "none" /\ op \notin KeyCalls BY <1>1, Kinds
<1>5. NoValueTwice BY <1>3 DEF NoValueTwice
<1>6. AsPromised BY <1>1, <1>3 DEF AsPromised, KeyKept
<1>7. CallInv
  BY <1>4 DEF CallInv, Adding, Setting, Deleting, DeletingOne, Searching, Listed
<1> QED BY <1>2, <1>5, <1>6, <1>7 DEF SettingsInv

\* Between two calls there is nothing but the promises to keep.
LEMMA IdleAfter ==
    ASSUME SettingsTypes', NoValueTwice', op' = Idle,
           \A k \in Keys \ unmet' : Content(k)' = promised'[k]
    PROVE  SettingsInv'
<1>1. op'.call = "none" BY DEF Idle
<1>2. op' \notin KeyCalls BY Fields
<1>3. AsPromised' BY DEF AsPromised, KeyKept, Idle
<1>4. CallInv'
  BY <1>1, <1>2 DEF CallInv, Adding, Setting, Deleting, DeletingOne, Searching, Listed, KeyCalls,
     CallKinds, Idle, Indices, AllOf, Absent
<1> QED BY <1>3, <1>4 DEF SettingsInv

\* A call that changes no object.
LEMMA SameObjects ==
    ASSUME nvm3' = nvm3
    PROVE  /\ \A k \in Keys : Stored(k)' = Stored(k) /\ Content(k)' = Content(k)
           /\ NoValueTwice => NoValueTwice'
<1>1. \A k \in Keys : Stored(k)' = Stored(k) /\ Content(k)' = Content(k)
  BY DEF Stored, Content
<1> QED BY <1>1 DEF NoValueTwice

\* One object less.
LEMMA OneLess ==
    ASSUME SettingsTypes, NoValueTwice, NEW k \in Keys, NEW i \in Stored(k),
           nvm3' = [nvm3 EXCEPT ![<<k, i>>] = Absent]
    PROVE  /\ nvm3' \in [Keys \X Indices -> Values \cup {Absent}]
           /\ NoValueTwice'
           /\ Stored(k)' = Stored(k) \ {i}
           /\ Content(k)' = Content(k) \ {nvm3[<<k, i>>]}
           /\ \A l \in Keys : l # k => Stored(l)' = Stored(l) /\ Content(l)' = Content(l)
<1>1. i \in Indices /\ nvm3[<<k, i>>] # Absent BY DEF Stored
<1>2. nvm3 \in [Keys \X Indices -> Values \cup {Absent}] BY DEF SettingsTypes
<1>3. nvm3' \in [Keys \X Indices -> Values \cup {Absent}] BY <1>1, <1>2
<1>4. ASSUME NEW l \in Keys, NEW j \in Indices
      PROVE  nvm3'[<<l, j>>] = IF l = k /\ j = i THEN Absent ELSE nvm3[<<l, j>>]
  BY <1>1, <1>2
<1>5. Stored(k)' = Stored(k) \ {i} BY <1>4 DEF Stored
<1>6. \A l \in Keys : l # k => Stored(l)' = Stored(l) BY <1>4 DEF Stored
<1>7. \A j \in Stored(k) : nvm3[<<k, j>>] = nvm3[<<k, i>>] => j = i BY DEF NoValueTwice
<1>8. \A l \in Keys : Stored(l) \subseteq Indices BY DEF Stored
<1>9. Content(k)' = Content(k) \ {nvm3[<<k, i>>]}
  <2>1. \A j \in Stored(k) \ {i} :
           nvm3'[<<k, j>>] = nvm3[<<k, j>>] /\ nvm3[<<k, j>>] # nvm3[<<k, i>>]
    BY <1>4, <1>7, <1>8
  <2>2. Content(k)' = {nvm3'[<<k, j>>] : j \in Stored(k) \ {i}} BY <1>5 DEF Content
  <2>3. Content(k)' = {nvm3[<<k, j>>] : j \in Stored(k) \ {i}} BY <2>1, <2>2
  <2> QED BY <2>1, <2>3 DEF Content
<1>10. \A l \in Keys : l # k => Content(l)' = Content(l)
  BY <1>4, <1>6, <1>8 DEF Content
<1>11. ASSUME NEW l \in Keys, NEW a \in Stored(l)', NEW b \in Stored(l)',
              nvm3'[<<l, a>>] = nvm3'[<<l, b>>]
       PROVE  a = b
  <2>1. a \in Stored(l) /\ b \in Stored(l) BY <1>5, <1>6, <1>11
  <2>2. nvm3'[<<l, a>>] = nvm3[<<l, a>>] /\ nvm3'[<<l, b>>] = nvm3[<<l, b>>]
    BY <1>4, <1>5, <1>8, <1>11, <2>1
  <2> QED BY <1>11, <2>1, <2>2 DEF NoValueTwice
<1>12. NoValueTwice' BY <1>11 DEF NoValueTwice
<1> QED BY <1>3, <1>5, <1>6, <1>9, <1>10, <1>12

\* A call returns: the others' values are as they were, and this key has what
\* is promised of it unless the call did not do its work.
LEMMA ReturnsKeeps ==
    ASSUME SettingsInv, op \in KeyCalls, NEW key \in Keys, key = op.key, NEW now \in SUBSET Values, NEW met \in BOOLEAN,
           Returns(now, met), UNCHANGED nvmVars,
           nvm3' \in [Keys \X Indices -> Values \cup {Absent}], NoValueTwice',
           \A l \in Keys : l # key => Content(l)' = Content(l),
           met => Content(key)' = now
    PROVE  SettingsInv'
<1>1. SettingsTypes /\ AsPromised BY DEF SettingsInv
<1>2. op.key \in Keys /\ op # Idle /\ op # Wipe BY Fields
<1>3. /\ op' = Idle /\ promised' = [promised EXCEPT ![op.key] = now]
      /\ unmet' = IF met THEN unmet \ {op.key} ELSE unmet \cup {op.key}
      /\ nvmOpen' = nvmOpen /\ nvmOpenedByOT' = nvmOpenedByOT
  BY DEF Returns, nvmVars
<1>4. SettingsTypes' BY <1>1, <1>2, <1>3 DEF SettingsTypes
<1>5. ASSUME NEW l \in Keys, l \notin unmet'
      PROVE  Content(l)' = promised'[l]
  <2>1. CASE l = key
    <3>1. met BY <1>3, <1>5, <2>1
    <3>2. promised'[l] = now BY <1>1, <1>2, <1>3, <2>1 DEF SettingsTypes
    <3>3. Content(key)' = now BY <3>1
    <3> QED BY <2>1, <3>2, <3>3
  <2>2. CASE l # key
    <3>1. l \notin unmet BY <1>3, <1>5, <2>2
    <3>2. Content(l) = promised[l] BY <1>1, <1>2, <2>2, <3>1 DEF AsPromised, KeyKept
    <3>3. promised'[l] = promised[l] BY <1>1, <1>3, <2>2 DEF SettingsTypes
    <3> QED BY <2>2, <3>2, <3>3
  <2> QED BY <2>1, <2>2
<1> QED BY <1>3, <1>4, <1>5, IdleAfter

LEMMA FailsKeeps == ASSUME SettingsInv, Fails PROVE SettingsInv'
<1>1. SettingsTypes /\ NoValueTwice BY DEF SettingsInv
<1>2. /\ op.call \notin {"none", "wipe"} /\ Returns(Content(op.key), TRUE)
      /\ nvm3' = nvm3 /\ UNCHANGED nvmVars
  BY DEF Fails, ReturnsError
<1>3. op \in KeyCalls BY <1>1, <1>2, Kinds DEF SettingsTypes
<1>4. PICK key \in Keys : key = op.key BY <1>3, Fields
<1>5. Content(key) \in SUBSET Values BY <1>1, Contents
<1>6. nvm3' \in [Keys \X Indices -> Values \cup {Absent}] BY <1>1, <1>2 DEF SettingsTypes
<1>7. NoValueTwice' /\ \A l \in Keys : Content(l)' = Content(l)
  BY <1>1, <1>2, SameObjects
<1>8. Returns(Content(key), TRUE) BY <1>2, <1>4
<1> HIDE DEF Content
<1> QED BY <1>2, <1>3, <1>4, <1>5, <1>6, <1>7, <1>8, ReturnsKeeps

LEMMA NothingMoved ==
    ASSUME SettingsInv, SettingsTypes', nvm3' = nvm3, op' = op, promised' = promised,
           unmet' = unmet
    PROVE  SettingsInv'
<1>1. NoValueTwice /\ AsPromised /\ Adding /\ Setting /\ Deleting /\ DeletingOne /\ Searching
      /\ Listed
  BY DEF SettingsInv, CallInv
<1>2. NoValueTwice' BY <1>1, SameObjects
<1>3. AsPromised' BY <1>1 DEF AsPromised, KeyKept, Content, Stored
<1>4. Adding' BY <1>1 DEF Adding, Content, Stored
<1>5. Setting' BY <1>1 DEF Setting, Content, Stored
<1>6. Deleting' BY <1>1 DEF Deleting
<1>7. DeletingOne' BY <1>1 DEF DeletingOne, Content, Stored, Nth
<1>8. Searching' BY <1>1 DEF Searching, Below, Stored
<1>9. Listed' BY <1>1 DEF Listed, Stored
<1> QED BY <1>2, <1>3, <1>4, <1>5, <1>6, <1>7, <1>8, <1>9 DEF SettingsInv, CallInv

LEMMA OpeningKeeps ==
    ASSUME SettingsInv, \/ otPlatSettingsInit \/ otPlatSettingsDeinit \/ OthersOpen
                        \/ UNCHANGED settingsVars
    PROVE  SettingsInv'
<1>1. SettingsTypes BY DEF SettingsInv
<1>2. nvm3' = nvm3 /\ op' = op /\ promised' = promised /\ unmet' = unmet
  BY DEF otPlatSettingsInit, otPlatSettingsDeinit, OthersOpen, settingsVars
<1>3. nvmOpen' \in BOOLEAN
  BY <1>1 DEF otPlatSettingsInit, otPlatSettingsDeinit, OthersOpen, settingsVars, nvmVars,
     SettingsTypes
<1>4. nvmOpenedByOT' \in BOOLEAN
  BY <1>1 DEF otPlatSettingsInit, otPlatSettingsDeinit, OthersOpen, settingsVars, nvmVars,
     SettingsTypes
<1>5. SettingsTypes' BY <1>1, <1>2, <1>3, <1>4 DEF SettingsTypes
<1> QED BY <1>2, <1>5, NothingMoved

LEMMA WipeKeeps ==
    ASSUME SettingsInv, WipeBegins \/ WipesObject \/ WipeEnds PROVE SettingsInv'
<1>1. SettingsTypes /\ NoValueTwice /\ AsPromised BY DEF SettingsInv
<1>2. op \in KeyCalls \cup {Idle, Wipe} BY <1>1 DEF SettingsTypes
<1>3. ASSUME op' = Wipe, SettingsTypes', NoValueTwice',
             \A k \in Keys \ unmet' : Content(k)' \subseteq promised'[k]
      PROVE  SettingsInv'
  <2>1. op' # Idle /\ op'.call = "wipe" /\ op' \notin KeyCalls
    <3>1. Wipe.call = "wipe" /\ Idle.call = "none" BY DEF Wipe, Idle
    <3>2. Wipe \notin KeyCalls BY Fields
    <3> QED BY <1>3, <3>1, <3>2
  <2>2. AsPromised' BY <1>3, <2>1 DEF AsPromised, KeyKept, Wipe, Idle
  <2>3. CallInv'
    BY <2>1 DEF CallInv, Adding, Setting, Deleting, DeletingOne, Searching, Listed, KeyCalls,
       CallKinds, Indices, AllOf, Absent
  <2> QED BY <1>3, <2>2, <2>3 DEF SettingsInv
<1>4. CASE WipeBegins
  <2>1. /\ op = Idle /\ op' = Wipe /\ nvm3' = nvm3 /\ promised' = promised /\ unmet' = unmet
        /\ nvmOpen' = nvmOpen /\ nvmOpenedByOT' = nvmOpenedByOT
    BY <1>4 DEF WipeBegins, Wipe, nvmVars
  <2>2. SettingsTypes' BY <1>1, <2>1 DEF SettingsTypes
  <2>3. NoValueTwice' /\ \A k \in Keys : Content(k)' = Content(k) BY <1>1, <2>1, SameObjects
  <2>4. \A k \in Keys \ unmet : Content(k) = promised[k]
    BY <1>1, <2>1 DEF AsPromised, KeyKept
  <2> QED BY <1>3, <2>1, <2>2, <2>3, <2>4
<1>5. CASE WipesObject
  <2>1. /\ op # Idle /\ op.step = "wipe" /\ op' = op /\ promised' = promised /\ unmet' = unmet
        /\ nvmOpen' = nvmOpen /\ nvmOpenedByOT' = nvmOpenedByOT
    BY <1>5 DEF WipesObject, nvmVars
  <2>2. op = Wipe /\ op' = Wipe BY <1>2, <2>1, Kinds
  <2>3. PICK k \in Keys : \E i \in Stored(k) : nvm3' = [nvm3 EXCEPT ![<<k, i>>] = Absent]
    BY <1>5 DEF WipesObject
  <2>4. PICK i \in Stored(k) : nvm3' = [nvm3 EXCEPT ![<<k, i>>] = Absent] BY <2>3
  <2>5. /\ nvm3' \in [Keys \X Indices -> Values \cup {Absent}] /\ NoValueTwice'
        /\ Content(k)' = Content(k) \ {nvm3[<<k, i>>]}
        /\ \A l \in Keys : l # k => Content(l)' = Content(l)
    BY <1>1, <2>4, OneLess
  <2>6. SettingsTypes' BY <1>1, <2>1, <2>5 DEF SettingsTypes
  <2>7. \A l \in Keys \ unmet : Content(l) \subseteq promised[l]
    BY <1>1, <2>2 DEF AsPromised, KeyKept
  <2>8. \A l \in Keys : Content(l)' \subseteq Content(l) BY <2>5
  <2> QED BY <1>3, <2>1, <2>2, <2>5, <2>6, <2>7, <2>8
<1>6. CASE WipeEnds
  <2>1. /\ op' = Idle /\ nvm3' = nvm3 /\ nvmOpen' = nvmOpen /\ nvmOpenedByOT' = nvmOpenedByOT
        /\ promised' = [k \in Keys |-> {}] /\ unmet' = {} /\ \A k \in Keys : Stored(k) = {}
    BY <1>6 DEF WipeEnds, nvmVars
  <2>2. SettingsTypes' BY <1>1, <2>1 DEF SettingsTypes
  <2>3. NoValueTwice' /\ \A k \in Keys : Content(k)' = Content(k) BY <1>1, <2>1, SameObjects
  <2>4. \A k \in Keys : Content(k) = {} BY <2>1 DEF Content
  <2> QED BY <2>1, <2>2, <2>3, <2>4, IdleAfter
<1> QED BY <1>4, <1>5, <1>6

LEMMA PowerFailsKeeps == ASSUME SettingsInv, PowerFails PROVE SettingsInv'
<1>1. SettingsTypes /\ NoValueTwice BY DEF SettingsInv
<1>2. /\ op' = Idle /\ nvm3' = nvm3 /\ nvmOpen' = FALSE /\ nvmOpenedByOT' = FALSE
      /\ promised' = [k \in Keys |-> Content(k)] /\ unmet' = {}
  BY DEF PowerFails
<1>3. \A k \in Keys : Content(k) \in SUBSET Values BY <1>1, Contents
<1>4. NoValueTwice' /\ \A k \in Keys : Content(k)' = Content(k) BY <1>1, <1>2, SameObjects
<1> HIDE DEF Content
<1>5. SettingsTypes' BY <1>1, <1>2, <1>3 DEF SettingsTypes
<1> QED BY <1>2, <1>4, <1>5, IdleAfter

\* What the stack asks for when it calls.
Asked(call, k, value, index, want) ==
    /\ call # "delete" => index = AllOf /\ value \in Values \ Content(k)
    /\ call = "add" => want = Content(k) \cup {value}
    /\ call = "set" => want = {value}
    /\ index = AllOf /\ call = "delete" => want = {}
    /\ index # AllOf => /\ index \in 0..(Cardinality(Stored(k)) - 1)
                        /\ want = Content(k) \ {Nth(k, index)}

LEMMA BeginCallKeeps ==
    ASSUME SettingsInv, NEW call \in CallKinds, NEW k \in Keys,
           NEW value \in Values \cup {Absent}, NEW index \in Indices \cup {AllOf},
           NEW want \in SUBSET Values, Asked(call, k, value, index, want),
           Begin(call, k, value, index, want)
    PROVE  SettingsInv'
<1>1. SettingsTypes /\ NoValueTwice /\ AsPromised BY DEF SettingsInv
<1>2. /\ op = Idle /\ nvm3' = nvm3 /\ nvmOpen' = nvmOpen /\ nvmOpenedByOT' = nvmOpenedByOT
      /\ promised' = promised /\ unmet' = unmet
      /\ op' = [call |-> call, step |-> IF call = "add" THEN "write" ELSE "enumerate",
                key |-> k, value |-> value, index |-> index, want |-> want,
                from |-> 0, list |-> <<>>, full |-> FALSE, idx |-> 0,
                failed |-> FALSE, skipped |-> FALSE]
  BY DEF Begin, nvmVars
<1>3. /\ op'.call = call /\ op'.step = (IF call = "add" THEN "write" ELSE "enumerate")
      /\ op'.key = k /\ op'.value = value /\ op'.index = index /\ op'.want = want
      /\ op'.from = 0 /\ op'.idx = 0 /\ ~op'.failed /\ ~op'.skipped
  BY <1>2
<1>4. op' \in KeyCalls
  <2>1. <<>> \in Seq(Indices) OBVIOUS
  <2> QED BY <1>2, <2>1 DEF KeyCalls
<1>5. op' # Idle /\ op' # Wipe BY <1>4, Fields
<1>6. NoValueTwice' /\ \A l \in Keys : Content(l)' = Content(l) BY <1>1, <1>2, SameObjects
<1>7. SettingsTypes' BY <1>1, <1>2, <1>4 DEF SettingsTypes
<1>8. \A l \in Keys \ unmet : Content(l) = promised[l] BY <1>1, <1>2 DEF AsPromised, KeyKept
<1>9. AsPromised'
  <2> SUFFICES ASSUME NEW l \in Keys \ unmet' PROVE KeyKept(l)' BY DEF AsPromised
  <2>1. Content(l)' = promised'[l] BY <1>2, <1>6, <1>8
  <2> QED BY <1>5, <2>1 DEF KeyKept, Wipe, Idle
<1>10. Adding'
  BY <1>2, <1>3 DEF Adding, Asked, Content, Stored
<1>11. Setting'
  BY <1>2, <1>3 DEF Setting, Asked, Content, Stored
<1>12. Deleting' BY <1>3 DEF Deleting, Asked
<1>13. \A j \in Stored(k) : ~(j < 0) BY SettingsAssumption DEF Stored, Indices
<1>14. Below(k, 0) = {} BY <1>13 DEF Below
<1>15. Rank(0, Stored(k)) = 0
  <2>1. {j \in Stored(k) : j < 0} = {} BY <1>13
  <2> QED BY <2>1, FS_EmptySet DEF Rank
<1>16. DeletingOne'
  <2>1. CASE index = AllOf BY <1>3, <2>1 DEF DeletingOne, AllOf
  <2>2. CASE index # AllOf
    <3>1. /\ call = "delete" /\ index \in 0..(Cardinality(Stored(k)) - 1)
          /\ want = Content(k) \ {Nth(k, index)} /\ 0 <= index
      BY <2>2 DEF Asked, CallKinds
    <3>2. Stored(op.key)' = Stored(k) /\ Content(op.key)' = Content(k)
      BY <1>2, <1>3 DEF Stored, Content
    <3>3. Nth(op.key, op.index)' = Nth(k, index) BY <1>2, <1>3 DEF Nth, Stored
    <3>4. Rank(op.from, Stored(op.key))' = 0 BY <1>2, <1>3, <1>15 DEF Rank, Stored
    <3> QED BY <1>3, <3>1, <3>2, <3>3, <3>4 DEF DeletingOne
  <2> QED BY <2>1, <2>2
<1>17. Searching' BY <1>2, <1>3, <1>14 DEF Searching, Below, Stored
<1>18. Listed' BY <1>3 DEF Listed
<1> QED
  BY <1>6, <1>7, <1>9, <1>10, <1>11, <1>12, <1>16, <1>17, <1>18 DEF SettingsInv, CallInv

LEMMA CallKeeps == ASSUME SettingsInv, SettingsCall PROVE SettingsInv'
<1>1. SettingsTypes BY DEF SettingsInv
<1>2. PICK k \in Keys :
         \/ \E v \in Values \ Content(k) :
               \/ Begin("set", k, v, AllOf, {v})
               \/ Begin("add", k, v, AllOf, Content(k) \cup {v})
         \/ \E n \in 0..(Cardinality(Stored(k)) - 1) :
               Begin("delete", k, Absent, n, Content(k) \ {Nth(k, n)})
         \/ Begin("delete", k, Absent, AllOf, {})
  BY DEF SettingsCall
<1>3. Content(k) \in SUBSET Values /\ Stored(k) \in SUBSET Indices BY <1>1, Contents
<1>4. ASSUME NEW v \in Values \ Content(k), Begin("set", k, v, AllOf, {v}) PROVE SettingsInv'
  <2>1. Asked("set", k, v, AllOf, {v}) BY DEF Asked
  <2> QED BY <1>4, <2>1, BeginCallKeeps DEF CallKinds
<1>5. ASSUME NEW v \in Values \ Content(k), Begin("add", k, v, AllOf, Content(k) \cup {v})
      PROVE  SettingsInv'
  <2>1. Asked("add", k, v, AllOf, Content(k) \cup {v}) BY DEF Asked
  <2>2. Content(k) \cup {v} \in SUBSET Values BY <1>3
  <2> QED BY <1>5, <2>1, <2>2, BeginCallKeeps DEF CallKinds
<1>6. ASSUME NEW n \in 0..(Cardinality(Stored(k)) - 1),
             Begin("delete", k, Absent, n, Content(k) \ {Nth(k, n)})
      PROVE  SettingsInv'
  <2>1. n \in Indices /\ n # AllOf
    <3>1. Cardinality(Stored(k)) \in Nat /\ Cardinality(Stored(k)) <= NumIndexed + 1
      BY <1>3, RankType
    <3> QED BY <3>1, SettingsAssumption DEF Indices, AllOf
  <2>2. Asked("delete", k, Absent, n, Content(k) \ {Nth(k, n)}) BY <2>1 DEF Asked
  <2>3. Content(k) \ {Nth(k, n)} \in SUBSET Values BY <1>3
  <2> QED BY <1>6, <2>1, <2>2, <2>3, BeginCallKeeps DEF CallKinds
<1>7. CASE Begin("delete", k, Absent, AllOf, {})
  <2>1. Asked("delete", k, Absent, AllOf, {}) BY DEF Asked
  <2> QED BY <1>7, <2>1, BeginCallKeeps DEF CallKinds
<1> QED BY <1>2, <1>4, <1>5, <1>6, <1>7

\* A free index takes the value: no other object has it.
LEMMA AddKeeps == ASSUME SettingsInv, addSetting PROVE SettingsInv'
<1>1. SettingsTypes /\ NoValueTwice /\ Adding /\ Setting /\ Deleting
  BY DEF SettingsInv, CallInv
<1>2. op # Idle /\ op.step = "write" /\ UNCHANGED nvmVars BY DEF addSetting
<1>3. op \in KeyCalls BY <1>1, <1>2, Kinds DEF SettingsTypes
<1>4. PICK key \in Keys : key = op.key BY <1>3, Fields
<1>5. PICK value \in Values \ Content(key) : value = op.value
  <2>1. op.call \in {"set", "add"} BY <1>1, <1>2, <1>3, Fields DEF Deleting, CallKinds
  <2>2. op.value \in Values \ Content(op.key) BY <1>1, <2>1 DEF Adding, Setting
  <2> QED BY <1>4, <2>2
<1> DEFINE free == {i \in Indices \ Stored(key) : \A j \in 0..(i - 1) : j \in Stored(key)}
<1>6. FirstFree = free BY <1>4 DEF FirstFree
<1>7. /\ nvm3' = [o \in Keys \X Indices |->
                     IF o[1] = key /\ o[2] \in free THEN value ELSE nvm3[o]]
      /\ Returns(op.want, free # {} /\ ~op.skipped)
  BY <1>4, <1>5, <1>6 DEF addSetting
<1>8. ASSUME NEW l \in Keys, NEW i \in Indices
      PROVE  nvm3'[<<l, i>>] = IF l = key /\ i \in free THEN value ELSE nvm3[<<l, i>>]
  BY <1>7
<1>9. nvm3 \in [Keys \X Indices -> Values \cup {Absent}] BY <1>1 DEF SettingsTypes
<1>10. nvm3' \in [Keys \X Indices -> Values \cup {Absent}] BY <1>7, <1>9
<1>11. value # Absent BY SettingsAssumption
<1>12. \A l \in Keys : l # key => Stored(l)' = Stored(l) /\ Content(l)' = Content(l)
  BY <1>8 DEF Stored, Content
<1>13. Stored(key)' = Stored(key) \cup free BY <1>8, <1>11 DEF Stored
<1>14. ASSUME NEW i \in free, NEW j \in free PROVE i = j
  <2>1. i \in Nat /\ j \in Nat BY SettingsAssumption DEF Indices
  <2>2. i < j => i \in 0..(j - 1) BY <2>1
  <2>3. j < i => j \in 0..(i - 1) BY <2>1
  <2> QED BY <2>1, <2>2, <2>3
<1>15. free \in SUBSET Indices /\ free \cap Stored(key) = {} /\ Stored(key) \subseteq Indices
  BY DEF Stored
<1> HIDE DEF free
<1>16. \A i \in Stored(key) : nvm3'[<<key, i>>] = nvm3[<<key, i>>] BY <1>8, <1>15
<1>17. \A i \in free : nvm3'[<<key, i>>] = value BY <1>8, <1>15
<1>18. ASSUME free # {} PROVE Content(key)' = Content(key) \cup {value}
  <2>1. Content(key)' = {nvm3'[<<key, i>>] : i \in Stored(key) \cup free} BY <1>13 DEF Content
  <2> QED BY <1>16, <1>17, <1>18, <2>1 DEF Content
<1>19. \A i \in Stored(key) : nvm3[<<key, i>>] # value BY DEF Content
<1>20. NoValueTwice'
  <2> SUFFICES ASSUME NEW l \in Keys, NEW i \in Stored(l)', NEW j \in Stored(l)',
                      nvm3'[<<l, i>>] = nvm3'[<<l, j>>]
               PROVE  i = j
    BY DEF NoValueTwice
  <2>1. CASE l # key
    <3>1. i \in Stored(l) /\ j \in Stored(l) BY <1>12, <2>1
    <3>2. nvm3[<<l, i>>] = nvm3[<<l, j>>]
      <4>1. i \in Indices /\ j \in Indices BY <3>1 DEF Stored
      <4> QED BY <1>8, <2>1, <4>1
    <3> QED BY <1>1, <3>1, <3>2 DEF NoValueTwice
  <2>2. CASE l = key
    <3>1. i \in Stored(key) \cup free /\ j \in Stored(key) \cup free BY <1>13, <2>2
    <3>2. CASE i \in free /\ j \in free BY <1>14, <3>2
    <3>3. CASE i \in Stored(key) /\ j \in Stored(key)
      BY <1>1, <1>16, <2>2, <3>3 DEF NoValueTwice
    <3>4. CASE i \in Stored(key) /\ j \in free BY <1>16, <1>17, <1>19, <2>2, <3>4
    <3>5. CASE i \in free /\ j \in Stored(key) BY <1>16, <1>17, <1>19, <2>2, <3>5
    <3> QED BY <3>1, <3>2, <3>3, <3>4, <3>5
  <2> QED BY <2>1, <2>2
<1>21. ASSUME free # {}, ~op.skipped PROVE Content(key)' = op.want
  <2>1. CASE op.call = "add" BY <1>1, <1>4, <1>5, <1>18, <1>21, <2>1 DEF Adding
  <2>2. CASE op.call = "set"
    <3>1. op.want = {value} /\ Stored(key) = {} BY <1>1, <1>2, <1>4, <1>5, <1>21, <2>2 DEF Setting
    <3>2. Content(key) = {} BY <3>1 DEF Content
    <3> QED BY <1>18, <1>21, <3>1, <3>2
  <2> QED BY <1>1, <1>2, <1>3, <2>1, <2>2, Fields DEF Deleting, CallKinds
<1>22. op.want \in SUBSET Values BY <1>3, Fields
<1>23. (free # {} /\ ~op.skipped) \in BOOLEAN OBVIOUS
<1> QED
  BY <1>2, <1>3, <1>4, <1>7, <1>10, <1>12, <1>20, <1>21, <1>22, <1>23, ReturnsKeeps

\* The end of a delete, alone or as the beginning of a set.
LEMMA DeletedKeeps ==
    ASSUME SettingsInv, op \in KeyCalls, NEW key \in Keys, key = op.key, op.step # "write",
           NEW failed \in BOOLEAN, Deleted(failed), UNCHANGED nvmVars,
           nvm3' \in [Keys \X Indices -> Values \cup {Absent}], NoValueTwice',
           \A l \in Keys : l # key => Content(l)' = Content(l),
           failed => nvm3' = nvm3,
           Content(key)' \subseteq Content(key),
           ~failed /\ ~op.skipped /\ op.index = AllOf => Stored(key)' = {},
           ~failed /\ op.index # AllOf => Content(key)' = op.want
    PROVE  SettingsInv'
<1>1. SettingsTypes /\ AsPromised /\ Adding /\ Setting /\ Deleting /\ DeletingOne
  BY DEF SettingsInv, CallInv
<1>2. op # Idle /\ op # Wipe /\ op.want \in SUBSET Values /\ op.skipped \in BOOLEAN
      /\ op.call \in {"set", "delete"}
  BY <1>1, Fields DEF Adding, CallKinds
<1>3. Content(key) \in SUBSET Values BY <1>1, Contents
<1>4. CASE failed
  <2>1. Returns(Content(key), TRUE) BY <1>4 DEF Deleted, ReturnsError
  <2>2. Content(key)' = Content(key) BY <1>4, SameObjects
  <2> HIDE DEF Content
  <2> QED BY <1>3, <2>1, <2>2, ReturnsKeeps
<1>5. CASE ~failed /\ op.call = "set"
  <2>1. op' = [op EXCEPT !.step = "write"] /\ promised' = promised /\ unmet' = unmet
    BY <1>5 DEF Deleted
  <2>2. op' \in KeyCalls BY <2>1 DEF KeyCalls
  <2>3. /\ op'.call = "set" /\ op'.step = "write" /\ op'.key = key /\ op'.value = op.value
        /\ op'.index = op.index /\ op'.want = op.want /\ op'.skipped = op.skipped
    BY <1>5, <2>1 DEF KeyCalls
  <2>4. op' # Idle /\ op' # Wipe BY <2>2, Fields
  <2>5. /\ op.index = AllOf /\ op.value \in Values \ Content(key) /\ op.want = {op.value}
    BY <1>1, <1>5 DEF Setting
  <2>6. SettingsTypes' BY <1>1, <2>1, <2>2 DEF SettingsTypes, nvmVars
  <2>7. AsPromised'
    <3> SUFFICES ASSUME NEW l \in Keys \ unmet PROVE KeyKept(l)'
      BY <2>1 DEF AsPromised
    <3>1. KeyKept(l) BY <1>1 DEF AsPromised
    <3>2. CASE l = key
      <4>1. Content(l) \subseteq promised[l]
        BY <1>2, <1>5, <2>5, <3>1, <3>2 DEF KeyKept
      <4>2. Content(l)' \subseteq promised'[l] BY <2>1, <3>2, <4>1
      <4>3. l = op'.key /\ op'.index = AllOf /\ op'.call # "add" BY <2>3, <2>5, <3>2
      <4> QED BY <2>4, <4>2, <4>3 DEF KeyKept, Wipe, Idle, AllOf
    <3>3. CASE l # key
      <4>1. Content(l) = promised[l] BY <1>2, <3>1, <3>3 DEF KeyKept
      <4>2. Content(l)' = promised'[l] BY <2>1, <3>3, <4>1
      <4> QED BY <2>4, <4>2 DEF KeyKept, Wipe, Idle
    <3> QED BY <3>2, <3>3
  <2>8. Setting'
    <3>1. Stored(op.key)' = Stored(key)' /\ Content(op.key)' = Content(key)'
      BY <2>3 DEF Stored, Content
    <3>2. op'.value \notin Content(key)' BY <2>3, <2>5
    <3>3. ~op.skipped => Stored(key)' = {} BY <1>5, <2>5
    <3> QED BY <2>3, <2>5, <3>1, <3>2, <3>3 DEF Setting, AllOf
  <2>9. CallInv'
    BY <2>3, <2>5, <2>8 DEF CallInv, Adding, Deleting, DeletingOne, Searching, Listed, AllOf
  <2> QED BY <2>6, <2>7, <2>9 DEF SettingsInv
<1>6. CASE ~failed /\ op.call = "delete"
  <2>1. Returns(op.want, ~op.skipped) BY <1>6 DEF Deleted
  <2>2. ASSUME ~op.skipped PROVE Content(key)' = op.want
    <3>1. CASE op.index = AllOf
      <4>1. op.want = {} /\ Stored(key)' = {} BY <1>1, <1>6, <2>2, <3>1 DEF Deleting
      <4>2. Content(key)' = {nvm3'[<<key, i>>] : i \in Stored(key)'} BY DEF Content
      <4> QED BY <4>1, <4>2
    <3>2. CASE op.index # AllOf BY <1>6, <3>2
    <3> QED BY <3>1, <3>2
  <2>3. (~op.skipped) \in BOOLEAN OBVIOUS
  <2> QED BY <1>2, <2>1, <2>2, <2>3, ReturnsKeeps
<1> QED BY <1>2, <1>4, <1>5, <1>6

\* No object of the key is left where the search goes on.
LEMMA NothingFurther ==
    ASSUME SettingsInv, op \in KeyCalls, op.step = "enumerate", NEW key \in Keys, key = op.key,
           op.idx > NumIndexed \/ Enumerate(key, op.from) = <<>>
    PROVE  op.index = AllOf /\ (~op.skipped => Stored(key) = {})
<1>1. SettingsTypes /\ Adding /\ DeletingOne /\ Searching BY DEF SettingsInv, CallInv
<1>2. op.call \in CallKinds /\ op.from \in Nat /\ op.idx \in Nat /\ NumIndexed \in Nat
      /\ ListSize \in Nat \ {0}
  BY Fields, SettingsAssumption
<1>3. op.idx <= op.from /\ (op.index = AllOf /\ ~op.skipped => Below(key, op.from) = {})
  BY <1>1, <1>2 DEF Adding, Searching
<1>4. Stored(key) \in SUBSET Indices /\ Indices \subseteq Int
  BY SettingsAssumption DEF Stored, Indices
<1>5. ASSUME NEW j \in Stored(key) PROVE j < op.from
  <2>1. j \in Int /\ j <= NumIndexed BY <1>2, <1>4 DEF Indices
  <2>2. CASE op.idx > NumIndexed BY <1>2, <1>3, <2>1, <2>2
  <2>3. CASE Enumerate(key, op.from) = <<>>
    <3> DEFINE e == Enumerate(key, op.from)
    <3>1. j >= op.from => \/ \E n \in 1..Len(e) : e[n] = j
                          \/ Len(e) = ListSize /\ \A n \in 1..Len(e) : e[n] < j
      BY <1>2, EnumerateLists
    <3>2. Len(e) = 0 BY <2>3
    <3> HIDE DEF e
    <3>3. ~(j >= op.from) BY <1>2, <3>1, <3>2
    <3> QED BY <1>2, <2>1, <3>3
  <2> QED BY <2>2, <2>3
<1>6. op.index = AllOf
  <2> SUFFICES ASSUME op.index # AllOf PROVE FALSE
    OBVIOUS
  <2>1. /\ op.index \in 0..(Cardinality(Stored(key)) - 1) /\ op.idx <= op.index
        /\ op.idx = Rank(op.from, Stored(key))
    BY <1>1 DEF DeletingOne
  <2>2. {j \in Stored(key) : j < op.from} = Stored(key) BY <1>5
  <2>3. Rank(op.from, Stored(key)) = Cardinality(Stored(key)) BY <2>2 DEF Rank
  <2>4. Cardinality(Stored(key)) \in Nat BY <1>4, RankType, <1>2
  <2> QED BY <1>2, <2>1, <2>3, <2>4
<1>7. ASSUME ~op.skipped PROVE Stored(key) = {}
  BY <1>3, <1>5, <1>6, <1>7 DEF Below
<1> QED BY <1>6, <1>7

LEMMA ListsKeeps == ASSUME SettingsInv, ListsObjects PROVE SettingsInv'
<1>1. SettingsTypes /\ NoValueTwice /\ AsPromised /\ Adding /\ Setting /\ Deleting /\ DeletingOne
      /\ Searching
  BY DEF SettingsInv, CallInv
<1>2. op # Idle /\ op.step = "enumerate" /\ nvm3' = nvm3 /\ UNCHANGED nvmVars
  BY DEF ListsObjects
<1>3. op \in KeyCalls BY <1>1, <1>2, Kinds DEF SettingsTypes
<1>4. PICK key \in Keys : key = op.key BY <1>3, Fields
<1>5. /\ op.failed \in BOOLEAN /\ op.from \in Nat /\ op # Wipe /\ op.call \in {"set", "delete"}
  BY <1>1, <1>2, <1>3, Fields DEF Adding, CallKinds
<1>6. nvm3' \in [Keys \X Indices -> Values \cup {Absent}] BY <1>1, <1>2 DEF SettingsTypes
<1>7. NoValueTwice' /\ \A l \in Keys : Content(l)' = Content(l) /\ Stored(l)' = Stored(l)
  BY <1>1, <1>2, SameObjects
<1> DEFINE found == Enumerate(key, op.from)
<1>8. CASE op.idx > NumIndexed \/ found = <<>>
  <2>1. Deleted(op.failed) BY <1>4, <1>8 DEF ListsObjects
  <2>2. op.index = AllOf /\ (~op.skipped => Stored(key) = {})
    BY <1>2, <1>3, <1>4, <1>8, NothingFurther
  <2> HIDE DEF Content, Stored
  <2> QED BY <1>2, <1>3, <1>4, <1>5, <1>6, <1>7, <2>1, <2>2, DeletedKeeps
<1>9. CASE ~(op.idx > NumIndexed \/ found = <<>>)
  <2>1. /\ op' = [op EXCEPT !.list = found, !.full = (Len(found) = ListSize), !.step = "objects"]
        /\ promised' = promised /\ unmet' = unmet
    BY <1>4, <1>9 DEF ListsObjects
  <2>2. /\ found \in Seq(Indices) /\ found # <<>>
        /\ \A m, n \in 1..Len(found) : m < n => found[m] < found[n]
        /\ \A n \in 1..Len(found) : found[n] \in Stored(key) /\ found[n] >= op.from
        /\ \A j \in Stored(key) : j >= op.from =>
              \/ \E n \in 1..Len(found) : found[n] = j
              \/ Len(found) = ListSize /\ \A n \in 1..Len(found) : found[n] < j
    BY <1>5, <1>9, EnumerateLists
  <2> HIDE DEF found
  <2>3. op' \in KeyCalls BY <1>3, <2>1, <2>2 DEF KeyCalls
  <2>4. /\ op'.call = op.call /\ op'.step = "objects" /\ op'.key = key /\ op'.value = op.value
        /\ op'.index = op.index /\ op'.want = op.want /\ op'.skipped = op.skipped
        /\ op'.failed = op.failed /\ op'.from = op.from /\ op'.idx = op.idx
        /\ op'.list = found /\ op'.full = (Len(found) = ListSize)
    BY <1>3, <1>4, <2>1 DEF KeyCalls
  <2>5. op' # Idle /\ op' # Wipe BY <2>3, Fields
  <2>6. SettingsTypes' BY <1>1, <1>2, <2>1, <2>3 DEF SettingsTypes, nvmVars
  <2>7. Stored(op.key)' = Stored(key) /\ Content(op.key)' = Content(key)
    BY <1>2, <2>4 DEF Stored, Content
  <2>8. AsPromised'
    <3> SUFFICES ASSUME NEW l \in Keys \ unmet PROVE KeyKept(l)' BY <2>1 DEF AsPromised
    <3>1. KeyKept(l) BY <1>1 DEF AsPromised
    <3>2. Content(l)' = Content(l) /\ promised'[l] = promised[l] BY <1>7, <2>1
    <3> QED BY <1>2, <1>4, <1>5, <2>4, <2>5, <3>1, <3>2 DEF KeyKept, Wipe, Idle, AllOf
  <2>9. Setting' BY <1>1, <1>4, <2>4, <2>7 DEF Setting, AllOf
  <2>10. Adding' /\ Deleting' BY <1>1, <1>5, <2>4 DEF Adding, Deleting, AllOf
  <2>11. DeletingOne'
    <3>1. CASE op.index = AllOf BY <2>4, <3>1 DEF DeletingOne, AllOf
    <3>2. CASE op.index # AllOf
      <4>1. /\ op.call = "delete" /\ ~op.failed /\ ~op.skipped
            /\ op.index \in 0..(Cardinality(Stored(key)) - 1)
            /\ op.want = Content(key) \ {Nth(key, op.index)}
            /\ op.idx <= op.index /\ op.idx = Rank(op.from, Stored(key))
        BY <1>1, <1>3, <1>4, <3>2 DEF DeletingOne
      <4>2. Nth(op.key, op.index)' = Nth(key, op.index) BY <1>2, <2>4 DEF Nth, Stored
      <4>3. Rank(op.from, Stored(op.key))' = Rank(op.from, Stored(key))
        BY <1>2, <2>4 DEF Rank, Stored
      <4> QED BY <2>4, <2>7, <4>1, <4>2, <4>3 DEF DeletingOne
    <3> QED BY <3>1, <3>2
  <2>12. Searching'
    <3>1. op.idx <= op.from /\ (op.index = AllOf /\ ~op.skipped => Below(key, op.from) = {})
      BY <1>1, <1>2, <1>3, <1>4, <1>5 DEF Searching
    <3>2. Below(op.key, op.from)' = Below(key, op.from) BY <1>2, <2>4 DEF Below, Stored
    <3> QED BY <2>4, <3>1, <3>2 DEF Searching, AllOf
  <2>13. Listed' BY <2>2, <2>4, <2>7 DEF Listed
  <2> QED BY <1>7, <2>6, <2>8, <2>9, <2>10, <2>11, <2>12, <2>13 DEF SettingsInv, CallInv
<1> QED BY <1>8, <1>9

\* The object at which the search stands is the first that is left.
LEMMA AtHead ==
    ASSUME SettingsInv, op \in KeyCalls, op.step = "objects", NEW key \in Keys, key = op.key
    PROVE  /\ Len(op.list) \in Nat \ {0} /\ Head(op.list) = op.list[1]
           /\ Head(op.list) \in Stored(key) /\ Head(op.list) \in Nat /\ Head(op.list) >= op.from
           /\ \A j \in Stored(key) : j >= op.from => j >= Head(op.list)
           /\ Len(op.list) = 1 /\ ~op.full => \A j \in Stored(key) : j <= Head(op.list)
           /\ Rank(Head(op.list), Stored(key)) = Rank(op.from, Stored(key))
<1>1. Listed BY DEF SettingsInv, CallInv
<1>2. op.list \in Seq(Indices) /\ op.from \in Nat /\ Stored(key) \subseteq Nat
  BY Fields, SettingsAssumption DEF Stored, Indices
<1> DEFINE list == op.list
<1>3. /\ list # <<>>
      /\ \A m, n \in 1..Len(list) : m < n => list[m] < list[n]
      /\ \A n \in 1..Len(list) : list[n] \in Stored(key) /\ list[n] >= op.from
      /\ \A j \in Stored(key) : j >= op.from =>
            \/ \E n \in 1..Len(list) : list[n] = j
            \/ op.full /\ \A n \in 1..Len(list) : list[n] < j
  BY <1>1 DEF Listed
<1> HIDE DEF list
<1>4. Len(list) \in Nat \ {0} /\ Head(list) = list[1] BY <1>2, <1>3 DEF list
<1>5. 1 \in 1..Len(list) BY <1>4
<1>6. list[1] \in Stored(key) /\ list[1] \in Nat /\ list[1] >= op.from BY <1>2, <1>3, <1>5
<1>7. ASSUME NEW j \in Stored(key), j >= op.from PROVE j >= list[1]
  <2>1. j \in Nat BY <1>2
  <2>2. ASSUME NEW n \in 1..Len(list), list[n] = j PROVE j >= list[1]
    <3>1. n = 1 \/ 1 < n BY <1>4
    <3>2. 1 < n => list[1] < list[n] BY <1>3, <1>5
    <3> QED BY <1>6, <2>1, <2>2, <3>1, <3>2
  <2>3. CASE \A n \in 1..Len(list) : list[n] < j BY <1>5, <1>6, <2>1, <2>3
  <2> QED BY <1>3, <1>7, <2>2, <2>3
<1>8. ASSUME Len(list) = 1, ~op.full, NEW j \in Stored(key) PROVE j <= list[1]
  <2>1. j \in Nat BY <1>2
  <2>2. CASE j < op.from BY <1>2, <1>6, <2>1, <2>2
  <2>3. CASE j >= op.from
    <3>1. PICK n \in 1..Len(list) : list[n] = j BY <1>3, <1>8, <2>3
    <3>2. n = 1 BY <1>8, <3>1
    <3> QED BY <1>6, <3>1, <3>2
  <2> QED BY <1>2, <2>1, <2>2, <2>3
<1>9. Rank(list[1], Stored(key)) = Rank(op.from, Stored(key))
  <2>1. ASSUME NEW j \in Stored(key) PROVE j < list[1] <=> j < op.from
    BY <1>2, <1>6, <1>7
  <2>2. {j \in Stored(key) : j < list[1]} = {j \in Stored(key) : j < op.from} BY <2>1
  <2> QED BY <2>2 DEF Rank
<1> QED BY <1>4, <1>6, <1>7, <1>8, <1>9 DEF list

\* What the step does to the object, and whether it is the last one.
LEMMA AtObject ==
    ASSUME SettingsInv, NextObject
    PROVE  /\ op \in KeyCalls /\ op.step = "objects" /\ UNCHANGED nvmVars
           /\ \E failed \in BOOLEAN :
                 /\ failed => Matches
                 /\ nvm3' = IF Matches /\ ~failed
                            THEN [nvm3 EXCEPT ![<<op.key, Head(op.list)>>] = Absent] ELSE nvm3
                 /\ EndsSearch => Deleted(failed)
                 /\ ~EndsSearch =>
                       /\ op' = [op EXCEPT !.list = Tail(@), !.idx = @ + 1,
                                           !.from = Head(op.list) + 1,
                                           !.failed = failed, !.skipped = (@ \/ failed),
                                           !.step = IF Len(op.list) > 1 THEN @ ELSE "enumerate"]
                       /\ promised' = promised /\ unmet' = unmet
<1>1. op \in KeyCalls \cup {Idle, Wipe} BY DEF SettingsInv, SettingsTypes
<1>2. op # Idle /\ op.step = "objects" /\ UNCHANGED nvmVars BY DEF NextObject
<1>3. op \in KeyCalls BY <1>1, <1>2, Kinds
<1>4. PICK failed \in IF Matches THEN BOOLEAN ELSE {FALSE} :
         /\ nvm3' = IF Matches /\ ~failed
                    THEN [nvm3 EXCEPT ![<<op.key, Head(op.list)>>] = Absent] ELSE nvm3
         /\ IF EndsSearch THEN Deleted(failed)
            ELSE /\ op' = [op EXCEPT !.list = Tail(@), !.idx = @ + 1,
                                     !.from = NextFrom(Head(op.list)),
                                     !.failed = failed, !.skipped = (@ \/ failed),
                                     !.step = IF Len(op.list) > 1 THEN @ ELSE "enumerate"]
                 /\ UNCHANGED <<promised, unmet>>
  BY DEF NextObject
<1>5. failed \in BOOLEAN /\ (failed => Matches) BY <1>4
<1> QED BY <1>2, <1>3, <1>4, <1>5 DEF NextFrom

LEMMA ObjectKeeps == ASSUME SettingsInv, NextObject PROVE SettingsInv'
<1>1. SettingsTypes /\ NoValueTwice /\ AsPromised /\ Adding /\ Setting /\ Deleting /\ DeletingOne
      /\ Searching /\ Listed
  BY DEF SettingsInv, CallInv
<1>2. op \in KeyCalls /\ op.step = "objects" /\ UNCHANGED nvmVars BY AtObject
<1>3. PICK failed \in BOOLEAN :
         /\ failed => Matches
         /\ nvm3' = IF Matches /\ ~failed
                    THEN [nvm3 EXCEPT ![<<op.key, Head(op.list)>>] = Absent] ELSE nvm3
         /\ EndsSearch => Deleted(failed)
         /\ ~EndsSearch =>
               /\ op' = [op EXCEPT !.list = Tail(@), !.idx = @ + 1, !.from = Head(op.list) + 1,
                                   !.failed = failed, !.skipped = (@ \/ failed),
                                   !.step = IF Len(op.list) > 1 THEN @ ELSE "enumerate"]
               /\ promised' = promised /\ unmet' = unmet
  BY AtObject
<1>4. PICK key \in Keys : key = op.key BY <1>2, Fields
<1>5. PICK i \in Stored(key) : i = Head(op.list) BY <1>2, <1>4, AtHead
<1>6. /\ Len(op.list) \in Nat \ {0} /\ i = op.list[1] /\ i \in Nat /\ i >= op.from
      /\ \A j \in Stored(key) : j >= op.from => j >= i
      /\ Len(op.list) = 1 /\ ~op.full => \A j \in Stored(key) : j <= i
      /\ Rank(i, Stored(key)) = Rank(op.from, Stored(key))
  BY <1>2, <1>4, <1>5, AtHead
<1>7. /\ op.call \in {"set", "delete"} /\ op # Idle /\ op # Wipe
      /\ op.from \in Nat /\ op.idx \in Nat /\ op.list \in Seq(Indices)
      /\ op.skipped \in BOOLEAN /\ op.failed \in BOOLEAN /\ op.want \in SUBSET Values
  BY <1>1, <1>2, Fields DEF Adding, CallKinds
<1>8. Stored(key) \in SUBSET Indices /\ Stored(key) \subseteq Int
      /\ Cardinality(Stored(key)) \in Nat
  <2>1. Stored(key) \in SUBSET Indices /\ Indices \subseteq Int
    BY SettingsAssumption DEF Stored, Indices
  <2>2. Cardinality(Stored(key)) \in Nat
    <3> DEFINE S == Stored(key)
    <3>1. S \in SUBSET Indices /\ i \in Int BY <1>6, <2>1
    <3> HIDE DEF S
    <3>2. Cardinality(S) \in Nat BY <3>1, RankType
    <3> QED BY <3>2 DEF S
  <2> QED BY <2>1, <2>2
\* The object goes, if it is one to delete that could be looked at.
<1> DEFINE gone == Matches /\ ~failed
<1>9. /\ nvm3' \in [Keys \X Indices -> Values \cup {Absent}] /\ NoValueTwice'
      /\ Stored(key)' = IF gone THEN Stored(key) \ {i} ELSE Stored(key)
      /\ Content(key)' = IF gone THEN Content(key) \ {nvm3[<<key, i>>]} ELSE Content(key)
      /\ \A l \in Keys : l # key => Content(l)' = Content(l)
  <2>1. CASE gone
    <3>1. nvm3' = [nvm3 EXCEPT ![<<key, i>>] = Absent] BY <1>3, <1>4, <1>5, <2>1
    <3> QED BY <1>1, <2>1, <3>1, OneLess
  <2>2. CASE ~gone
    <3>1. nvm3' = nvm3 BY <1>3, <2>2
    <3>2. nvm3' \in [Keys \X Indices -> Values \cup {Absent}] BY <1>1, <3>1 DEF SettingsTypes
    <3>3. /\ \A l \in Keys : Stored(l)' = Stored(l) /\ Content(l)' = Content(l)
          /\ NoValueTwice'
      BY <1>1, <3>1, SameObjects
    <3> QED BY <2>2, <3>2, <3>3
  <2> QED BY <2>1, <2>2
<1>10. failed => nvm3' = nvm3 BY <1>3
<1>11. Content(key)' \subseteq Content(key) BY <1>9
<1>12. op.index = AllOf => Matches BY DEF Matches
<1>13. op.index # AllOf =>
          /\ op.call = "delete" /\ ~op.failed /\ ~op.skipped
          /\ op.index \in 0..(Cardinality(Stored(key)) - 1)
          /\ op.want = Content(key) \ {Nth(key, op.index)}
          /\ op.idx <= op.index /\ op.idx = Rank(i, Stored(key))
  BY <1>1, <1>2, <1>4, <1>6 DEF DeletingOne
<1>14. op.idx <= op.from /\ (op.index = AllOf /\ ~op.skipped => Below(key, op.from) = {})
  BY <1>1, <1>2, <1>4, <1>7 DEF Searching
<1>15. \A j \in Stored(key) : j < i + 1 => j <= i BY <1>6, <1>8
<1>16. Rank(i + 1, Stored(key)) = Rank(i, Stored(key)) + 1
  <2>1. i \in Int /\ i + 1 \in Int /\ i < i + 1 BY <1>6
  <2> QED BY <1>8, <1>15, <2>1, RankGrows
\* Nothing is left behind the object when all are to go.
<1>17. ASSUME op.index = AllOf, ~op.skipped, NEW j \in Stored(key), j <= i PROVE j = i
  <2>1. ~(j < op.from) BY <1>14, <1>17 DEF Below
  <2>2. j \in Int BY <1>8
  <2> QED BY <1>6, <1>7, <1>17, <2>1, <2>2
<1>18. CASE EndsSearch
  <2>1. Deleted(failed) BY <1>3, <1>18
  <2>2. ASSUME ~failed, ~op.skipped, op.index = AllOf PROVE Stored(key)' = {}
    <3>1. gone BY <1>12, <2>2
    <3>2. Len(op.list) = 1 /\ ~op.full BY <1>18, <2>2 DEF EndsSearch
    <3>3. \A j \in Stored(key) : j = i BY <1>6, <1>17, <2>2, <3>2
    <3> QED BY <1>9, <3>1, <3>3
  <2>3. ASSUME ~failed, op.index # AllOf PROVE Content(key)' = op.want
    <3>1. CASE op.idx = op.index
      <4>1. gone BY <2>3, <3>1 DEF Matches
      <4>2. Rank(i, Stored(key)) = op.index BY <1>13, <2>3, <3>1
      <4>3. \A j \in Stored(key) : Rank(j, Stored(key)) = op.index => j = i
        BY <1>8, <4>2, RankUnique
      <4>4. i = CHOOSE j \in Stored(key) : Rank(j, Stored(key)) = op.index BY <4>2, <4>3
      <4>5. Nth(key, op.index) = nvm3[<<key, i>>] BY <4>4 DEF Nth
      <4> QED BY <1>9, <1>13, <2>3, <4>1, <4>5
    <3>2. CASE op.idx # op.index
      <4>1. ~Matches BY <2>3, <3>2 DEF Matches
      <4>2. Len(op.list) = 1 /\ ~op.full BY <1>18, <4>1 DEF EndsSearch
      <4>3. {j \in Stored(key) : j < i + 1} = Stored(key)
        <5>1. ASSUME NEW j \in Stored(key) PROVE j < i + 1 BY <1>6, <1>8, <4>2
        <5> QED BY <5>1
      <4>4. Rank(i + 1, Stored(key)) = Cardinality(Stored(key)) BY <4>3 DEF Rank
      <4>5. op.idx < op.index /\ op.index < Cardinality(Stored(key))
            /\ op.idx + 1 = Cardinality(Stored(key)) /\ op.index \in Int
        BY <1>7, <1>8, <1>13, <1>16, <2>3, <3>2, <4>4
      <4> QED BY <1>7, <1>8, <4>5
    <3> QED BY <3>1, <3>2
  <2>4. op.step # "write" BY <1>2
  <2> HIDE DEF gone
  <2> QED BY <1>2, <1>4, <1>9, <1>10, <1>11, <2>1, <2>2, <2>3, <2>4, DeletedKeeps
<1>19. CASE ~EndsSearch
  <2>1. /\ op' = [op EXCEPT !.list = Tail(@), !.idx = @ + 1, !.from = i + 1,
                            !.failed = failed, !.skipped = (@ \/ failed),
                            !.step = IF Len(op.list) > 1 THEN @ ELSE "enumerate"]
        /\ promised' = promised /\ unmet' = unmet
    BY <1>3, <1>5, <1>19
  <2>2. Tail(op.list) \in Seq(Indices) /\ Len(Tail(op.list)) = Len(op.list) - 1
        /\ \A n \in 1..(Len(op.list) - 1) : Tail(op.list)[n] = op.list[n + 1]
    BY <1>6, <1>7
  <2>3. op' \in KeyCalls
    <3>1. i + 1 \in Nat /\ op.idx + 1 \in Nat /\ (op.skipped \/ failed) \in BOOLEAN
      BY <1>6, <1>7
    <3> QED BY <1>2, <2>1, <2>2, <3>1 DEF KeyCalls
  <2>4. /\ op'.call = op.call /\ op'.key = key /\ op'.value = op.value
        /\ op'.index = op.index /\ op'.want = op.want /\ op'.full = op.full
        /\ op'.step = (IF Len(op.list) > 1 THEN "objects" ELSE "enumerate")
        /\ op'.from = i + 1 /\ op'.idx = op.idx + 1 /\ op'.list = Tail(op.list)
    BY <1>2, <1>4, <2>1 DEF KeyCalls
  <2>5. op'.failed = failed /\ op'.skipped = (op.skipped \/ failed) BY <1>2, <2>1 DEF KeyCalls
  <2>6. op' # Idle /\ op' # Wipe BY <2>3, Fields
  <2>7. SettingsTypes' BY <1>1, <1>2, <1>9, <2>1, <2>3 DEF SettingsTypes, nvmVars
  <2>8. Stored(op.key)' = Stored(key)' /\ Content(op.key)' = Content(key)'
    BY <2>4 DEF Stored, Content
  <2>9. op.index # AllOf => ~gone /\ nvm3' = nvm3 /\ ~failed
    <3>1. op.index # AllOf => ~Matches BY <1>19 DEF EndsSearch
    <3> QED BY <1>3, <3>1
  <2> HIDE DEF gone
  <2>10. AsPromised'
    <3> SUFFICES ASSUME NEW l \in Keys \ unmet PROVE KeyKept(l)' BY <2>1 DEF AsPromised
    <3>1. KeyKept(l) BY <1>1 DEF AsPromised
    <3>2. CASE l = key /\ op.index = AllOf
      <4>1. Content(l) \subseteq promised[l] BY <1>4, <1>7, <3>1, <3>2 DEF KeyKept
      <4>2. Content(l)' \subseteq promised'[l] BY <1>11, <2>1, <3>2, <4>1
      <4> QED BY <1>7, <2>4, <2>6, <3>2, <4>2 DEF KeyKept, Wipe, Idle, AllOf
    <3>3. CASE l # key \/ op.index # AllOf
      <4>1. Content(l) = promised[l] BY <1>4, <1>7, <3>1, <3>3 DEF KeyKept
      <4>2. Content(l)' = Content(l) BY <1>9, <2>9, <3>3
      <4> QED BY <2>1, <2>4, <2>6, <3>3, <4>1, <4>2 DEF KeyKept, Wipe, Idle, AllOf
    <3> QED BY <3>2, <3>3
  <2>11. Setting'
    <3>1. op.call = "set" => /\ op.index = AllOf /\ op.value \in Values \ Content(key)
                             /\ op.want = {op.value}
      BY <1>1, <1>4 DEF Setting
    <3>2. op'.step # "write" BY <2>4
    <3> QED BY <1>11, <2>4, <2>8, <3>1, <3>2 DEF Setting, AllOf
  <2>12. Adding' /\ Deleting' BY <1>1, <1>2, <1>7, <2>4 DEF Adding, Deleting, AllOf
  <2>13. DeletingOne'
    <3>1. CASE op.index = AllOf BY <2>4, <3>1 DEF DeletingOne, AllOf
    <3>2. CASE op.index # AllOf
      <4>1. nvm3' = nvm3 /\ ~failed /\ op.idx # op.index
        BY <1>19, <2>9, <3>2 DEF EndsSearch, Matches
      <4>2. op.idx + 1 <= op.index /\ op.idx + 1 = Rank(i + 1, Stored(key))
        BY <1>7, <1>8, <1>13, <1>16, <3>2, <4>1
      <4>3. Nth(op.key, op.index)' = Nth(key, op.index) BY <2>4, <4>1 DEF Nth, Stored
      <4>4. Rank(op.from, Stored(op.key))' = Rank(i + 1, Stored(key))
        BY <2>4, <4>1 DEF Rank, Stored
      <4>5. Stored(key)' = Stored(key) /\ Content(key)' = Content(key) BY <1>9, <2>9, <3>2
      <4>6. ~op'.failed /\ ~op'.skipped BY <1>13, <2>5, <3>2, <4>1
      <4> QED BY <1>13, <2>4, <2>8, <3>2, <4>2, <4>3, <4>4, <4>5, <4>6 DEF DeletingOne
    <3> QED BY <3>1, <3>2
  <2>14. Searching'
    <3>1. op.idx + 1 <= i + 1 BY <1>6, <1>7, <1>14
    <3>2. ASSUME op.index = AllOf, ~op'.skipped PROVE Below(key, i + 1)' = {}
      <4>1. ~op.skipped /\ ~failed BY <2>5, <3>2
      <4>2. Stored(key)' = Stored(key) \ {i} BY <1>9, <1>12, <3>2, <4>1 DEF gone
      <4>3. \A j \in Stored(key) \ {i} : ~(j < i + 1) BY <1>15, <1>17, <3>2, <4>1
      <4>4. Below(key, i + 1)' = {j \in Stored(key)' : j < i + 1} BY DEF Below
      <4> QED BY <4>2, <4>3, <4>4
    <3>3. Below(op.key, op.from)' = Below(key, i + 1)' BY <2>4 DEF Below, Stored
    <3> QED BY <2>4, <3>1, <3>2, <3>3 DEF Searching, AllOf
  <2>15. Listed'
    <3>1. CASE ~(Len(op.list) > 1) BY <2>4, <3>1 DEF Listed
    <3>2. CASE Len(op.list) > 1
      <4> DEFINE list == op.list
                 rest == Tail(op.list)
      <4>1. /\ \A m, n \in 1..Len(list) : m < n => list[m] < list[n]
            /\ \A n \in 1..Len(list) : list[n] \in Stored(key) /\ list[n] >= op.from
            /\ \A j \in Stored(key) : j >= op.from =>
                  \/ \E n \in 1..Len(list) : list[n] = j
                  \/ op.full /\ \A n \in 1..Len(list) : list[n] < j
        BY <1>1, <1>2, <1>4 DEF Listed
      <4>2. Len(rest) = Len(list) - 1 /\ \A n \in 1..Len(rest) : rest[n] = list[n + 1]
        BY <2>2
      <4>3. Len(list) \in Nat /\ list[1] = i /\ Len(list) > 1 BY <1>6, <3>2
      <4> HIDE DEF list, rest
      <4>9. rest # <<>>
        <5>1. Len(rest) >= 1 BY <4>2, <4>3
        <5>2. Len(<<>>) = 0 OBVIOUS
        <5> QED BY <5>1, <5>2
      <4>4. \A n \in 1..Len(rest) : n + 1 \in 1..Len(list) /\ 1 < n + 1 /\ 1 \in 1..Len(list)
        BY <4>2, <4>3
      <4>5. \A m, n \in 1..Len(rest) : m < n => rest[m] < rest[n]
        <5> SUFFICES ASSUME NEW m \in 1..Len(rest), NEW n \in 1..Len(rest), m < n
                     PROVE  list[m + 1] < list[n + 1]
          BY <4>2
        <5>1. m + 1 < n + 1 BY <4>2, <4>3
        <5> QED BY <4>1, <4>4, <5>1
      <4>6. ASSUME NEW n \in 1..Len(rest)
            PROVE  rest[n] \in Stored(key)' /\ rest[n] >= i + 1
        <5>1. rest[n] \in Stored(key) /\ rest[n] > i
          <6>1. list[1] < list[n + 1] BY <4>1, <4>4
          <6> QED BY <1>8, <4>1, <4>2, <4>3, <4>4, <6>1
        <5>2. rest[n] # i /\ rest[n] >= i + 1 BY <1>6, <1>8, <5>1
        <5> QED BY <1>9, <5>1, <5>2
      <4>7. ASSUME NEW j \in Stored(key)', j >= i + 1
            PROVE  \/ \E n \in 1..Len(rest) : rest[n] = j
                   \/ op.full /\ \A n \in 1..Len(rest) : rest[n] < j
        <5>1. j \in Stored(key) /\ j \in Int /\ j >= op.from /\ j # i
          <6>1. j \in Stored(key) BY <1>9
          <6> QED BY <1>6, <1>7, <1>8, <4>7, <6>1
        <5>2. ASSUME NEW n \in 1..Len(list), list[n] = j
              PROVE  \E m \in 1..Len(rest) : rest[m] = j
          <6>1. n # 1 BY <4>3, <5>1, <5>2
          <6>2. n - 1 \in 1..Len(rest) /\ (n - 1) + 1 = n BY <4>2, <4>3, <6>1
          <6> QED BY <4>2, <5>2, <6>2
        <5>3. CASE op.full /\ \A n \in 1..Len(list) : list[n] < j BY <4>2, <4>4, <5>3
        <5> QED BY <4>1, <5>1, <5>2, <5>3
      <4>8. op'.list = rest /\ op'.from = i + 1 /\ op'.full = op.full BY <2>4 DEF rest
      <4> QED BY <2>8, <4>5, <4>6, <4>7, <4>8, <4>9 DEF Listed
    <3> QED BY <3>1, <3>2
  <2> QED BY <1>9, <2>7, <2>10, <2>11, <2>12, <2>13, <2>14, <2>15 DEF SettingsInv, CallInv
<1> QED BY <1>18, <1>19

LEMMA SettingsNextInv == SettingsInv /\ [SettingsNext]_settingsVars => SettingsInv'
BY OpeningKeeps, CallKeeps, ListsKeeps, ObjectKeeps, AddKeeps, FailsKeeps, WipeKeeps,
   PowerFailsKeeps DEF SettingsNext

\* In every loop of every call it is known which indices are done and which
\* values are left, whatever fails and whenever the power does.
THEOREM SettingsInvariant == SettingsInit /\ [][SettingsNext]_settingsVars => []SettingsInv
BY SettingsInitInv, SettingsNextInv, PTL

\* Wherever the power fails in a call that deletes list by list, and whatever
\* operation of NVM3 fails, a key has the values it had or those the stack wants
\* it to have, or it is on the way there; a call that succeeds has done its
\* work, unless it left its key in `unmet`: no index was free, or an object was
\* skipped that could not be looked at.  It holds for any number of indices and
\* any length of the lists.
THEOREM PromisesKept == SettingsInit /\ [][SettingsNext]_settingsVars => []SettingsKept
<1>1. SettingsInv => SettingsKept
  <2> SUFFICES ASSUME SettingsInv, NEW k \in Keys \ unmet
               PROVE  CASE op = Idle -> Content(k) = promised[k]
                        [] op.call = "wipe" -> Content(k) \subseteq promised[k]
                        [] OTHER -> IF k = op.key THEN Halfway(k) ELSE Content(k) = promised[k]
    BY DEF SettingsKept
  <2>1. KeyKept(k) /\ op \in KeyCalls \cup {Idle, Wipe}
    BY DEF SettingsInv, AsPromised, SettingsTypes
  <2>2. CASE op = Idle
    <3>1. op.call = "none" /\ Content(k) = promised[k] BY <2>1, <2>2, Kinds DEF KeyKept
    <3> QED BY <2>2, <3>1
  <2>3. CASE op = Wipe
    <3>1. op.call = "wipe" /\ op # Idle /\ Content(k) \subseteq promised[k]
      BY <2>1, <2>3, Kinds DEF KeyKept
    <3> QED BY <3>1
  <2>4. CASE op \in KeyCalls
    <3>1. op # Idle /\ op # Wipe /\ op.call # "wipe" BY <2>4, Fields DEF CallKinds
    <3>2. IF k = op.key THEN Halfway(k) ELSE Content(k) = promised[k]
      BY <2>1, <3>1 DEF KeyKept, Halfway
    <3> QED BY <3>1, <3>2
  <2> QED BY <2>1, <2>2, <2>3, <2>4
<1> QED BY <1>1, SettingsInvariant, PTL

THEOREM SettingsTyped == SettingsInit /\ [][SettingsNext]_settingsVars => []SettingsTypeOK
<1>1. SettingsInv => SettingsTypeOK
  <2> SUFFICES ASSUME SettingsInv PROVE SettingsTypeOK
    OBVIOUS
  <2>1. SettingsTypes BY DEF SettingsInv
  <2>2. op.call \in {"none", "set", "add", "delete", "wipe"}
    BY <2>1, Kinds, Fields DEF SettingsTypes, CallKinds
  <2> QED BY <2>1, <2>2 DEF SettingsTypes, SettingsTypeOK
<1> QED BY <1>1, SettingsInvariant, PTL
=============================================================================
