---------------------------- MODULE Screens_proofs ----------------------------
(***************************************************************************)
(* What the screens make of the cameras: the list of them, from the walk   *)
(* over the device tree to the play screen (DeviceTree), and the buttons   *)
(* that turn one (PtzControl).                                             *)
(*                                                                         *)
(* The list.  TreeInv is an invariant of DeviceTree for any trees that the *)
(* assumption allows, any sizes of pAreaList and of an answer and any      *)
(* requests that stay unanswered.  Its core is Listed: the rows that the   *)
(* entries of pAreaList count, one behind the other, are the places of the *)
(* list of devices, and a row is a device of its entry's area.  GetArea    *)
(* keeps it because the areas still to be asked for come in their order    *)
(* and nothing behind them is counted yet (TodoAhead): the new rows are    *)
(* the last ones.  Rows are counted as sets (RowsOf, Before), so the proof *)
(* is about cardinalities.  The groups are the entries that count anything *)
(* and keep their order, so a row of a group is the same row of its entry  *)
(* (ShownRows); and where only cameras come before it, its place among the *)
(* cameras is its place in the list (RowsAreCameras).                      *)
(*                                                                         *)
(* The buttons.  ControlInv is an invariant of PtzControl for any set of   *)
(* cameras: one step per action, and for each the premise                  *)
(* ~spoilt /\ ~exit decides.                                               *)
(***************************************************************************)
EXTENDS DeviceTree, PtzControl, FiniteSetTheorems, SequenceTheorems, TLAPS

\* The first n numbers are n, from one on and from zero on.
LEMMA FirstNumbers == \A n \in Nat : IsFiniteSet(1 .. n) /\ Cardinality(1 .. n) = n
<1> SUFFICES ASSUME NEW n \in Nat PROVE IsFiniteSet(1 .. n) /\ Cardinality(1 .. n) = n
  OBVIOUS
<1> QED BY FS_Interval

\* (From zero on.)
LEMMA FromZero == \A n \in Nat : IsFiniteSet(0 .. n - 1) /\ Cardinality(0 .. n - 1) = n
<1> SUFFICES ASSUME NEW n \in Nat PROVE IsFiniteSet(0 .. n - 1) /\ Cardinality(0 .. n - 1) = n
  OBVIOUS
<1>1. 0 \in Int /\ n - 1 \in Int
  OBVIOUS
<1>2. IsFiniteSet(0 .. n - 1) /\ Cardinality(0 .. n - 1) = IF 0 > n - 1 THEN 0 ELSE (n - 1) - 0 + 1
  BY <1>1, FS_Interval, Zenon
<1> QED BY <1>2

\* How many of a set of numbers come up to one of them.
UpTo(S, i) == {j \in S : j <= i}

\* How many come up to a number is at most all.
LEMMA UpToFinite ==
  ASSUME NEW S \in SUBSET Nat, IsFiniteSet(S), NEW i
  PROVE  /\ IsFiniteSet(UpTo(S, i)) /\ Cardinality(UpTo(S, i)) \in 0 .. Cardinality(S)
<1>1. UpTo(S, i) \in SUBSET S
  BY DEF UpTo
<1>2. IsFiniteSet(UpTo(S, i)) /\ Cardinality(UpTo(S, i)) <= Cardinality(S)
  BY <1>1, FS_Subset
<1> QED BY <1>2, FS_CardinalityType

\* The further a number, the more come up to it.
LEMMA UpToGrows ==
  ASSUME NEW S \in SUBSET Nat, IsFiniteSet(S), NEW i \in S, NEW j \in S, i < j
  PROVE  Cardinality(UpTo(S, i)) < Cardinality(UpTo(S, j))
<1>0. j <= j /\ ~ (j <= i) /\ \A x \in S : x <= i => x <= j
  <2>1. i \in Nat /\ j \in Nat /\ \A x \in S : x \in Nat
    OBVIOUS
  <2> QED BY <2>1
<1>1. UpTo(S, i) \in SUBSET UpTo(S, j) /\ j \in UpTo(S, j) /\ j \notin UpTo(S, i)
  BY <1>0 DEF UpTo
<1>2. /\ IsFiniteSet(UpTo(S, j)) /\ Cardinality(UpTo(S, i)) <= Cardinality(UpTo(S, j))
      /\ Cardinality(UpTo(S, i)) # Cardinality(UpTo(S, j))
      /\ Cardinality(UpTo(S, i)) \in Nat /\ Cardinality(UpTo(S, j)) \in Nat
  BY <1>1, UpToFinite, FS_Subset
<1> QED BY <1>2

\* So a number has a place of its own, and every place a number.
LEMMA PlaceOf ==
  ASSUME NEW S \in SUBSET Nat, IsFiniteSet(S), NEW k \in 1 .. Cardinality(S)
  PROVE  \E i \in S : Cardinality(UpTo(S, i)) = k
<1> DEFINE n == Cardinality(S)
           rank == [i \in S |-> Cardinality(UpTo(S, i))]
<1>1. n \in Nat
  BY FS_CardinalityType
<1>2. ASSUME NEW i \in S
      PROVE  Cardinality(UpTo(S, i)) \in 1 .. n
  <2>1. Cardinality(UpTo(S, i)) \in 0 .. n /\ IsFiniteSet(UpTo(S, i))
    BY UpToFinite
  <2>2. i \in UpTo(S, i)
    BY DEF UpTo
  <2>3. Cardinality(UpTo(S, i)) # 0
    BY <2>1, <2>2, FS_EmptySet
  <2> QED BY <1>1, <2>1, <2>3
<1>3. ASSUME NEW i \in S, NEW j \in S, rank[i] = rank[j]
      PROVE  i = j
  <2>1. i \in Nat /\ j \in Nat /\ Cardinality(UpTo(S, i)) \in Nat /\ Cardinality(UpTo(S, j)) \in Nat
    BY <1>2
  <2>2. ~ (i < j) /\ ~ (j < i)
    BY <1>3, <2>1, UpToGrows
  <2> QED BY <2>1, <2>2
<1>4. rank \in [S -> 1 .. n]
  BY <1>2
<1>5. rank \in Injection(S, 1 .. n)
  BY <1>3, <1>4 DEF Injection, IsInjective
<1>6. IsFiniteSet(1 .. n) /\ Cardinality(1 .. n) = n
  BY <1>1, FirstNumbers
<1>7. rank \in Surjection(S, 1 .. n)
  BY <1>5, <1>6, FS_Injection
<1> QED BY <1>7 DEF Surjection

\* Places lists the set in ascending order.
LEMMA PlacesAscend ==
  ASSUME NEW S \in SUBSET Nat, IsFiniteSet(S)
  PROVE  /\ DOMAIN Places(S) = 1 .. Cardinality(S) /\ Cardinality(S) \in Nat
         /\ \A k \in 1 .. Cardinality(S) :
              /\ Places(S)[k] \in S /\ Cardinality(UpTo(S, Places(S)[k])) = k
              /\ \A l \in 1 .. Cardinality(S) : k < l => Places(S)[k] < Places(S)[l]
         /\ \A i \in S : /\ Cardinality(UpTo(S, i)) \in 1 .. Cardinality(S)
                         /\ Places(S)[Cardinality(UpTo(S, i))] = i
<1> DEFINE n == Cardinality(S)
<1>1. n \in Nat /\ DOMAIN Places(S) = 1 .. n
  BY FS_CardinalityType DEF Places
<1>2. ASSUME NEW k \in 1 .. n
      PROVE  Places(S)[k] \in S /\ Cardinality(UpTo(S, Places(S)[k])) = k
  <2>1. \E i \in S : Cardinality(UpTo(S, i)) = k
    BY PlaceOf
  <2>2. Places(S)[k] = CHOOSE i \in S : Cardinality(UpTo(S, i)) = k
    BY DEF Places, UpTo
  <2> QED BY <2>1, <2>2
<1>3. ASSUME NEW k \in 1 .. n, NEW l \in 1 .. n, k < l
      PROVE  Places(S)[k] < Places(S)[l]
  <2> DEFINE i == Places(S)[k]
             j == Places(S)[l]
  <2>1. i \in S /\ j \in S /\ Cardinality(UpTo(S, i)) = k /\ Cardinality(UpTo(S, j)) = l
    BY <1>2
  <2> HIDE DEF i, j
  <2>2. i \in Nat /\ j \in Nat /\ k \in Nat /\ l \in Nat
    BY <2>1
  <2>3. ~ (j < i) /\ i # j
    BY <1>3, <2>1, <2>2, UpToGrows
  <2>4. i < j
    BY <2>2, <2>3
  <2> QED BY <2>4 DEF i, j
<1>4. ASSUME NEW i \in S
      PROVE  Cardinality(UpTo(S, i)) \in 1 .. n /\ Places(S)[Cardinality(UpTo(S, i))] = i
  <2> DEFINE k == Cardinality(UpTo(S, i))
             j == Places(S)[k]
  <2>1. k \in 0 .. n /\ IsFiniteSet(UpTo(S, i)) /\ i \in UpTo(S, i)
    BY UpToFinite DEF UpTo
  <2>2. k # 0
    BY <2>1, FS_EmptySet
  <2>3. k \in 1 .. n
    BY <1>1, <2>1, <2>2
  <2>4. j \in S /\ Cardinality(UpTo(S, j)) = k
    BY <1>2, <2>3
  <2> HIDE DEF j
  <2>5. i \in Nat /\ j \in Nat /\ k \in Nat
    BY <2>3, <2>4
  <2>6. ~ (i < j) /\ ~ (j < i)
    BY <2>4, <2>5, UpToGrows
  <2>7. i = j
    BY <2>5, <2>6
  <2> QED BY <2>3, <2>7 DEF j
<1> QED BY <1>1, <1>2, <1>3, <1>4

\* A sequence of what stands at some places of another one.
LEMMA PickType ==
  ASSUME NEW T, NEW s \in Seq(T), NEW S \in SUBSET (DOMAIN s)
  PROVE  /\ IsFiniteSet(S) /\ S \in SUBSET Nat /\ Cardinality(S) \in 0 .. Len(s)
         /\ Pick(s, S) \in Seq(T) /\ Len(Pick(s, S)) = Cardinality(S)
         /\ DOMAIN Pick(s, S) = 1 .. Cardinality(S)
         /\ \A k \in 1 .. Cardinality(S) : Pick(s, S)[k] = s[Places(S)[k]] /\ Places(S)[k] \in S
<1>1. DOMAIN s = 1 .. Len(s) /\ Len(s) \in Nat
  OBVIOUS
<1>2. IsFiniteSet(1 .. Len(s)) /\ Cardinality(1 .. Len(s)) = Len(s)
  BY <1>1, FirstNumbers
<1>3. IsFiniteSet(S) /\ Cardinality(S) <= Len(s) /\ S \in SUBSET Nat /\ Cardinality(S) \in Nat
  BY <1>1, <1>2, FS_Subset, FS_CardinalityType
<1>4. \A k \in 1 .. Cardinality(S) : Places(S)[k] \in S /\ s[Places(S)[k]] \in T
  <2>1. \A k \in 1 .. Cardinality(S) : Places(S)[k] \in S
    BY <1>3, PlacesAscend
  <2>2. \A i \in S : s[i] \in T
    BY <1>1
  <2> QED BY <2>1, <2>2
<1>5. Pick(s, S) = [k \in 1 .. Cardinality(S) |-> s[Places(S)[k]]]
  BY DEF Pick
<1>6. Pick(s, S) \in Seq(T) /\ Len(Pick(s, S)) = Cardinality(S)
  BY <1>3, <1>4, <1>5
<1> QED BY <1>1, <1>3, <1>4, <1>5, <1>6

-----------------------------------------------------------------------------
\* The sizes of the lists, from the assumption.
LEMMA Bounds == AREA_GROUP_NUM \in Nat \ {0} /\ CHILD_NODE_NUM \in Nat /\ MostRows \in Nat
<1>1. AREA_GROUP_NUM \in Nat \ {0} /\ CHILD_NODE_NUM \in Nat
  BY DeviceTreeAssumption
<1> QED BY <1>1 DEF MostRows

Entry  == [area : Nat, childNum : 0 .. MostRows]
Groups == Seq(Entry)

\* What an entry of such a list holds.
LEMMA GroupType ==
  ASSUME NEW list \in Groups
  PROVE  /\ DOMAIN list = 1 .. Len(list) /\ Len(list) \in Nat
         /\ \A g \in DOMAIN list : /\ g \in Nat /\ list[g].area \in Nat
                                   /\ list[g].childNum \in Nat /\ list[g].childNum <= MostRows
<1>1. DOMAIN list = 1 .. Len(list) /\ Len(list) \in Nat
  BY DEF Groups
<1>2. ASSUME NEW g \in DOMAIN list
      PROVE  list[g] \in Entry
  BY <1>1, ElementOfSeq DEF Groups
<1> QED BY <1>1, <1>2, Bounds DEF Entry

\* A list has finitely many rows.
LEMMA RowsFinite ==
  ASSUME NEW list \in Groups
  PROVE  /\ IsFiniteSet(RowsOf(list)) /\ Cardinality(RowsOf(list)) \in Nat
         /\ \A g : IsFiniteSet({r \in RowsOf(list) : r[1] < g}) /\ Before(list, g) \in Nat
<1>1. MostRows \in Nat /\ DOMAIN list = 1 .. Len(list) /\ Len(list) \in Nat
  BY Bounds, GroupType
<1>2. IsFiniteSet(0 .. MostRows) /\ IsFiniteSet(DOMAIN list)
  BY <1>1, FirstNumbers, FS_Interval
<1>3. IsFiniteSet((DOMAIN list) \X (0 .. MostRows))
  BY <1>2, FS_Product
<1>4. IsFiniteSet(RowsOf(list))
  <2>1. RowsOf(list) \in SUBSET ((DOMAIN list) \X (0 .. MostRows))
    BY DEF RowsOf
  <2> QED BY <1>3, <2>1, FS_Subset
<1>5. ASSUME NEW g
      PROVE  IsFiniteSet({r \in RowsOf(list) : r[1] < g}) /\ Before(list, g) \in Nat
  <2>1. {r \in RowsOf(list) : r[1] < g} \in SUBSET RowsOf(list)
    OBVIOUS
  <2>2. IsFiniteSet({r \in RowsOf(list) : r[1] < g})
    BY <1>4, <2>1, FS_Subset
  <2> QED BY <2>2, FS_CardinalityType DEF Before
<1> QED BY <1>4, <1>5, FS_CardinalityType

\* A row of a list, and what its group counts.
LEMMA RowType ==
  ASSUME NEW list \in Groups
  PROVE  \A r : r \in RowsOf(list) <=>
           \E g \in DOMAIN list, q \in Nat : r = <<g, q>> /\ q < list[g].childNum
<1>1. MostRows \in Nat /\ \A g \in DOMAIN list : list[g].childNum \in Nat /\ list[g].childNum <= MostRows
  BY Bounds, GroupType
<1>2. ASSUME NEW r \in RowsOf(list)
      PROVE  \E g \in DOMAIN list, q \in Nat : r = <<g, q>> /\ q < list[g].childNum
  <2>1. PICK g \in DOMAIN list, q \in 0 .. MostRows : r = <<g, q>> /\ q < list[g].childNum
    BY DEF RowsOf
  <2>2. q \in Nat
    BY <1>1, <2>1
  <2> QED BY <2>1, <2>2
<1>3. ASSUME NEW g \in DOMAIN list, NEW q \in Nat, q < list[g].childNum
      PROVE  <<g, q>> \in RowsOf(list)
  <2>1. q \in 0 .. MostRows /\ q < list[g].childNum
    BY <1>1, <1>3
  <2> QED BY <2>1 DEF RowsOf
<1> QED BY <1>2, <1>3

\* Of a list in which nothing is counted behind g, the rows of g are the last.
LEMMA LastRows ==
  ASSUME NEW list \in Groups, NEW g \in DOMAIN list,
         \A k \in DOMAIN list : k > g => list[k].childNum = 0
  PROVE  Cardinality(RowsOf(list)) = Before(list, g) + list[g].childNum
<1> DEFINE before == {r \in RowsOf(list) : r[1] < g}
           c      == list[g].childNum
           own    == {g} \X (0 .. c - 1)
<1>1. c \in Nat /\ g \in Nat /\ \A k \in DOMAIN list : k \in Nat /\ list[k].childNum \in Nat
  BY GroupType
<1>2. IsFiniteSet(own) /\ Cardinality(own) = c
  <2>1. IsFiniteSet({g}) /\ Cardinality({g}) = 1
    BY FS_Singleton
  <2>2. IsFiniteSet(0 .. c - 1) /\ Cardinality(0 .. c - 1) = c
    BY <1>1, FromZero
  <2>3. IsFiniteSet(own) /\ Cardinality(own) = 1 * c
    <3>1. \A A, B : IsFiniteSet(A) /\ IsFiniteSet(B)
             => IsFiniteSet(A \X B) /\ Cardinality(A \X B) = Cardinality(A) * Cardinality(B)
      BY FS_Product
    <3>2. /\ IsFiniteSet({g} \X (0 .. c - 1))
          /\ Cardinality({g} \X (0 .. c - 1)) = Cardinality({g}) * Cardinality(0 .. c - 1)
      BY ONLY <2>1, <2>2, <3>1, Zenon
    <3> QED BY <2>1, <2>2, <3>2
  <2> QED BY <1>1, <2>3
<1>3. IsFiniteSet(before) /\ Cardinality(before) = Before(list, g) /\ Before(list, g) \in Nat
  BY RowsFinite DEF Before
<1>4. RowsOf(list) = before \cup own
  <2>1. ASSUME NEW r \in RowsOf(list)
        PROVE  r \in before \cup own
    <3>1. PICK k \in DOMAIN list, q \in Nat : r = <<k, q>> /\ q < list[k].childNum
      BY RowType
    <3>2. ~ (k > g)
      BY <1>1, <3>1
    <3>3. CASE k = g
      <4>1. q \in 0 .. c - 1
        BY <1>1, <3>1, <3>3
      <4> QED BY <3>1, <3>3, <4>1
    <3>4. CASE k < g
      BY <3>1, <3>4
    <3> QED BY <1>1, <3>2, <3>3, <3>4
  <2>2. ASSUME NEW r \in own
        PROVE  r \in RowsOf(list)
    <3>1. PICK q \in 0 .. c - 1 : r = <<g, q>>
      OBVIOUS
    <3>2. q \in Nat /\ q < list[g].childNum
      BY <1>1, <3>1
    <3> QED BY <3>1, <3>2, RowType
  <2> QED BY <2>1, <2>2
<1>5. before \cap own = {}
  BY <1>1
<1> HIDE DEF before, own, c
<1>6. Cardinality(before \cup own) = Cardinality(before) + Cardinality(own) - 0
  BY <1>2, <1>3, <1>5, FS_Union, FS_EmptySet
<1> QED BY <1>1, <1>2, <1>3, <1>4, <1>6 DEF c

\* The groups that are shown: the rows before one are those that stand before its entry.
LEMMA ShownRows ==
  ASSUME NEW list \in Groups, NEW S, S = {k \in DOMAIN list : list[k].childNum > 0},
         NEW g \in DOMAIN Pick(list, S)
  PROVE  /\ Places(S)[g] \in DOMAIN list /\ Pick(list, S)[g] = list[Places(S)[g]]
         /\ Before(Pick(list, S), g) = Before(list, Places(S)[g])
<1> DEFINE new == Pick(list, S)
           P   == Places(S)
<1>1. /\ S \in SUBSET Nat /\ IsFiniteSet(S) /\ Cardinality(S) \in Nat /\ DOMAIN new = 1 .. Cardinality(S)
      /\ new \in Groups /\ \A k \in 1 .. Cardinality(S) : new[k] = list[P[k]] /\ P[k] \in S
  <2>1. S \in SUBSET (DOMAIN list)
    OBVIOUS
  <2>2. list \in Seq(Entry)
    BY DEF Groups
  <2>3. /\ IsFiniteSet(S) /\ S \in SUBSET Nat
        /\ Pick(list, S) \in Seq(Entry) /\ DOMAIN Pick(list, S) = 1 .. Cardinality(S)
        /\ \A k \in 1 .. Cardinality(S) : Pick(list, S)[k] = list[Places(S)[k]] /\ Places(S)[k] \in S
    BY <2>1, <2>2, PickType
  <2> QED BY <2>3, FS_CardinalityType DEF Groups
<1>2. /\ \A k, l \in 1 .. Cardinality(S) : k < l => P[k] < P[l]
      /\ \A i \in S : \E k \in 1 .. Cardinality(S) : P[k] = i
  BY <1>1, PlacesAscend
<1> HIDE DEF new, P
<1>3. /\ \A k \in 1 .. Cardinality(S) : P[k] \in DOMAIN list /\ P[k] \in Nat
      /\ \A k, l \in 1 .. Cardinality(S) : P[k] < P[l] <=> k < l
      /\ \A k, l \in 1 .. Cardinality(S) : P[k] = P[l] => k = l
  <2>1. \A k \in 1 .. Cardinality(S) : P[k] \in DOMAIN list /\ P[k] \in Nat
    BY <1>1
  <2>2. ASSUME NEW k \in 1 .. Cardinality(S), NEW l \in 1 .. Cardinality(S)
        PROVE  (P[k] < P[l] <=> k < l) /\ (P[k] = P[l] => k = l)
    <3>1. (k < l => P[k] < P[l]) /\ (l < k => P[l] < P[k]) /\ k \in Nat /\ l \in Nat
          /\ P[k] \in Nat /\ P[l] \in Nat
      BY <1>1, <1>2, <2>1
    <3> QED BY <3>1
  <2> QED BY <2>1, <2>2
<1> DEFINE A == {r \in RowsOf(new) : r[1] < g}
           B == {r \in RowsOf(list) : r[1] < P[g]}
           f == [r \in A |-> <<P[r[1]], r[2]>>]
<1>4. g \in 1 .. Cardinality(S)
  BY <1>1 DEF new
<1>5. ASSUME NEW r \in A
      PROVE  \E k \in 1 .. Cardinality(S), q \in Nat : r = <<k, q>> /\ q < new[k].childNum /\ k < g
  <2>1. r \in RowsOf(new) /\ r[1] < g
    OBVIOUS
  <2>2. new \in Groups
    BY <1>1
  <2>3. \E k \in DOMAIN new, q \in Nat : r = <<k, q>> /\ q < new[k].childNum
    BY <2>1, <2>2, RowType
  <2> HIDE DEF A
  <2>4. PICK k \in DOMAIN new, q \in Nat : r = <<k, q>> /\ q < new[k].childNum
    BY <2>3
  <2> QED BY <1>1, <2>1, <2>4
<1>6. ASSUME NEW r \in A
      PROVE  f[r] \in B
  <2>1. PICK k \in 1 .. Cardinality(S), q \in Nat : r = <<k, q>> /\ q < new[k].childNum /\ k < g
    BY <1>5
  <2>2. f[r] = <<P[k], q>>
    BY <2>1
  <2>3. P[k] < P[g] /\ P[k] \in DOMAIN list /\ q < list[P[k]].childNum
    BY <1>1, <1>3, <1>4, <2>1
  <2>4. <<P[k], q>> \in RowsOf(list)
    BY <2>3, RowType
  <2> QED BY <2>2, <2>3, <2>4
<1>7. ASSUME NEW r \in A, NEW s \in A, f[r] = f[s]
      PROVE  r = s
  <2>1. PICK k \in 1 .. Cardinality(S), q \in Nat : r = <<k, q>> /\ q < new[k].childNum /\ k < g
    BY <1>5
  <2>2. PICK l \in 1 .. Cardinality(S), p \in Nat : s = <<l, p>> /\ p < new[l].childNum /\ l < g
    BY <1>5
  <2>3. f[r] = <<P[k], q>> /\ f[s] = <<P[l], p>>
    BY <2>1, <2>2
  <2>4. P[k] = P[l] /\ q = p
    BY <1>7, <2>3
  <2> QED BY <1>3, <2>1, <2>2, <2>4
<1>8. ASSUME NEW s \in B
      PROVE  \E r \in A : f[r] = s
  <2>1. PICK i \in DOMAIN list, q \in Nat : s = <<i, q>> /\ q < list[i].childNum /\ i < P[g]
    BY RowType
  <2>2. list[i].childNum \in Nat /\ list[i].childNum > 0
    <3>1. list[i].childNum \in Nat
      BY GroupType
    <3> QED BY <2>1, <3>1
  <2>3. PICK k \in 1 .. Cardinality(S) : P[k] = i
    BY <1>2, <2>2
  <2>4. k < g /\ new[k] = list[i]
    BY <1>1, <1>3, <1>4, <2>1, <2>3
  <2>5. <<k, q>> \in RowsOf(new)
    BY <1>1, <2>1, <2>4, RowType
  <2>6. <<k, q>> \in A /\ f[<<k, q>>] = s
    BY <2>1, <2>3, <2>4, <2>5
  <2> QED BY <2>6
<1>9. f \in Bijection(A, B)
  BY <1>6, <1>7, <1>8 DEF Bijection, Injection, Surjection, IsInjective
<1>10. Cardinality(A) = Cardinality(B)
  <2>1. IsFiniteSet(A)
    BY <1>1, RowsFinite
  <2> HIDE DEF A, B, f
  <2> QED BY <1>9, <2>1, FS_Bijection DEF ExistsBijection
<1> QED BY <1>1, <1>3, <1>4, <1>10 DEF Before, new, P

-----------------------------------------------------------------------------
\* What the server may be asked for are sequences of nodes of the tree.
LEMMA TreeNodes ==
  ASSUME NEW t \in Trees
  PROVE  /\ TopLevel(t) \in Seq(NodesOf(t)) /\ Len(TopLevel(t)) = 1 + Len(t.top)
         /\ Len(TopLevel(t)) \in Nat \ {0} /\ TopLevel(t)[1] = Parent(t)
         /\ \A i \in DOMAIN t.top : TopLevel(t)[i + 1] = t.top[i]
         /\ \A a \in DOMAIN t.in : t.in[a] \in Seq(NodesOf(t))
<1> DEFINE T == {Parent(t)} \cup ToSet(t.top)
<1>1. t.top \in Seq(ToSet(t.top))
  BY DeviceTreeAssumption
<1>2. t.top \in Seq(T) /\ <<Parent(t)>> \in Seq(T)
  <2>1. ToSet(t.top) \subseteq T
    OBVIOUS
  <2>2. t.top \in Seq(T)
    BY <1>1, <2>1, SeqMonotonic
  <2> QED BY <2>2
<1>3. /\ TopLevel(t) \in Seq(T) /\ Len(TopLevel(t)) = 1 + Len(t.top) /\ Len(t.top) \in Nat
      /\ \A i \in 1 .. 1 + Len(t.top) :
           TopLevel(t)[i] = IF i <= 1 THEN <<Parent(t)>>[i] ELSE t.top[i - 1]
  BY <1>2, ConcatProperties DEF TopLevel
<1>4. DOMAIN TopLevel(t) = 1 .. 1 + Len(t.top) /\ DOMAIN t.top = 1 .. Len(t.top)
  BY <1>2, <1>3
<1>5. TopLevel(t) \in Seq(NodesOf(t))
  <2>1. \A i \in 1 .. Len(TopLevel(t)) : TopLevel(t)[i] \in NodesOf(t)
    BY <1>3, <1>4 DEF NodesOf, ToSet
  <2> QED BY <1>3, <2>1
<1>6. ASSUME NEW i \in DOMAIN t.top
      PROVE  TopLevel(t)[i + 1] = t.top[i]
  BY <1>3, <1>4
<1>7. ASSUME NEW a \in DOMAIN t.in
      PROVE  t.in[a] \in Seq(NodesOf(t))
  <2>1. t.in[a] \in Seq(ToSet(t.in[a]))
    BY DeviceTreeAssumption
  <2>2. ToSet(t.in[a]) \subseteq NodesOf(t)
    BY DEF NodesOf
  <2> QED BY <2>1, <2>2, SeqMonotonic
<1> QED BY <1>3, <1>5, <1>6, <1>7

\* An answer is cut off where the buffer ends.
LEMMA FirstOfType ==
  ASSUME NEW T, NEW s \in Seq(T), NEW n \in Nat
  PROVE  /\ FirstOf(s, n) \in Seq(T) /\ Len(FirstOf(s, n)) \in 0 .. Len(s)
         /\ Len(FirstOf(s, n)) = IF Len(s) < n THEN Len(s) ELSE n
         /\ \A i \in DOMAIN FirstOf(s, n) : i \in DOMAIN s /\ FirstOf(s, n)[i] = s[i]
<1> DEFINE m == IF Len(s) < n THEN Len(s) ELSE n
<1>1. m \in 0 .. Len(s) /\ Len(s) \in Nat /\ DOMAIN s = 1 .. Len(s)
  OBVIOUS
<1>2. \A i \in 1 .. m : s[i] \in T
  BY <1>1
<1>3. FirstOf(s, n) = SubSeq(s, 1, m)
  BY DEF FirstOf
<1> HIDE DEF m
<1>4. /\ SubSeq(s, 1, m) \in Seq(T) /\ Len(SubSeq(s, 1, m)) = m
      /\ \A i \in 1 .. m : SubSeq(s, 1, m)[i] = s[i]
  BY <1>1, <1>2
<1> QED BY <1>1, <1>3, <1>4 DEF m

\* The first answer: the areas in it are numbered as they come, and they are fewer
\* than pAreaList has entries.
LEMMA TopAnswerIs ==
  ASSUME tree \in Trees
  PROVE  /\ TopAnswer \in Seq(NodesOf(tree)) /\ Len(TopAnswer) \in 1 .. AREA_GROUP_NUM
         /\ \A i \in DOMAIN TopAnswer :
              i \in DOMAIN TopLevel(tree) /\ TopAnswer[i] = TopLevel(tree)[i]
         /\ Of(TopAnswer, "area") \in SUBSET Nat /\ IsFiniteSet(Of(TopAnswer, "area"))
         /\ Cardinality(Of(TopAnswer, "area")) \in 0 .. AREA_GROUP_NUM - 1
         /\ \A i \in Of(TopAnswer, "area") :
              /\ TopAnswer[i].id = Cardinality(UpTo(Of(TopAnswer, "area"), i))
              /\ TopAnswer[i].id \in DOMAIN tree.in
<1> DEFINE nodes == TopAnswer
           top   == TopLevel(tree)
           A     == Of(nodes, "area")
           all   == Of(top, "area")
<1>1. /\ top \in Seq(NodesOf(tree)) /\ Len(top) \in Nat \ {0} /\ top[1] = Parent(tree)
  BY TreeNodes
<1>2. AREA_GROUP_NUM \in Nat \ {0}
  BY Bounds
<1>3. /\ nodes \in Seq(NodesOf(tree)) /\ Len(nodes) = IF Len(top) < AREA_GROUP_NUM THEN Len(top) ELSE AREA_GROUP_NUM
      /\ Len(nodes) \in 0 .. Len(top)
      /\ \A i \in DOMAIN nodes : i \in DOMAIN top /\ nodes[i] = top[i]
  BY <1>1, <1>2, FirstOfType DEF TopAnswer
<1>4. /\ \A i \in all : top[i].id = Cardinality(UpTo(all, i)) /\ top[i].id \in DOMAIN tree.in
      /\ tree.root \in {"domain", "area"}
      /\ tree.root = "area" => Cardinality(all) < AREA_GROUP_NUM
  BY DeviceTreeAssumption DEF UpTo
<1> HIDE DEF nodes, top
<1>5. DOMAIN nodes = 1 .. Len(nodes) /\ DOMAIN top = 1 .. Len(top) /\ Len(nodes) \in 1 .. AREA_GROUP_NUM
      /\ Len(nodes) \in Nat /\ Len(top) \in Nat
  BY <1>1, <1>2, <1>3
<1>6. A \in SUBSET (1 .. Len(nodes)) /\ A \in SUBSET all /\ all \in SUBSET (1 .. Len(top))
  BY <1>3, <1>5 DEF Of
<1>7. /\ IsFiniteSet(1 .. Len(nodes)) /\ IsFiniteSet(1 .. Len(top))
  BY <1>5, FirstNumbers
<1>8. IsFiniteSet(A) /\ IsFiniteSet(all) /\ A \in SUBSET Nat /\ Cardinality(A) \in Nat /\ Cardinality(all) \in Nat
  BY <1>6, <1>7, FS_Subset, FS_CardinalityType
<1>9. Cardinality(A) < AREA_GROUP_NUM
  <2>1. CASE tree.root = "domain"
    <3>1. 1 \notin A
      BY <1>1, <1>3, <1>5, <2>1 DEF Of, Parent
    <3>2. 1 \in 1 .. Len(nodes) /\ A \cup {1} \in SUBSET (1 .. Len(nodes))
      BY <1>5, <1>6
    <3>3. Cardinality(A \cup {1}) = Cardinality(A) + 1
      BY <1>8, <3>1, FS_AddElement
    <3>4. Cardinality(A \cup {1}) <= Cardinality(1 .. Len(nodes)) /\ Cardinality(1 .. Len(nodes)) = Len(nodes)
      BY <1>5, <1>7, <3>2, FS_Subset, FirstNumbers
    <3> QED BY <1>2, <1>5, <1>8, <3>3, <3>4
  <2>2. CASE tree.root = "area"
    <3>1. Cardinality(A) <= Cardinality(all) /\ Cardinality(all) < AREA_GROUP_NUM
      BY <1>4, <1>6, <1>8, <2>2, FS_Subset
    <3> QED BY <1>2, <1>8, <3>1
  <2> QED BY <1>4, <2>1, <2>2
<1>10. ASSUME NEW i \in A
       PROVE  nodes[i].id = Cardinality(UpTo(A, i)) /\ nodes[i].id \in DOMAIN tree.in
  <2>1. i \in all /\ nodes[i] = top[i] /\ i \in 1 .. Len(nodes)
    BY <1>3, <1>5, <1>6
  <2>2. ASSUME NEW j \in all, j <= i
        PROVE  j \in A
    <3>1. j \in 1 .. Len(nodes)
      BY <1>5, <1>6, <2>1, <2>2
    <3> QED BY <1>3, <1>5, <3>1 DEF Of
  <2>3. UpTo(A, i) = UpTo(all, i)
    BY <1>6, <2>2 DEF UpTo
  <2> QED BY <1>4, <2>1, <2>3
<1> QED BY <1>2, <1>3, <1>5, <1>8, <1>9, <1>10 DEF nodes, top

\* GetTop fills the three lists of the walk.
LEMMA TopLists ==
  ASSUME tree \in Trees, GetTop
  PROVE  LET n == Cardinality(Of(TopAnswer, "area")) IN
         /\ n \in 0 .. AREA_GROUP_NUM - 1
         /\ areaList' \in Groups /\ Len(areaList') = 1 + n
         /\ areaList'[1].area = 0 /\ areaList'[1].childNum = Len(deviceList')
         /\ \A k \in 1 .. n : areaList'[k + 1].area = k /\ areaList'[k + 1].childNum = 0
         /\ deviceList' \in Seq(NodesOf(tree))
         /\ \A i \in DOMAIN deviceList' : IsIn(deviceList'[i], 0)
         /\ todo' \in Seq(NodesOf(tree))
         /\ \A k \in DOMAIN todo' :
              /\ todo'[k].id \in 1 .. n /\ todo'[k].id \in DOMAIN tree.in
              /\ \A l \in DOMAIN todo' : k < l => todo'[k].id < todo'[l].id
<1> DEFINE nodes == TopAnswer
           A     == Of(nodes, "area")
           D     == Of(nodes, "device")
           n     == Cardinality(A)
           N     == NodesOf(tree)
<1>1. /\ nodes \in Seq(N) /\ Len(nodes) \in 1 .. AREA_GROUP_NUM
      /\ \A i \in DOMAIN nodes : i \in DOMAIN TopLevel(tree) /\ nodes[i] = TopLevel(tree)[i]
      /\ A \in SUBSET Nat /\ IsFiniteSet(A) /\ n \in 0 .. AREA_GROUP_NUM - 1
      /\ \A i \in A : nodes[i].id = Cardinality(UpTo(A, i)) /\ nodes[i].id \in DOMAIN tree.in
  BY TopAnswerIs
<1>2. areaList' = TopGroups(nodes) /\ deviceList' = Devices(nodes) /\ todo' = Areas(Tail(nodes))
  BY DEF GetTop
<1> HIDE DEF nodes, N
<1>3. AREA_GROUP_NUM \in Nat \ {0} /\ CHILD_NODE_NUM \in Nat /\ MostRows = CHILD_NODE_NUM + AREA_GROUP_NUM
      /\ DOMAIN nodes = 1 .. Len(nodes) /\ n \in Nat /\ Len(nodes) \in Nat
  BY <1>1, Bounds DEF MostRows
<1>4. /\ Devices(nodes) \in Seq(N) /\ Len(Devices(nodes)) = Cardinality(D) /\ Cardinality(D) \in 0 .. Len(nodes)
      /\ \A i \in DOMAIN Devices(nodes) : \E j \in D : Devices(nodes)[i] = nodes[j]
  <2>1. D \in SUBSET (DOMAIN nodes)
    BY DEF Of
  <2> QED BY <1>1, <2>1, PickType DEF Devices
<1>5. /\ Areas(nodes) \in Seq(N) /\ DOMAIN Areas(nodes) = 1 .. n
      /\ \A k \in 1 .. n : Areas(nodes)[k].id = k
  <2>1. A \in SUBSET (DOMAIN nodes)
    BY DEF Of
  <2>2. /\ Areas(nodes) \in Seq(N) /\ DOMAIN Areas(nodes) = 1 .. n
        /\ \A k \in 1 .. n : Areas(nodes)[k] = nodes[Places(A)[k]] /\ Places(A)[k] \in A
    BY <1>1, <2>1, PickType DEF Areas
  <2>3. \A k \in 1 .. n : Cardinality(UpTo(A, Places(A)[k])) = k
    BY <1>1, PlacesAscend
  <2> QED BY <1>1, <2>2, <2>3
<1>6. ASSUME NEW i \in DOMAIN deviceList'
      PROVE  IsIn(deviceList'[i], 0)
  <2>1. PICK j \in D : deviceList'[i] = nodes[j]
    BY <1>2, <1>4
  <2>2. j \in Of(TopLevel(tree), "device") /\ TopLevel(tree)[j] = nodes[j]
    BY <1>1 DEF Of
  <2> QED BY <2>1, <2>2 DEF IsIn
<1>7. /\ areaList' \in Groups /\ Len(areaList') = 1 + n
      /\ areaList'[1].area = 0 /\ areaList'[1].childNum = Len(deviceList')
      /\ \A k \in 1 .. n : areaList'[k + 1].area = k /\ areaList'[k + 1].childNum = 0
  <2> DEFINE first == [area |-> 0, childNum |-> Len(Devices(nodes))]
             rest  == [k \in DOMAIN Areas(nodes) |-> [area |-> Areas(nodes)[k].id, childNum |-> 0]]
             list  == <<first>> \o rest
  <2>1. first \in Entry /\ first.area = 0 /\ first.childNum = Len(deviceList')
    BY <1>1, <1>2, <1>3, <1>4 DEF Entry
  <2>2. /\ rest \in Seq(Entry) /\ Len(rest) = n
        /\ \A k \in 1 .. n : rest[k].area = k /\ rest[k].childNum = 0
    <3>1. rest = [k \in 1 .. n |-> [area |-> k, childNum |-> 0]]
      BY <1>5
    <3>2. \A k \in 1 .. n : [area |-> k, childNum |-> 0] \in Entry
      BY <1>3 DEF Entry
    <3> HIDE DEF rest
    <3> QED BY <1>3, <3>1, <3>2
  <2>3. areaList' = FirstOf(list, AREA_GROUP_NUM)
    BY <1>2 DEF TopGroups
  <2> HIDE DEF first, rest
  <2>4. /\ list \in Seq(Entry) /\ Len(list) = 1 + n
        /\ \A k \in 1 .. 1 + n : list[k] = IF k <= 1 THEN <<first>>[k] ELSE rest[k - 1]
    <3>1. <<first>> \in Seq(Entry) /\ Len(<<first>>) = 1
      BY <2>1
    <3> QED BY <2>2, <3>1, ConcatProperties
  <2> HIDE DEF list
  <2>5. /\ areaList' \in Seq(Entry) /\ Len(areaList') = 1 + n
        /\ \A k \in DOMAIN areaList' : areaList'[k] = list[k]
    <3>1. /\ areaList' \in Seq(Entry)
          /\ Len(areaList') = IF Len(list) < AREA_GROUP_NUM THEN Len(list) ELSE AREA_GROUP_NUM
          /\ \A k \in DOMAIN areaList' : areaList'[k] = list[k]
      BY <1>3, <2>3, <2>4, FirstOfType
    <3> QED BY <1>1, <1>3, <2>4, <3>1
  <2>6. areaList'[1] = first /\ \A k \in 1 .. n : areaList'[k + 1] = rest[k]
    <3>1. DOMAIN areaList' = 1 .. 1 + n
      BY <2>5
    <3>2. 1 \in 1 .. 1 + n /\ \A k \in 1 .. n : k + 1 \in 1 .. 1 + n /\ ~ (k + 1 <= 1) /\ (k + 1) - 1 = k
      BY <1>3
    <3> QED BY <2>4, <2>5, <3>1, <3>2
  <2> QED BY <2>1, <2>2, <2>5, <2>6 DEF Groups
<1>8. /\ todo' \in Seq(N)
      /\ \A k \in DOMAIN todo' :
           /\ todo'[k].id \in 1 .. n /\ todo'[k].id \in DOMAIN tree.in
           /\ \A l \in DOMAIN todo' : k < l => todo'[k].id < todo'[l].id
  <2> DEFINE tail == Tail(nodes)
             T    == Of(tail, "area")
  <2>1. /\ tail \in Seq(N) /\ Len(tail) = Len(nodes) - 1
        /\ \A i \in 1 .. Len(tail) : tail[i] = nodes[i + 1]
    <3>1. nodes # <<>>
      BY <1>1
    <3> QED BY <1>1, <3>1, HeadTailProperties
  <2>2. T \in SUBSET (DOMAIN tail) /\ \A i \in T : i \in Nat /\ i + 1 \in A /\ tail[i] = nodes[i + 1]
    <3>1. DOMAIN tail = 1 .. Len(tail)
      BY <2>1
    <3>2. ASSUME NEW i \in T
          PROVE  i \in Nat /\ i + 1 \in A /\ tail[i] = nodes[i + 1]
      <4>1. i \in 1 .. Len(tail) /\ tail[i].kind = "area"
        BY <3>1 DEF Of
      <4>2. i + 1 \in 1 .. Len(nodes) /\ tail[i] = nodes[i + 1] /\ i \in Nat
        BY <1>3, <2>1, <4>1
      <4> QED BY <1>3, <4>1, <4>2 DEF Of
    <3> QED BY <3>2 DEF Of
  <2> HIDE DEF tail, T
  <2>3. /\ todo' \in Seq(N) /\ DOMAIN todo' = 1 .. Cardinality(T) /\ IsFiniteSet(T) /\ T \in SUBSET Nat
        /\ \A k \in 1 .. Cardinality(T) : todo'[k] = tail[Places(T)[k]] /\ Places(T)[k] \in T
    <3>1. todo' = Pick(tail, T)
      BY <1>2 DEF Areas, tail, T
    <3> QED BY <2>1, <2>2, <3>1, PickType
  <2>4. \A k, l \in 1 .. Cardinality(T) : k < l => Places(T)[k] < Places(T)[l]
    BY <2>3, PlacesAscend
  <2>5. ASSUME NEW k \in DOMAIN todo'
        PROVE  /\ Places(T)[k] \in Nat /\ Places(T)[k] + 1 \in A
               /\ todo'[k].id = Cardinality(UpTo(A, Places(T)[k] + 1))
               /\ todo'[k].id \in DOMAIN tree.in
    BY <1>1, <2>2, <2>3
  <2>6. ASSUME NEW k \in DOMAIN todo'
        PROVE  todo'[k].id \in 1 .. n
    BY <1>1, <2>5, PlacesAscend
  <2>7. ASSUME NEW k \in DOMAIN todo', NEW l \in DOMAIN todo', k < l
        PROVE  todo'[k].id < todo'[l].id
    <3>1. Places(T)[k] < Places(T)[l]
      BY <2>3, <2>4, <2>7
    <3>2. Places(T)[k] + 1 < Places(T)[l] + 1
      BY <2>5, <3>1
    <3> QED BY <1>1, <2>5, <3>2, UpToGrows
  <2> QED BY <2>3, <2>5, <2>6, <2>7
<1> QED BY <1>1, <1>2, <1>4, <1>6, <1>7, <1>8 DEF nodes, N

-----------------------------------------------------------------------------
\* The steps of the walk.

\* The first answer: the default entry counts its devices, and no area does yet.
LEMMA GetTopStep ==
  ASSUME TreeInv, GetTop
  PROVE  TreeInv'
<1> DEFINE n == Cardinality(Of(TopAnswer, "area"))
<1>1. /\ at = "walk" /\ at' = "areas" /\ tree \in Trees /\ selected \in Seq(Nat)
      /\ UNCHANGED <<tree, arrays, choice, playing, taps>>
  BY DEF GetTop, TreeInv, WalkInv, TreeTypeOK
<1>2. /\ n \in 0 .. AREA_GROUP_NUM - 1
      /\ areaList' \in Groups /\ Len(areaList') = 1 + n
      /\ areaList'[1].area = 0 /\ areaList'[1].childNum = Len(deviceList')
      /\ \A k \in 1 .. n : areaList'[k + 1].area = k /\ areaList'[k + 1].childNum = 0
      /\ deviceList' \in Seq(NodesOf(tree))
      /\ \A i \in DOMAIN deviceList' : IsIn(deviceList'[i], 0)
      /\ todo' \in Seq(NodesOf(tree))
      /\ \A k \in DOMAIN todo' :
           /\ todo'[k].id \in 1 .. n /\ todo'[k].id \in DOMAIN tree.in
           /\ \A l \in DOMAIN todo' : k < l => todo'[k].id < todo'[l].id
  BY <1>1, TopLists
<1> HIDE DEF n
<1>3. /\ DOMAIN areaList' = 1 .. 1 + n /\ n \in Nat /\ AREA_GROUP_NUM \in Nat
      /\ DOMAIN deviceList' = 1 .. Len(deviceList') /\ Len(deviceList') \in Nat
  BY <1>2, GroupType, Bounds
<1>4. ASSUME NEW g \in DOMAIN areaList'
      PROVE  areaList'[g].area = g - 1 /\ (g > 1 => areaList'[g].childNum = 0) /\ g \in Nat /\ g >= 1
  <2>1. CASE g = 1
    BY <1>2, <2>1
  <2>2. CASE g # 1
    <3>1. g - 1 \in 1 .. n /\ (g - 1) + 1 = g
      BY <1>3, <2>2
    <3> QED BY <1>2, <3>1
  <2> QED BY <2>1, <2>2
<1>5. TreeTypeOK'
  BY <1>1, <1>2 DEF TreeTypeOK, choice, Groups, Entry
<1>6. AreasInPlace'
  BY <1>2, <1>3, <1>4 DEF AreasInPlace
<1>7. TodoAhead'
  <2> SUFFICES ASSUME NEW k \in DOMAIN todo'
               PROVE  /\ todo'[k].id \in 1 .. Len(areaList') - 1 /\ todo'[k].id \in DOMAIN tree.in
                      /\ \A l \in DOMAIN todo' : k < l => todo'[k].id < todo'[l].id
                      /\ \A g \in DOMAIN areaList' : g > todo'[k].id => areaList'[g].childNum = 0
    BY <1>1 DEF TodoAhead
  <2>1. todo'[k].id \in 1 .. n /\ Len(areaList') - 1 = n
    BY <1>2, <1>3
  <2>2. ASSUME NEW g \in DOMAIN areaList', g > todo'[k].id
        PROVE  areaList'[g].childNum = 0
    BY <1>3, <1>4, <2>1, <2>2
  <2> QED BY <1>2, <2>1, <2>2
<1>8. Before(areaList', 1) = 0
  <2>1. {r \in RowsOf(areaList') : r[1] < 1} = {}
    BY <1>2, <1>4, RowType
  <2> QED BY <2>1, FS_EmptySet DEF Before
<1>9. Listed'
  <2>1. Cardinality(RowsOf(areaList')) = Len(deviceList')
    <3>1. 1 \in DOMAIN areaList' /\ \A k \in DOMAIN areaList' : k > 1 => areaList'[k].childNum = 0
      BY <1>3, <1>4
    <3>2. Cardinality(RowsOf(areaList')) = Before(areaList', 1) + areaList'[1].childNum
      BY <1>2, <3>1, LastRows
    <3> QED BY <1>2, <1>3, <1>8, <3>2
  <2>2. ASSUME NEW r \in RowsOf(areaList')
        PROVE  LET i == Before(areaList', r[1]) + r[2] + 1
               IN  i \in DOMAIN deviceList' /\ IsIn(deviceList'[i], areaList'[r[1]].area)
    <3>1. PICK g \in DOMAIN areaList', q \in Nat : r = <<g, q>> /\ q < areaList'[g].childNum
      BY <1>2, RowType
    <3>2. g = 1
      BY <1>4, <3>1
    <3>3. q + 1 \in DOMAIN deviceList' /\ Before(areaList', r[1]) + r[2] + 1 = q + 1
      BY <1>2, <1>3, <1>8, <3>1, <3>2
    <3> QED BY <1>2, <3>1, <3>2, <3>3
  <2>3. ASSUME NEW d, NEW a, IsIn(d, a)
        PROVE  IsIn(d, a)'
    BY <1>1, <2>3 DEF IsIn
  <2> QED BY <2>1, <2>2, <2>3 DEF Listed, Childs
<1>10. Made'
  BY <1>1 DEF TreeInv, Made, arrays, choice
<1> QED BY <1>5, <1>6, <1>7, <1>9, <1>10 DEF TreeInv, WalkInv

\* No first answer leaves the lists empty.
LEMMA GetNothingStep ==
  ASSUME TreeInv, GetNothing
  PROVE  TreeInv'
<1>1. at = "walk" /\ at' = "areas" /\ UNCHANGED <<walk, arrays, choice, playing, taps>>
  BY DEF GetNothing
<1>2. TreeTypeOK' /\ AreasInPlace' /\ TodoAhead'
  BY <1>1 DEF TreeInv, WalkInv, TreeTypeOK, AreasInPlace, TodoAhead, walk, choice
<1>3. Listed'
  BY <1>1 DEF TreeInv, WalkInv, Listed, Childs, IsIn, walk
<1>4. Made'
  BY <1>1 DEF TreeInv, Made, walk, arrays, choice
<1> QED BY <1>2, <1>3, <1>4 DEF TreeInv, WalkInv

\* The first of the areas still to be asked for is behind all that is counted; the
\* others are behind it.
LEMMA NextArea ==
  ASSUME TreeInv, todo # <<>>
  PROVE  /\ Tail(todo) \in Seq(NodesOf(tree))
         /\ Head(todo).id \in 1 .. Len(areaList) - 1 /\ Head(todo).id \in DOMAIN tree.in
         /\ \A g \in DOMAIN areaList : g > Head(todo).id => areaList[g].childNum = 0
         /\ \A k \in DOMAIN Tail(todo) :
              /\ Tail(todo)[k].id > Head(todo).id
              /\ Tail(todo)[k].id \in 1 .. Len(areaList) - 1 /\ Tail(todo)[k].id \in DOMAIN tree.in
              /\ \A l \in DOMAIN Tail(todo) : k < l => Tail(todo)[k].id < Tail(todo)[l].id
<1>1. todo \in Seq(NodesOf(tree)) /\ TodoAhead
  BY DEF TreeInv, WalkInv, TreeTypeOK
<1>2. /\ DOMAIN todo = 1 .. Len(todo) /\ Len(todo) \in Nat /\ 1 \in DOMAIN todo /\ Head(todo) = todo[1]
      /\ Tail(todo) \in Seq(NodesOf(tree)) /\ Len(Tail(todo)) = Len(todo) - 1
      /\ \A k \in 1 .. Len(Tail(todo)) : Tail(todo)[k] = todo[k + 1]
  BY <1>1, HeadTailProperties
<1>3. ASSUME NEW k \in DOMAIN Tail(todo)
      PROVE  k \in Nat /\ 1 < k + 1 /\ k + 1 \in DOMAIN todo /\ Tail(todo)[k] = todo[k + 1]
  <2>1. k \in 1 .. Len(Tail(todo))
    BY <1>2
  <2> QED BY <1>2, <2>1
<1>4. /\ Head(todo).id \in 1 .. Len(areaList) - 1 /\ Head(todo).id \in DOMAIN tree.in
      /\ \A g \in DOMAIN areaList : g > Head(todo).id => areaList[g].childNum = 0
  BY <1>1, <1>2 DEF TodoAhead
<1>5. ASSUME NEW k \in DOMAIN Tail(todo)
      PROVE  /\ Tail(todo)[k].id > Head(todo).id
             /\ Tail(todo)[k].id \in 1 .. Len(areaList) - 1 /\ Tail(todo)[k].id \in DOMAIN tree.in
  <2>1. /\ todo[1].id < todo[k + 1].id
        /\ todo[k + 1].id \in 1 .. Len(areaList) - 1 /\ todo[k + 1].id \in DOMAIN tree.in
    BY <1>1, <1>2, <1>3 DEF TodoAhead
  <2> QED BY <1>2, <1>3, <1>4, <2>1
<1>6. ASSUME NEW k \in DOMAIN Tail(todo), NEW l \in DOMAIN Tail(todo), k < l
      PROVE  Tail(todo)[k].id < Tail(todo)[l].id
  <2>1. k + 1 < l + 1
    BY <1>3, <1>6
  <2> QED BY <1>1, <1>3, <2>1 DEF TodoAhead
<1> QED BY <1>2, <1>4, <1>5, <1>6

\* An area that is passed over counts nothing.
LEMMA PassAreaStep ==
  ASSUME TreeInv, PassArea
  PROVE  TreeInv'
<1>1. /\ at = "areas" /\ todo # <<>> /\ todo' = Tail(todo)
      /\ UNCHANGED <<tree, areaList, deviceList, at, arrays, choice, playing, taps>>
  BY DEF PassArea
<1>2. areaList \in Groups
  BY DEF TreeInv, WalkInv, TreeTypeOK, Groups, Entry
<1>3. TreeTypeOK' /\ AreasInPlace'
  BY <1>1, NextArea DEF TreeInv, WalkInv, TreeTypeOK, AreasInPlace, choice
<1>4. TodoAhead'
  <2>1. ASSUME NEW k \in DOMAIN todo', NEW g \in DOMAIN areaList, g > todo'[k].id
        PROVE  areaList[g].childNum = 0
    <3>1. g \in Nat /\ todo'[k].id > Head(todo).id /\ todo'[k].id \in Nat /\ Head(todo).id \in Nat
      BY <1>1, <1>2, NextArea, GroupType
    <3>2. g > Head(todo).id
      BY <2>1, <3>1
    <3> QED BY <1>1, <3>2, NextArea
  <2> QED BY <1>1, <2>1, NextArea DEF TodoAhead
<1>5. Listed'
  BY <1>1 DEF TreeInv, WalkInv, Listed, Childs, IsIn
<1>6. Made'
  BY <1>1 DEF TreeInv, Made, arrays, choice
<1> QED BY <1>3, <1>4, <1>5, <1>6 DEF TreeInv, WalkInv

\* An area's answer: its entry counts its devices, the last of the list.
LEMMA GetAreaStep ==
  ASSUME TreeInv, GetArea
  PROVE  TreeInv'
<1> DEFINE a   == Head(todo).id
           ans == AreaAnswer(a)
           N   == NodesOf(tree)
<1>1. /\ at = "areas" /\ todo # <<>> /\ todo' = Tail(todo)
      /\ areaList' = [areaList EXCEPT ![a + 1].childNum = Len(ans)]
      /\ deviceList' = deviceList \o ans
      /\ UNCHANGED <<tree, at, arrays, choice, playing, taps>>
  BY DEF GetArea
<1>2. /\ Tail(todo) \in Seq(N) /\ a \in 1 .. Len(areaList) - 1 /\ a \in DOMAIN tree.in
      /\ \A g \in DOMAIN areaList : g > a => areaList[g].childNum = 0
      /\ \A k \in DOMAIN Tail(todo) :
           /\ Tail(todo)[k].id > a
           /\ Tail(todo)[k].id \in 1 .. Len(areaList) - 1 /\ Tail(todo)[k].id \in DOMAIN tree.in
           /\ \A l \in DOMAIN Tail(todo) : k < l => Tail(todo)[k].id < Tail(todo)[l].id
  BY <1>1, NextArea
<1>3. /\ tree \in Trees /\ areaList \in Groups /\ deviceList \in Seq(N)
      /\ AreasInPlace /\ Listed /\ selected \in Seq(Nat)
  BY DEF TreeInv, WalkInv, TreeTypeOK, Groups, Entry
<1>4. /\ ans \in Seq(N) /\ Len(ans) \in Nat /\ Len(ans) <= MostRows
      /\ \A q \in 1 .. Len(ans) : ans[q] \in ToSet(tree.in[a])
  <2>1. tree.in[a] \in Seq(N)
    BY <1>2, <1>3, TreeNodes
  <2>2. /\ ans \in Seq(N) /\ Len(ans) = IF Len(tree.in[a]) < CHILD_NODE_NUM THEN Len(tree.in[a]) ELSE CHILD_NODE_NUM
        /\ \A i \in DOMAIN ans : i \in DOMAIN tree.in[a] /\ ans[i] = tree.in[a][i]
    BY <2>1, Bounds, FirstOfType DEF AreaAnswer
  <2>3. Len(ans) <= CHILD_NODE_NUM /\ Len(ans) \in Nat /\ DOMAIN ans = 1 .. Len(ans)
    BY <2>1, <2>2, Bounds
  <2>4. Len(ans) <= MostRows
    BY <2>3, Bounds DEF MostRows
  <2> QED BY <2>2, <2>3, <2>4 DEF ToSet
<1>5. a \in Nat /\ a # 0 /\ a + 1 \in DOMAIN areaList /\ DOMAIN areaList = 1 .. Len(areaList) /\ Len(areaList) \in Nat
      /\ \A g \in DOMAIN areaList : g \in Nat
  BY <1>2, <1>3, GroupType
<1> HIDE DEF a, ans, N
<1>6. /\ areaList' \in Groups /\ Len(areaList') = Len(areaList) /\ DOMAIN areaList' = DOMAIN areaList
      /\ areaList'[a + 1].childNum = Len(ans)
      /\ \A g \in DOMAIN areaList : /\ areaList'[g].area = areaList[g].area
                                    /\ g # a + 1 => areaList'[g] = areaList[g]
  <2> DEFINE e == [areaList[a + 1] EXCEPT !.childNum = Len(ans)]
  <2>1. areaList[a + 1] \in Entry
    BY <1>3, <1>5, ElementOfSeq DEF Groups
  <2>2. e \in Entry /\ e.area = areaList[a + 1].area /\ e.childNum = Len(ans)
    BY <1>4, <2>1, Bounds DEF Entry
  <2>3. areaList' = [areaList EXCEPT ![a + 1] = e]
    BY <1>1
  <2> HIDE DEF e
  <2>4. /\ areaList' \in Seq(Entry) /\ Len(areaList') = Len(areaList)
        /\ \A g \in 1 .. Len(areaList) : areaList'[g] = IF g = a + 1 THEN e ELSE areaList[g]
    BY <1>3, <1>5, <2>2, <2>3, ExceptSeq DEF Groups
  <2> QED BY <1>5, <2>2, <2>4 DEF Groups
<1>7. /\ deviceList' \in Seq(N) /\ Len(deviceList') = Len(deviceList) + Len(ans)
      /\ DOMAIN deviceList = 1 .. Len(deviceList) /\ DOMAIN deviceList' = 1 .. Len(deviceList) + Len(ans)
      /\ Len(deviceList) \in Nat
      /\ \A i \in 1 .. Len(deviceList) + Len(ans) :
           deviceList'[i] = IF i <= Len(deviceList) THEN deviceList[i] ELSE ans[i - Len(deviceList)]
  <2>1. /\ deviceList' \in Seq(N) /\ Len(deviceList') = Len(deviceList) + Len(ans)
        /\ \A i \in 1 .. Len(deviceList) + Len(ans) :
             deviceList'[i] = IF i <= Len(deviceList) THEN deviceList[i] ELSE ans[i - Len(deviceList)]
    BY <1>1, <1>3, <1>4, ConcatProperties
  <2> QED BY <1>3, <2>1
\* The rows before the new ones are as they were.
<1>8. ASSUME NEW g \in DOMAIN areaList, g <= a + 1
      PROVE  {r \in RowsOf(areaList') : r[1] < g} = {r \in RowsOf(areaList) : r[1] < g}
  <2>1. ASSUME NEW r, r[1] < g
        PROVE  r \in RowsOf(areaList') <=> r \in RowsOf(areaList)
    <3>1. ASSUME NEW h \in DOMAIN areaList, h < g
          PROVE  areaList'[h] = areaList[h]
      BY <1>5, <1>6, <1>8, <3>1
    <3>2. ASSUME r \in RowsOf(areaList')
          PROVE  r \in RowsOf(areaList)
      <4>1. PICK h \in DOMAIN areaList, q \in Nat : r = <<h, q>> /\ q < areaList'[h].childNum
        BY <1>6, <3>2, RowType
      <4>2. areaList'[h] = areaList[h]
        BY <2>1, <3>1, <4>1
      <4> QED BY <1>3, <4>1, <4>2, RowType
    <3>3. ASSUME r \in RowsOf(areaList)
          PROVE  r \in RowsOf(areaList')
      <4>1. PICK h \in DOMAIN areaList, q \in Nat : r = <<h, q>> /\ q < areaList[h].childNum
        BY <1>3, <3>3, RowType
      <4>2. areaList'[h] = areaList[h]
        BY <2>1, <3>1, <4>1
      <4> QED BY <1>6, <4>1, <4>2, RowType
    <3> QED BY <3>2, <3>3
  <2> QED BY <2>1
<1>9. \A g \in DOMAIN areaList : g <= a + 1 => Before(areaList', g) = Before(areaList, g)
  BY <1>8 DEF Before
<1>10. Before(areaList, a + 1) = Len(deviceList) /\ Before(areaList', a + 1) = Len(deviceList)
  <2>1. ASSUME NEW r \in RowsOf(areaList)
        PROVE  r[1] < a + 1
    <3>1. PICK g \in DOMAIN areaList, q \in Nat : r = <<g, q>> /\ q < areaList[g].childNum
      BY <1>3, RowType
    <3>2. ~ (g > a)
      BY <1>2, <3>1
    <3> QED BY <1>5, <3>1, <3>2
  <2>2. {r \in RowsOf(areaList) : r[1] < a + 1} = RowsOf(areaList)
    BY <2>1
  <2>3. Before(areaList, a + 1) = Len(deviceList)
    BY <1>3, <2>2 DEF Before, Listed, Childs
  <2>4. a + 1 <= a + 1
    BY <1>5
  <2> QED BY <1>5, <1>9, <2>3, <2>4
<1>11. Cardinality(RowsOf(areaList')) = Len(deviceList')
  <2>1. \A g \in DOMAIN areaList' : g > a + 1 => areaList'[g].childNum = 0
    BY <1>2, <1>5, <1>6
  <2>2. Cardinality(RowsOf(areaList')) = Before(areaList', a + 1) + areaList'[a + 1].childNum
    BY <1>5, <1>6, <2>1, LastRows
  <2> QED BY <1>6, <1>7, <1>10, <2>2
<1>12. Listed'
  <2>1. ASSUME NEW r \in RowsOf(areaList')
        PROVE  LET i == Before(areaList', r[1]) + r[2] + 1
               IN  i \in DOMAIN deviceList' /\ IsIn(deviceList'[i], areaList'[r[1]].area)
    <3>1. PICK g \in DOMAIN areaList, q \in Nat : r = <<g, q>> /\ q < areaList'[g].childNum
      BY <1>6, RowType
    <3>2. CASE g < a + 1
      <4>1. areaList'[g] = areaList[g] /\ Before(areaList', g) = Before(areaList, g)
        BY <1>5, <1>6, <1>9, <3>2
      <4>2. r \in RowsOf(areaList)
        BY <1>3, <3>1, <4>1, RowType
      <4>3. LET i == Before(areaList, g) + q + 1
            IN  i \in DOMAIN deviceList /\ IsIn(deviceList[i], areaList[g].area)
        BY <1>3, <3>1, <4>2 DEF Listed
      <4>4. Before(areaList, g) + q + 1 \in 1 .. Len(deviceList)
        BY <1>7, <4>3
      <4>5. /\ Before(areaList, g) + q + 1 \in DOMAIN deviceList'
            /\ deviceList'[Before(areaList, g) + q + 1] = deviceList[Before(areaList, g) + q + 1]
        BY <1>4, <1>7, <4>4
      <4> QED BY <3>1, <4>1, <4>3, <4>5
    <3>3. CASE g = a + 1
      <4>1. Before(areaList', g) + q + 1 = Len(deviceList) + (q + 1) /\ q + 1 \in 1 .. Len(ans)
        <5>1. q < Len(ans)
          BY <1>6, <3>1, <3>3
        <5>2. q + 1 \in 1 .. Len(ans)
          BY <1>4, <3>1, <5>1
        <5> QED BY <1>7, <1>10, <3>1, <3>3, <5>2
      <4>2. /\ Len(deviceList) + (q + 1) \in DOMAIN deviceList'
            /\ deviceList'[Len(deviceList) + (q + 1)] = ans[q + 1]
        BY <1>4, <1>7, <4>1
      <4>3. areaList'[g].area = a
        BY <1>3, <1>5, <1>6, <3>3 DEF AreasInPlace
      <4>4. IsIn(ans[q + 1], a)
        BY <1>2, <1>4, <1>5, <4>1 DEF IsIn
      <4> QED BY <3>1, <4>1, <4>2, <4>3, <4>4
    <3>4. ~ (g > a + 1)
      <4>1. g > a + 1 => areaList'[g].childNum = 0
        BY <1>2, <1>5, <1>6
      <4>2. q < areaList'[g].childNum => areaList'[g].childNum # 0
        BY <3>1
      <4> QED BY <3>1, <4>1, <4>2
    <3> QED BY <1>5, <3>2, <3>3, <3>4
  <2>2. ASSUME NEW d, NEW b, IsIn(d, b)
        PROVE  IsIn(d, b)'
    BY <1>1, <2>2 DEF IsIn
  <2> QED BY <1>11, <2>1, <2>2 DEF Listed, Childs
<1>13. TreeTypeOK'
  BY <1>1, <1>2, <1>3, <1>6, <1>7 DEF TreeInv, WalkInv, TreeTypeOK, choice, Groups, Entry, N
<1>14. AreasInPlace'
  BY <1>3, <1>6 DEF AreasInPlace
<1>15. TodoAhead'
  <2> SUFFICES ASSUME NEW k \in DOMAIN todo'
               PROVE  /\ todo'[k].id \in 1 .. Len(areaList') - 1 /\ todo'[k].id \in DOMAIN tree.in
                      /\ \A l \in DOMAIN todo' : k < l => todo'[k].id < todo'[l].id
                      /\ \A g \in DOMAIN areaList' : g > todo'[k].id => areaList'[g].childNum = 0
    BY <1>1 DEF TodoAhead
  <2>1. todo'[k].id > a /\ todo'[k].id \in Nat
    BY <1>1, <1>2
  <2>2. ASSUME NEW g \in DOMAIN areaList', g > todo'[k].id
        PROVE  areaList'[g].childNum = 0
    <3>1. g > a + 1 /\ g \in DOMAIN areaList
      BY <1>5, <1>6, <2>1, <2>2
    <3> QED BY <1>2, <1>5, <1>6, <3>1
  <2> QED BY <1>1, <1>2, <1>6, <2>2
<1>16. Made'
  BY <1>1 DEF TreeInv, Made, arrays, choice
<1> QED BY <1>12, <1>13, <1>14, <1>15, <1>16 DEF TreeInv, WalkInv

-----------------------------------------------------------------------------
\* The arrays and the choice.

\* What the walk has made stays as it is afterwards.
LEMMA WalkKept ==
  ASSUME WalkInv, UNCHANGED walk, selected' \in Seq(Nat),
         at' \in {"walk", "areas", "list", "shown", "playing"}
  PROVE  WalkInv'
<1>1. TreeTypeOK' /\ AreasInPlace' /\ TodoAhead'
  BY DEF WalkInv, TreeTypeOK, AreasInPlace, TodoAhead, walk
<1>2. Listed'
  BY DEF WalkInv, Listed, Childs, IsIn, walk
<1> QED BY <1>1, <1>2 DEF WalkInv

\* The arrays are what they were as long as the list of devices is.
LEMMA SameArrays ==
  ASSUME UNCHANGED walk
  PROVE  Statuses' = Statuses /\ Names' = Names /\ Filled' = Filled
BY DEF walk, Statuses, Names, StatusOf, CameraPlaces, CamerasAt, Filled

\* The arrays are filled once, from the whole list.
LEMMA FillArraysStep ==
  ASSUME TreeInv, FillArrays
  PROVE  TreeInv'
<1>1. /\ at = "areas" /\ todo = <<>> /\ at' = "list" /\ camStatus' = Statuses /\ camName' = Names
      /\ UNCHANGED <<walk, groups, choice, playing, taps>>
  BY DEF FillArrays
<1>2. WalkInv'
  BY <1>1, WalkKept DEF TreeInv, WalkInv, TreeTypeOK, choice
<1>3. Made'
  <2>1. groups = <<>> /\ selected = <<>> /\ playing = <<>>
    BY <1>1 DEF TreeInv, Made
  <2> QED BY <1>1, <2>1, SameArrays DEF Made, choice, walk
<1> QED BY <1>2, <1>3 DEF TreeInv

\* The groups are made once, of the entries that count anything.
LEMMA CreateListViewsStep ==
  ASSUME TreeInv, CreateListViews
  PROVE  TreeInv'
<1>1. /\ at = "list" /\ at' = "shown" /\ groups' = Pick(areaList, Filled)
      /\ UNCHANGED <<walk, camStatus, camName, choice, playing, taps>>
  BY DEF CreateListViews
<1>2. WalkInv'
  BY <1>1, WalkKept DEF TreeInv, WalkInv, TreeTypeOK, choice
<1>3. Made'
  <2>1. /\ todo = <<>> /\ camStatus = Statuses /\ camName = Names
        /\ selected = <<>> /\ playing = <<>>
    BY <1>1 DEF TreeInv, Made
  <2>2. areaList' = areaList /\ selected' = selected
    BY <1>1 DEF walk, choice
  <2> QED BY <1>1, <2>1, <2>2, SameArrays DEF Made, walk
<1> QED BY <1>2, <1>3 DEF TreeInv

\* What is chosen with a choice taken back was chosen before.
LEMMA TakenBack ==
  ASSUME NEW s \in Seq(Nat), NEW e
  PROVE  /\ RemoveFirst(s, e) \in Seq(Nat)
         /\ \A k \in DOMAIN RemoveFirst(s, e) : \E j \in DOMAIN s : RemoveFirst(s, e)[k] = s[j]
<1>1. DOMAIN s = 1 .. Len(s) /\ Len(s) \in Nat
  OBVIOUS
<1>2. CASE ~ \E i \in 1 .. Len(s) : s[i] = e
  BY <1>1, <1>2 DEF RemoveFirst
<1>3. CASE \E i \in 1 .. Len(s) : s[i] = e
  <2> DEFINE I == {i \in 1 .. Len(s) : s[i] = e}
             m == Min(I)
  <2>1. RemoveFirst(s, e) = SubSeq(s, 1, m - 1) \o SubSeq(s, m + 1, Len(s))
    BY <1>3 DEF RemoveFirst, RemoveAt, SelectInSeq
  <2>2. m \in 1 .. Len(s)
    <3>1. I \in SUBSET (1 .. Len(s)) /\ I # {} /\ I \in SUBSET Nat
      BY <1>1, <1>3
    <3>2. IsFiniteSet(I) /\ Cardinality(I) \in Nat /\ Cardinality(I) # 0
      BY <1>1, <3>1, FirstNumbers, FS_Subset, FS_EmptySet, FS_CardinalityType
    <3> HIDE DEF I
    <3> DEFINE P == Places(I)
               n == Cardinality(I)
    <3>3. /\ \A k \in 1 .. n : P[k] \in I /\ \A l \in 1 .. n : k < l => P[k] < P[l]
          /\ \A i \in I : \E k \in 1 .. n : P[k] = i
      BY <3>1, <3>2, PlacesAscend
    <3> HIDE DEF P, n
    <3>4. n \in Nat /\ 1 \in 1 .. n /\ \A k \in 1 .. n : k = 1 \/ 1 < k
      BY <3>2 DEF n
    <3>5. P[1] \in I /\ \A i \in I : P[1] <= i
      <4>1. ASSUME NEW i \in I
            PROVE  P[1] <= i
        <5>1. PICK k \in 1 .. n : P[k] = i
          BY <3>3
        <5>2. i \in Nat /\ P[1] \in Nat /\ (P[1] = i \/ P[1] < i)
          BY <3>1, <3>3, <3>4, <5>1
        <5> QED BY <5>2
      <4> QED BY <3>3, <3>4, <4>1
    <3>6. m \in I
      BY <3>5 DEF Min
    <3> QED BY <3>1, <3>6
  <2> HIDE DEF m
  <2> DEFINE front == SubSeq(s, 1, m - 1)
             back  == SubSeq(s, m + 1, Len(s))
  <2>3. /\ front \in Seq(Nat) /\ Len(front) = m - 1
        /\ \A k \in 1 .. m - 1 : front[k] = s[k]
    BY <1>1, <2>2
  <2>4. /\ back \in Seq(Nat) /\ Len(back) = Len(s) - m
        /\ \A k \in 1 .. Len(s) - m : back[k] = s[m + k]
    <3>1. m \in 1 .. Len(s) /\ Len(s) \in Nat /\ m + 1 \in 1 .. Len(s) + 1 /\ (m + 1) - 1 = m
          /\ Len(s) - (m + 1) + 1 = Len(s) - m
      BY <1>1, <2>2
    <3>2. /\ back \in Seq(Nat)
          /\ Len(back) = IF m + 1 <= Len(s) THEN Len(s) - (m + 1) + 1 ELSE 0
          /\ \A k \in 1 .. Len(s) - (m + 1) + 1 : back[k] = s[(m + 1) + k - 1]
      BY <1>1, <3>1, SubSeqProperties
    <3>3. Len(back) = Len(s) - m
      <4>1. Len(back) = IF m + 1 <= Len(s) THEN Len(s) - m ELSE 0
        BY <3>1, <3>2
      <4>2. \A n \in Nat : \A j \in 1 .. n : (IF j + 1 <= n THEN n - j ELSE 0) = n - j
        <5>1. \A n \in Nat : \A j \in 1 .. n : ~ (j + 1 <= n) => n - j = 0
          BY ONLY TRUE
        <5> QED BY ONLY <5>1, Zenon
      <4>3. (IF m + 1 <= Len(s) THEN Len(s) - m ELSE 0) = Len(s) - m
        BY ONLY <3>1, <4>2, Zenon
      <4> QED BY ONLY <4>1, <4>3, Zenon
    <3>4. \A k \in 1 .. Len(s) - m : (m + 1) + k - 1 = m + k
      BY <3>1
    <3> HIDE DEF back
    <3> QED BY <3>1, <3>2, <3>3, <3>4
  <2>5. RemoveFirst(s, e) = front \o back
    BY <2>1
  <2> HIDE DEF front, back
  <2>6. /\ front \o back \in Seq(Nat) /\ Len(front \o back) = Len(front) + Len(back)
        /\ \A k \in 1 .. Len(front) + Len(back) :
             (front \o back)[k] = IF k <= Len(front) THEN front[k] ELSE back[k - Len(front)]
    BY <2>3, <2>4, ConcatProperties
  <2> DEFINE new == front \o back
  <2>7. /\ new \in Seq(Nat) /\ DOMAIN new = 1 .. (m - 1) + (Len(s) - m)
        /\ \A k \in 1 .. (m - 1) + (Len(s) - m) :
             new[k] = IF k <= m - 1 THEN front[k] ELSE back[k - (m - 1)]
    BY <2>3, <2>4, <2>6
  <2> HIDE DEF new
  <2>8. ASSUME NEW k \in DOMAIN new
        PROVE  \E j \in DOMAIN s : new[k] = s[j]
    <3>1. CASE k <= m - 1
      <4>1. k \in 1 .. m - 1 /\ k \in 1 .. Len(s)
        BY <1>1, <2>2, <2>7, <3>1
      <4> QED BY <1>1, <2>3, <2>7, <3>1, <4>1
    <3>2. CASE ~ (k <= m - 1)
      <4>1. k - (m - 1) \in 1 .. Len(s) - m /\ m + (k - (m - 1)) \in 1 .. Len(s)
        <5>1. m \in 1 .. Len(s) /\ Len(s) \in Nat /\ k \in 1 .. (m - 1) + (Len(s) - m)
          BY <1>1, <2>2, <2>7
        <5> QED BY <3>2, <5>1
      <4> QED BY <1>1, <2>4, <2>7, <3>2, <4>1
    <3> QED BY <3>1, <3>2
  <2> QED BY <2>5, <2>7, <2>8 DEF new
<1> QED BY <1>2, <1>3

\* A camera is chosen, or taken back.
LEMMA ChoiceStep ==
  ASSUME TreeInv, at = "shown", UNCHANGED <<walk, at, arrays, playing>>,
         NEW i \in Nat, Status(i) # Offline,
         selected' = Append(selected, i) \/ selected' = RemoveFirst(selected, i)
  PROVE  TreeInv'
<1>1. selected \in Seq(Nat) /\ WalkInv /\ \A k \in DOMAIN selected : Status(selected[k]) # Offline
  BY DEF TreeInv, WalkInv, TreeTypeOK, Made
<1>2. selected' \in Seq(Nat) /\ \A k \in DOMAIN selected' : Status(selected'[k]) # Offline
  <2>1. CASE selected' = Append(selected, i)
    <3>1. /\ selected' \in Seq(Nat) /\ Len(selected') = Len(selected) + 1 /\ Len(selected) \in Nat
          /\ \A k \in 1 .. Len(selected) : selected'[k] = selected[k]
          /\ selected'[Len(selected) + 1] = i
      BY <1>1, <2>1, AppendProperties
    <3>2. ASSUME NEW k \in DOMAIN selected'
          PROVE  Status(selected'[k]) # Offline
      <4>1. k \in 1 .. Len(selected) \/ k = Len(selected) + 1
        BY <3>1
      <4>2. CASE k \in 1 .. Len(selected)
        <5>1. selected'[k] = selected[k] /\ k \in DOMAIN selected
          BY <1>1, <3>1, <4>2
        <5>2. Status(selected[k]) # Offline
          BY <1>1, <5>1
        <5> QED BY <5>1, <5>2
      <4>3. CASE k = Len(selected) + 1
        BY <3>1, <4>3
      <4> QED BY <4>1, <4>2, <4>3
    <3> QED BY <3>1, <3>2
  <2>2. CASE selected' = RemoveFirst(selected, i)
    BY <1>1, <2>2, TakenBack
  <2> QED BY <2>1, <2>2
<1>3. WalkInv'
  BY <1>1, <1>2, WalkKept
<1>4. Made'
  <2>1. /\ todo = <<>> /\ camStatus = Statuses /\ camName = Names
        /\ groups = Pick(areaList, Filled) /\ playing = <<>>
    BY DEF TreeInv, Made
  <2>2. (\A k \in DOMAIN selected : Status(selected[k]) # Offline)'
    BY <1>2 DEF Status, arrays
  <2>3. /\ todo' = todo /\ areaList' = areaList /\ at' = "shown" /\ playing' = playing
        /\ camStatus' = camStatus /\ camName' = camName /\ groups' = groups
    BY DEF walk, arrays
  <2> QED BY <2>1, <2>2, <2>3, SameArrays DEF Made
<1> QED BY <1>3, <1>4 DEF TreeInv

\* The rows of the groups that are shown.
LEMMA ShownGroups ==
  ASSUME TreeInv, at \in {"shown", "playing"}
  PROVE  groups = Pick(areaList, Filled) /\ groups \in Groups /\ areaList \in Groups
<1>1. groups = Pick(areaList, Filled) /\ areaList \in Seq(Entry)
  BY DEF TreeInv, Made, WalkInv, TreeTypeOK, Entry
<1>2. Filled \in SUBSET (DOMAIN areaList)
  BY DEF Filled
<1> QED BY <1>1, <1>2, PickType DEF Groups

\* A tap on a row that is on line changes only the choice.
LEMMA TapRowStep ==
  ASSUME TreeInv, TapRow
  PROVE  TreeInv'
<1>1. at = "shown" /\ UNCHANGED <<walk, at, arrays, playing>>
  BY DEF TapRow
<1>2. PICK r \in Rows :
        LET i == ChildId(r[1], r[2])
            ticked == i \notin drawn IN
          /\ Status(i) # Offline
          /\ selected' = IF ticked THEN Append(selected, i) ELSE RemoveFirst(selected, i)
  BY DEF TapRow
<1>3. ChildId(r[1], r[2]) \in Nat
  <2>1. groups \in Groups
    BY <1>1, ShownGroups
  <2>2. PICK g \in DOMAIN groups, q \in Nat : r = <<g, q>>
    BY <2>1, RowType DEF Rows
  <2>3. Before(groups, r[1]) \in Nat /\ r[2] \in Nat
    BY <2>1, <2>2, RowsFinite
  <2> QED BY <2>3 DEF ChildId, RowsBefore
<1> QED BY <1>1, <1>2, <1>3, ChoiceStep

\* So does a tap on a row that was searched for.
LEMMA TapFoundStep ==
  ASSUME TreeInv, TapFound
  PROVE  TreeInv'
<1>1. at = "shown" /\ UNCHANGED <<walk, at, arrays, playing>>
  BY DEF TapFound
<1>2. PICK i \in 0 .. Len(camStatus) - 1 :
        LET chosen == i \notin ToSet(selected) IN
          /\ Status(i) # Offline
          /\ selected' = IF chosen THEN Append(selected, i) ELSE RemoveFirst(selected, i)
  BY DEF TapFound
<1>3. i \in Nat
  BY <1>2
<1> QED BY <1>1, <1>2, <1>3, ChoiceStep

\* Drawing a row changes not even the choice.
LEMMA DrawRowStep ==
  ASSUME TreeInv, DrawRow
  PROVE  TreeInv'
<1>1. at = "shown" /\ UNCHANGED <<walk, at, arrays, selected, playing>>
  BY DEF DrawRow
<1>2. WalkInv'
  BY <1>1, WalkKept DEF TreeInv, WalkInv, TreeTypeOK
<1>3. Made'
  <2>1. \A i : Status(i)' = Status(i)
    BY <1>1 DEF Status, arrays
  <2> QED BY <1>1, <2>1, SameArrays DEF TreeInv, Made, walk, arrays
<1> QED BY <1>2, <1>3 DEF TreeInv

\* The play screen opens what is chosen.
LEMMA StartPreviewStep ==
  ASSUME TreeInv, StartPreview
  PROVE  TreeInv'
<1>1. /\ at = "shown" /\ at' = "playing" /\ UNCHANGED <<walk, arrays, choice, taps>>
      /\ playing' = [k \in DOMAIN selected |-> Status(selected[k])]
  BY DEF StartPreview
<1>2. WalkInv'
  BY <1>1, WalkKept DEF TreeInv, WalkInv, TreeTypeOK, choice
<1>3. Made'
  <2>1. (\A i : Status(i)' = Status(i)) /\ selected' = selected
    BY <1>1 DEF Status, arrays, choice
  <2>2. playing' = [k \in DOMAIN selected |-> Status(selected[k])]'
    BY <1>1, <2>1 DEF Status, arrays
  <2> QED BY <1>1, <2>1, <2>2, SameArrays DEF TreeInv, Made, walk, arrays
<1> QED BY <1>2, <1>3 DEF TreeInv

\* At the start all lists are empty.
LEMMA TreeStarts == TreeInit => TreeInv
<1> SUFFICES ASSUME TreeInit PROVE TreeInv
  OBVIOUS
<1>1. /\ tree \in Trees /\ at = "walk" /\ todo = <<>> /\ areaList = <<>> /\ deviceList = <<>>
      /\ camStatus = <<>> /\ camName = <<>> /\ groups = <<>> /\ selected = <<>> /\ playing = <<>>
  BY DEF TreeInit
<1>2. areaList \in Groups /\ DOMAIN areaList = {} /\ Len(areaList) = 0
  BY <1>1 DEF Groups
<1>3. RowsOf(areaList) = {}
  BY <1>2, RowType
<1>4. TreeTypeOK /\ AreasInPlace /\ TodoAhead
  BY <1>1, <1>2, Bounds DEF TreeTypeOK, AreasInPlace, TodoAhead, Groups, Entry
<1>5. Listed
  BY <1>1, <1>3, FS_EmptySet DEF Listed, Childs
<1>6. Made
  BY <1>1 DEF Made
<1> QED BY <1>4, <1>5, <1>6 DEF TreeInv, WalkInv

\* So every step keeps TreeInv.
LEMMA TreeStep ==
  ASSUME TreeInv, [TreeNext]_treeVars
  PROVE  TreeInv'
<1>1. CASE UNCHANGED treeVars
  <2>1. UNCHANGED <<walk, at, arrays, choice, playing>>
    BY <1>1 DEF treeVars
  <2>2. WalkInv'
    <3>1. WalkInv /\ selected \in Seq(Nat) /\ at \in {"walk", "areas", "list", "shown", "playing"}
      BY DEF TreeInv, WalkInv, TreeTypeOK
    <3>2. UNCHANGED <<walk, selected>> /\ at' = at
      BY <2>1 DEF choice
    <3> QED BY <3>1, <3>2, WalkKept
  <2>3. \A i : Status(i)' = Status(i)
    BY <2>1 DEF Status, arrays
  <2>4. Made'
    BY <2>1, <2>3, SameArrays DEF TreeInv, Made, walk, arrays, choice
  <2> QED BY <2>2, <2>4 DEF TreeInv
<1>2. CASE Walk
  BY <1>2, GetTopStep, GetNothingStep, GetAreaStep, PassAreaStep DEF Walk
<1>3. CASE FillArrays \/ CreateListViews
  BY <1>3, FillArraysStep, CreateListViewsStep
<1>4. CASE TapRow \/ TapFound \/ DrawRow \/ StartPreview
  BY <1>4, TapRowStep, TapFoundStep, DrawRowStep, StartPreviewStep
<1> QED BY <1>1, <1>2, <1>3, <1>4 DEF TreeNext

-----------------------------------------------------------------------------
\* The device that is in an area is at home there.
LEMMA HomeIs ==
  ASSUME tree \in Trees, NEW d, NEW a, IsIn(d, a)
  PROVE  Home(d.id) = a
<1> DEFINE holds(b) == \E k \in DOMAIN tree.in[b] : tree.in[b][k].id = d.id
<1>1. /\ tree.root \in {"domain", "area"}
      /\ \A b \in DOMAIN tree.in : b # 0 /\ \A e \in ToSet(tree.in[b]) :
           /\ \A c \in DOMAIN tree.in : \A f \in ToSet(tree.in[c]) : f.id = e.id => c = b
           /\ \A i \in Of(tree.top, "device") : tree.top[i].id # e.id
  BY DeviceTreeAssumption
<1>2. Home(d.id) = IF \E b \in DOMAIN tree.in : holds(b)
                     THEN CHOOSE b \in DOMAIN tree.in : holds(b) ELSE 0
  BY DEF Home
<1>3. \A b \in DOMAIN tree.in : holds(b) <=> \E e \in ToSet(tree.in[b]) : e.id = d.id
  BY DEF ToSet
<1>4. CASE a = 0
  <2>1. PICK i \in Of(TopLevel(tree), "device") : TopLevel(tree)[i] = d
    BY <1>4 DEF IsIn
  <2>2. /\ DOMAIN TopLevel(tree) = 1 .. 1 + Len(tree.top) /\ TopLevel(tree)[1] = Parent(tree)
        /\ DOMAIN tree.top = 1 .. Len(tree.top) /\ Len(tree.top) \in Nat
        /\ \A k \in DOMAIN tree.top : TopLevel(tree)[k + 1] = tree.top[k]
    <3>1. tree.top \in Seq(ToSet(tree.top))
      BY DeviceTreeAssumption
    <3>2. /\ TopLevel(tree) \in Seq(NodesOf(tree)) /\ Len(TopLevel(tree)) = 1 + Len(tree.top)
          /\ TopLevel(tree)[1] = Parent(tree)
          /\ \A k \in DOMAIN tree.top : TopLevel(tree)[k + 1] = tree.top[k]
      BY TreeNodes
    <3> QED BY <3>1, <3>2
  <2>3. d.kind = "device" /\ i \in 1 .. 1 + Len(tree.top)
    BY <2>1, <2>2 DEF Of
  <2>4. i # 1
    BY <1>1, <2>1, <2>2, <2>3 DEF Parent
  <2>5. i - 1 \in DOMAIN tree.top /\ (i - 1) + 1 = i
    BY <2>2, <2>3, <2>4
  <2>6. tree.top[i - 1] = d
    BY <2>1, <2>2, <2>5
  <2>7. i - 1 \in Of(tree.top, "device")
    BY <2>3, <2>5, <2>6 DEF Of
  <2>8. \A b \in DOMAIN tree.in : ~ holds(b)
    BY <1>1, <1>3, <2>6, <2>7
  <2> QED BY <1>2, <1>4, <2>8
<1>5. CASE a # 0
  <2>1. a \in DOMAIN tree.in /\ d \in ToSet(tree.in[a])
    BY <1>5 DEF IsIn
  <2>2. holds(a) /\ \A b \in DOMAIN tree.in : holds(b) => b = a
    BY <1>1, <1>3, <2>1
  <2> HIDE DEF holds
  <2> QED BY <1>2, <2>1, <2>2
<1> QED BY <1>4, <1>5

\* The arrays name the cameras in the order of the list of devices.
LEMMA CameraArrays ==
  ASSUME deviceList \in Seq(NodesOf(tree))
  PROVE  /\ CamerasAt \in SUBSET Nat /\ IsFiniteSet(CamerasAt) /\ Cardinality(CamerasAt) \in Nat
         /\ DOMAIN Names = 1 .. Cardinality(CamerasAt) /\ Len(Names) = Cardinality(CamerasAt)
         /\ DOMAIN Statuses = 1 .. Cardinality(CamerasAt) /\ Len(Statuses) = Cardinality(CamerasAt)
         /\ \A j \in 1 .. Cardinality(CamerasAt) :
              LET i == Places(CamerasAt)[j] IN
              /\ i \in CamerasAt /\ Names[j] = deviceList[i].id
              /\ Statuses[j] = IF deviceList[i].online THEN i - 1 ELSE Offline
<1> DEFINE n == Cardinality(CamerasAt)
<1>1. CamerasAt \in SUBSET (DOMAIN deviceList)
  BY DEF CamerasAt
<1>2. CamerasAt \in SUBSET Nat /\ IsFiniteSet(CamerasAt) /\ n \in Nat
  BY <1>1, PickType
<1>3. DOMAIN CameraPlaces = 1 .. n /\ \A j \in 1 .. n : CameraPlaces[j] = Places(CamerasAt)[j] - 1
  BY DEF CameraPlaces
<1>4. \A j \in 1 .. n : Places(CamerasAt)[j] \in CamerasAt /\ Places(CamerasAt)[j] \in Nat
  BY <1>2, PlacesAscend
<1>5. \A j \in 1 .. n : CameraPlaces[j] + 1 = Places(CamerasAt)[j]
  BY <1>3, <1>4
<1>6. Names = [j \in 1 .. n |-> deviceList[Places(CamerasAt)[j]].id]
  BY <1>3, <1>5 DEF Names
<1>7. Statuses = [j \in 1 .. n |-> IF deviceList[Places(CamerasAt)[j]].online
                                    THEN Places(CamerasAt)[j] - 1 ELSE Offline]
  BY <1>3, <1>5 DEF Statuses, StatusOf
<1>8. Len(Names) = n /\ Len(Statuses) = n
  BY <1>2, <1>6, <1>7
<1> QED BY <1>2, <1>4, <1>6, <1>7, <1>8

\* The rows of a group are the cameras of its area, as TreeInv has it.
LEMMA RowsAreCameras == TreeInv => GroupShowsItsCameras
<1> SUFFICES ASSUME TreeInv, at \in {"shown", "playing"}, NEW r \in Rows,
                    \A k \in 1 .. RowsBefore(r[1]) + groups[r[1]].childNum : IsCamera(deviceList[k])
             PROVE  LET i == ChildId(r[1], r[2])
                    IN  i < Len(camName) /\ Home(camName[i + 1]) = groups[r[1]].area
  BY DEF GroupShowsItsCameras
<1>1. groups = Pick(areaList, Filled) /\ groups \in Groups /\ areaList \in Groups
  BY ShownGroups
<1>2. /\ tree \in Trees /\ deviceList \in Seq(NodesOf(tree)) /\ Listed /\ camName = Names
      /\ DOMAIN deviceList = 1 .. Len(deviceList)
  BY DEF TreeInv, WalkInv, TreeTypeOK, Made
<1>3. PICK g \in DOMAIN groups, q \in Nat : r = <<g, q>> /\ q < groups[g].childNum
  BY <1>1, RowType DEF Rows
<1> DEFINE P == Places(Filled)
           c == groups[g].childNum
           b == Before(areaList, P[g])
<1>4. P[g] \in DOMAIN areaList /\ groups[g] = areaList[P[g]] /\ RowsBefore(g) = b
  BY <1>1, <1>3, ShownRows DEF RowsBefore, Filled
<1>5. c \in Nat /\ b \in Nat /\ q < c /\ c - 1 \in Nat /\ c - 1 < c
  <2>1. c \in Nat
    BY <1>1, <1>3, GroupType
  <2>2. b \in Nat
    BY <1>1, RowsFinite
  <2>3. q < c
    BY <1>3
  <2> HIDE DEF b, c
  <2> QED BY <2>1, <2>2, <2>3
<1> HIDE DEF P, b, c
<1>6. <<P[g], q>> \in RowsOf(areaList) /\ <<P[g], c - 1>> \in RowsOf(areaList)
  BY <1>1, <1>3, <1>4, <1>5, RowType DEF c
<1>7. /\ b + q + 1 \in DOMAIN deviceList /\ IsIn(deviceList[b + q + 1], groups[g].area)
      /\ b + (c - 1) + 1 \in DOMAIN deviceList
  BY <1>2, <1>4, <1>6 DEF Listed, b
<1> DEFINE i == b + q
<1>8. i \in Nat /\ i + 1 \in 1 .. b + c /\ 1 .. b + c \in SUBSET (DOMAIN deviceList)
  <2>1. b + c <= Len(deviceList) /\ Len(deviceList) \in Nat
    BY <1>2, <1>5, <1>7
  <2>2. 1 .. b + c \in SUBSET (1 .. Len(deviceList))
    BY <1>5, <2>1
  <2>3. q \in Nat
    BY <1>3
  <2>4. i \in Nat /\ i + 1 \in 1 .. b + c
    BY <1>5, <2>3
  <2> QED BY <1>2, <2>2, <2>4
<1>9. 1 .. b + c \in SUBSET CamerasAt
  BY <1>3, <1>4, <1>8 DEF CamerasAt, c
<1>10. /\ CamerasAt \in SUBSET Nat /\ IsFiniteSet(CamerasAt) /\ CamerasAt \in SUBSET (DOMAIN deviceList)
       /\ Len(Names) = Cardinality(CamerasAt) /\ Cardinality(CamerasAt) \in Nat
       /\ \A j \in 1 .. Cardinality(CamerasAt) : Names[j] = deviceList[Places(CamerasAt)[j]].id
  BY <1>2, CameraArrays DEF CamerasAt
<1>11. Cardinality(UpTo(CamerasAt, i + 1)) = i + 1
  <2>1. \A j \in CamerasAt : j \in Nat /\ j >= 1
    BY <1>2, <1>10
  <2>2. \A j \in 1 .. i + 1 : j \in 1 .. b + c
    BY <1>5, <1>8
  <2>3. UpTo(CamerasAt, i + 1) = 1 .. i + 1
    BY <1>8, <1>9, <2>1, <2>2 DEF UpTo
  <2> QED BY <1>8, <2>3, FirstNumbers
<1>12. i + 1 \in 1 .. Cardinality(CamerasAt) /\ Places(CamerasAt)[i + 1] = i + 1
  BY <1>8, <1>9, <1>10, <1>11, PlacesAscend
<1>13. i < Len(camName) /\ camName[i + 1] = deviceList[i + 1].id
  BY <1>2, <1>8, <1>10, <1>12
<1>14. ChildId(r[1], r[2]) = i /\ i + 1 = b + q + 1
  BY <1>3, <1>4, <1>5 DEF ChildId
<1>15. Home(deviceList[i + 1].id) = groups[g].area
  BY <1>2, <1>7, <1>14, HomeIs
<1> QED BY <1>3, <1>13, <1>14, <1>15

\* What is played is what the chosen rows name, as TreeInv has it.
LEMMA PlayedAreChosen == TreeInv => ChosenIsPlayed
<1> SUFFICES ASSUME TreeInv, NEW k \in DOMAIN playing, selected[k] < Len(camName)
             PROVE  LET d == deviceList[playing[k] + 1]
                    IN  d.id = camName[selected[k] + 1] /\ d.online
  BY DEF ChosenIsPlayed
<1>1. at = "playing" /\ k \in DOMAIN selected /\ playing[k] = Status(selected[k])
  BY DEF TreeInv, Made
<1>2. /\ selected[k] \in Nat /\ Status(selected[k]) # Offline
      /\ camStatus = Statuses /\ camName = Names /\ deviceList \in Seq(NodesOf(tree))
  BY <1>1 DEF TreeInv, WalkInv, TreeTypeOK, Made
<1> DEFINE j == selected[k] + 1
           i == Places(CamerasAt)[j]
<1>3. /\ Len(Names) = Cardinality(CamerasAt) /\ Len(Statuses) = Cardinality(CamerasAt)
      /\ Cardinality(CamerasAt) \in Nat /\ CamerasAt \in SUBSET Nat
  BY <1>2, CameraArrays
<1>4. j \in 1 .. Cardinality(CamerasAt) /\ selected[k] < Len(camStatus)
  BY <1>2, <1>3
<1>5. /\ i \in CamerasAt /\ Names[j] = deviceList[i].id
      /\ Statuses[j] = IF deviceList[i].online THEN i - 1 ELSE Offline
  BY <1>2, <1>4, CameraArrays
<1>6. playing[k] = Statuses[j] /\ Statuses[j] # Offline
  BY <1>1, <1>2, <1>4 DEF Status
<1>7. deviceList[i].online /\ playing[k] = i - 1
  BY <1>5, <1>6
<1>8. playing[k] + 1 = i
  <2>1. i \in Nat
    BY <1>3, <1>5
  <2> HIDE DEF i, j
  <2> QED BY <1>7, <2>1
<1> QED BY <1>2, <1>5, <1>7, <1>8

-----------------------------------------------------------------------------
\* The walk counts every device in the entry of its area, and the arrays, the groups and
\* what is chosen are made of that, whatever requests stay unanswered and wherever an
\* answer is cut off.
THEOREM TreeCorrect == TreeSpec => []TreeInv
<1>1. TreeInv /\ [TreeNext]_treeVars => TreeInv'
  BY TreeStep
<1> QED BY <1>1, TreeStarts, PTL DEF TreeSpec

\* A group of the list shows the cameras of its own area, up to the first device that is
\* no camera.
THEOREM GroupsCorrect == TreeSpec => []GroupShowsItsCameras
BY TreeCorrect, RowsAreCameras, PTL

\* The play screen opens what the chosen rows name, and it was on line.
THEOREM ChosenCorrect == TreeSpec => []ChosenIsPlayed
BY TreeCorrect, PlayedAreChosen, PTL

-----------------------------------------------------------------------------
\* The start thread's steps: isCTLbussy goes up and down with the sending, and a
\* camera begins to turn only while the button is held or its stop waits.
LEMMA StartKeepsInv == ASSUME ControlInv, StartStep PROVE ControlInv'
  <1> USE DEF ControlInv, TypeOK, BusyIsSending, LeftIsExit, InTurn, TurningIsHeld,
              StartUnderWay, StopUnderWay, StartKeeps
  <1>1. CASE StartWaits  BY <1>1 DEF StartWaits
  <1>2. CASE StartEnters  BY <1>2 DEF StartEnters
  <1>3. CASE StartResumes  BY <1>3 DEF StartResumes
  <1>4. CASE StartEnds  BY <1>4 DEF StartEnds
  <1>5. CASE StartBegins  BY <1>5 DEF StartBegins
  <1>6. CASE StartSends  BY <1>6 DEF StartSends
  <1>7. CASE StartRecords  BY <1>7 DEF StartRecords
  <1>8. CASE StartLeaves  BY <1>8 DEF StartLeaves
  <1> QED  BY <1>1, <1>2, <1>3, <1>4, <1>5, <1>6, <1>7, <1>8 DEF StartStep

\* The stop thread's steps: past its loop no start is under way, so that what it
\* stops is all that turns.
LEMMA StopKeepsInv == ASSUME ControlInv, StopStep PROVE ControlInv'
  <1> USE DEF ControlInv, TypeOK, BusyIsSending, LeftIsExit, InTurn, TurningIsHeld,
              StartUnderWay, StopUnderWay, StopKeeps
  <1>1. CASE StopWaits  BY <1>1 DEF StopWaits
  <1>2. CASE StopEnters  BY <1>2 DEF StopEnters
  <1>3. CASE StopResumes  BY <1>3 DEF StopResumes
  <1>4. CASE StopPolls  BY <1>4 DEF StopPolls
  <1>5. CASE StopSends  BY <1>5 DEF StopSends
  <1>6. CASE StopLeaves  BY <1>6 DEF StopLeaves
  <1>7. CASE StopEnds  BY <1>7 DEF StopEnds
  <1> QED  BY <1>1, <1>2, <1>3, <1>4, <1>5, <1>6, <1>7 DEF StopStep

\* The main thread's steps: a press names another camera only when none turns.
LEMMA UiKeepsInv ==
  ASSUME ControlInv, UiPresses \/ UiReleases \/ UiCancels \/ UiDestroys \/ UiGoesOn
  PROVE  ControlInv'
  <1> USE DEF ControlInv, TypeOK, BusyIsSending, LeftIsExit, InTurn, TurningIsHeld,
              StartUnderWay, StopUnderWay, UiKeeps, threads
  <1>1. CASE UiPresses  BY <1>1 DEF UiPresses
  <1>2. CASE UiReleases  BY <1>2 DEF UiReleases
  <1>3. CASE UiCancels  BY <1>3 DEF UiCancels
  <1>4. CASE UiDestroys  BY <1>4 DEF UiDestroys
  <1>5. CASE UiNotifiesStart
    BY <1>5 DEF UiNotifiesStart, NotifyStart, StartMonitorFree
  <1>6. CASE UiNotifiesStop
    BY <1>6 DEF UiNotifiesStop, NotifyStop, StopMonitorFree
  <1>7. CASE UiEndsStart  BY <1>7 DEF UiEndsStart, NotifyStart
  <1>8. CASE UiEndsStop  BY <1>8 DEF UiEndsStop, NotifyStop
  <1> QED  BY <1>1, <1>2, <1>3, <1>4, <1>5, <1>6, <1>7, <1>8 DEF UiGoesOn

\* The flags and the places of the three threads agree at all times, and while no
\* premise is broken a turning camera is held.
THEOREM ControlCorrect == Spec => []ControlInv
  <1>1. Init => ControlInv
    BY DEF Init, ControlInv, TypeOK, BusyIsSending, LeftIsExit, InTurn, TurningIsHeld,
           StartUnderWay
  <1>2. ControlInv /\ [Next]_vars => ControlInv'
    <2> SUFFICES ASSUME ControlInv, [Next]_vars PROVE ControlInv'
      OBVIOUS
    <2>1. CASE Next
      BY <2>1, StartKeepsInv, StopKeepsInv, UiKeepsInv DEF Next
    <2>2. ASSUME UNCHANGED vars PROVE ControlInv'
      <3> USE <2>2 DEF vars, threads, ControlInv
      <3>1. startT' = startT /\ stopT' = stopT
        OBVIOUS
      <3>2. TypeOK'  BY ZenonT(30), <3>1 DEF TypeOK
      <3>3. BusyIsSending' /\ LeftIsExit'  BY <3>1 DEF BusyIsSending, LeftIsExit
      <3>4. InTurn'  BY <3>1 DEF InTurn, StartUnderWay
      <3>5. TurningIsHeld'  BY <3>1 DEF TurningIsHeld, StopUnderWay
      <3> QED  BY <3>2, <3>3, <3>4, <3>5
    <2> QED  BY <2>1, <2>2
  <1> QED  BY <1>1, <1>2, PTL DEF Spec

\* While the finger is slower than the threads, no gesture is cancelled and every
\* stop gets through, a camera that turns is the one the next stop names, and its
\* button is held or a stop is on its way.
THEOREM TurningHeld == Spec => []TurningIsHeld
  BY ControlCorrect, PTL DEF ControlInv
===============================================================================
