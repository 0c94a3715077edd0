--------------------------- MODULE SkipListProofs ---------------------------
(***************************************************************************)
(* The skip list is a map: proof of SkipListIsMap, for every set of keys,   *)
(* every number of levels and every level that is drawn for a node.  A      *)
(* search ends, at every level, at the last node before the key; what       *)
(* insert_element and delete_element do to the pointers of these nodes      *)
(* keeps every row in order.                                               *)
(***************************************************************************)
EXTENDS SkipListInv, LoopProofs, FiniteSetTheorems

\* A set of natural numbers below a bound that is not empty has a greatest member.
LEMMA GreatestNat ==
    ASSUME NEW T \in SUBSET Nat, T # {}, NEW b \in Nat, \A x \in T : x <= b
    PROVE  \E x \in T : \A y \in T : y <= x
  <1> DEFINE D == {b - x : x \in T}
  <1>1. D \in SUBSET Nat /\ D # {}
    <2>1. \A x \in T : b - x \in Nat
      OBVIOUS
    <2>2. QED
      BY <2>1
  <1>2. PICK d \in D : \A e \in D : d <= e
    <2> HIDE DEF D
    <2>1. QED
      BY <1>1, LeastNat
  <1>3. PICK x \in T : d = b - x
    OBVIOUS
  <1>4. ASSUME NEW y \in T PROVE y <= x
    <2>1. d <= b - y
      BY <1>2
    <2>2. QED
      BY <1>3, <2>1
  <1>5. QED
    BY <1>4

----------------------------------------------------------------------------
\* The nodes of a list.

\* The nodes at a level are numbers, the header is at every level, and a node is at every level below.
LEMMA RowFacts ==
    ASSUME NEW sl, ListOK(sl), NEW i \in 0..MaxLevel
    PROVE  /\ Row(sl, i) \subseteq {Header} \cup DOMAIN sl.value
           /\ Row(sl, i) \in SUBSET Nat
           /\ Header \in Row(sl, i)
           /\ \A j \in 0..i : Row(sl, i) \subseteq Row(sl, j)
           /\ i > sl.level => Row(sl, i) = {Header}
           /\ i = 0 => Row(sl, i) = {Header} \cup DOMAIN sl.value
           /\ Header \notin DOMAIN sl.value
           /\ sl.level \in 0..MaxLevel
           /\ MaxLevel \in Nat \ {0}
  <1>1. MaxLevel \in Nat \ {0} /\ Key \subseteq Nat \ {0}
    BY KeyAssumption, LevelAssumption
  <1>2. /\ DOMAIN sl.forward = {Header} \cup DOMAIN sl.value
        /\ DOMAIN sl.forward[Header] = 0..MaxLevel
        /\ DOMAIN sl.value \subseteq Nat \ {0}
        /\ \A n \in DOMAIN sl.value : \E h \in 1..MaxLevel : DOMAIN sl.forward[n] = 0..h
    BY <1>1 DEF ListOK, Towers, HoldsKeys, get_random_level
  <1>3. sl.level \in 0..MaxLevel /\ \A n \in DOMAIN sl.value : i > sl.level /\ i # 0 => n \notin Row(sl, i)
    BY <1>1 DEF ListOK, HighestLevel
  <1>4. Row(sl, i) \subseteq {Header} \cup DOMAIN sl.value /\ Header \in Row(sl, i)
    BY <1>2 DEF Row
  <1>5. ASSUME NEW j \in 0..i, NEW n \in Row(sl, i) PROVE n \in Row(sl, j)
    <2>1. CASE n = Header
      BY <1>1, <1>2, <2>1 DEF Row
    <2>2. CASE n \in DOMAIN sl.value
      <3>1. PICK h \in 1..MaxLevel : DOMAIN sl.forward[n] = 0..h
        BY <1>2, <2>2
      <3>2. i \in 0..h
        BY <1>5, <3>1 DEF Row
      <3>3. j \in 0..h
        BY <1>1, <3>1, <3>2
      <3>4. QED
        BY <1>2, <2>2, <3>1, <3>3 DEF Row
    <2>3. QED
      BY <1>4, <1>5, <2>1, <2>2
  <1>6. i = 0 => Row(sl, i) = {Header} \cup DOMAIN sl.value
    <2>1. ASSUME NEW n \in DOMAIN sl.value PROVE 0 \in DOMAIN sl.forward[n]
      BY <1>1, <1>2
    <2>2. QED
      BY <1>1, <1>2, <1>4, <2>1 DEF Row
  <1>7. i > sl.level => Row(sl, i) = {Header}
    BY <1>1, <1>3, <1>4
  <1>8. Row(sl, i) \in SUBSET Nat /\ Header \notin DOMAIN sl.value
    BY <1>2, <1>4 DEF Header
  <1>9. QED
    BY <1>1, <1>3, <1>4, <1>5, <1>6, <1>7, <1>8

\* The nodes of a list are below a bound.
LEMMA RowBound ==
    ASSUME NEW sl, ListOK(sl), NEW i \in 0..MaxLevel
    PROVE  \E bound \in Nat : \A x \in Row(sl, i) : x <= bound
  <1>1. PICK b \in Nat : \A k \in DOMAIN sl.value : k <= b
    BY DEF ListOK, HoldsKeys
  <1>2. ASSUME NEW x \in Row(sl, i) PROVE x <= b
    <2>1. x = Header \/ x \in DOMAIN sl.value
      BY RowFacts
    <2>2. CASE x = Header
      BY <2>2 DEF Header
    <2>3. CASE x \in DOMAIN sl.value
      BY <1>1, <2>3
    <2>4. QED
      BY <2>1, <2>2, <2>3
  <1>3. QED
    BY <1>2

\* The last node before a key at a level.
IsBefore(sl, i, key, m) ==
    m \in Row(sl, i) /\ m < key /\ \A x \in Row(sl, i) : x < key => x <= m

Before(sl, i, key) == CHOOSE m \in Row(sl, i) : IsBefore(sl, i, key, m)

LEMMA BeforeFacts ==
    ASSUME NEW sl, ListOK(sl), NEW i \in 0..MaxLevel, NEW key \in Nat \ {0}
    PROVE  /\ IsBefore(sl, i, key, Before(sl, i, key))
           /\ \A m : IsBefore(sl, i, key, m) => m = Before(sl, i, key)
  <1> DEFINE T == {x \in Row(sl, i) : x < key}
  <1>1. T \in SUBSET Nat /\ Header \in T /\ Row(sl, i) \in SUBSET Nat
    BY RowFacts DEF Header
  <1>2. PICK m \in T : \A y \in T : y <= m
    <2>1. \A x \in T : x <= key
      BY <1>1
    <2> HIDE DEF T
    <2>2. QED
      BY <1>1, <2>1, GreatestNat
  <1>3. IsBefore(sl, i, key, m)
    BY <1>2 DEF IsBefore
  <1>4. IsBefore(sl, i, key, Before(sl, i, key))
    BY <1>2, <1>3 DEF Before
  <1>5. QED
    BY <1>1, <1>4 DEF IsBefore

\* The node behind it is the first one that is not before the key.
LEMMA BehindBefore ==
    ASSUME NEW sl, ListOK(sl), NEW i \in 0..MaxLevel, NEW key \in Nat \ {0}, NEW m,
           IsBefore(sl, i, key, m), NEW f, f = sl.forward[m][i]
    PROVE  \/ f = NULL /\ \A x \in Row(sl, i) : x < key
           \/ f \in Row(sl, i) /\ f # NULL /\ f >= key /\ \A x \in Row(sl, i) : x >= key => f <= x
  <1>1. Row(sl, i) \in SUBSET Nat
    BY RowFacts
  <1>2. m \in Row(sl, i) /\ m < key /\ \A x \in Row(sl, i) : x < key => x <= m
    BY DEF IsBefore
  <1>3. LeadsTo(sl, i, m, f)
    BY <1>2 DEF ListOK, InOrder
  <1>4. CASE f = NULL /\ \A x \in Row(sl, i) : x <= m
    BY <1>1, <1>2, <1>4
  <1>5. CASE f \in Row(sl, i) /\ f > m /\ \A x \in Row(sl, i) : x > m => f <= x
    BY <1>1, <1>2, <1>5 DEF NULL
  <1>6. QED
    BY <1>3, <1>4, <1>5 DEF LeadsTo

----------------------------------------------------------------------------
\* The search.

\* What the inner loop of a search computes from every node of a level.
AdvanceStep(sl, i, key, last, c) ==
    LET f == sl.forward[c][i] IN IF f # NULL /\ f < key THEN last[f] ELSE c

\* The loop has a result: it is the last node before the key, from every node that is before it.
LEMMA AdvanceUnfolds ==
    ASSUME NEW sl, ListOK(sl), NEW i \in 0..MaxLevel, NEW key \in Nat \ {0}
    PROVE  \E last : /\ last = [c \in Row(sl, i) |-> AdvanceStep(sl, i, key, last, c)]
                     /\ \A n : Advance(sl, n, i, key) = last[n]
  <1> DEFINE last == [c \in Row(sl, i) |-> IF c < key THEN Before(sl, i, key) ELSE c]
  <1>1. Row(sl, i) \in SUBSET Nat
    BY RowFacts
  <1>2. IsBefore(sl, i, key, Before(sl, i, key))
    BY BeforeFacts
  <1>3. ASSUME NEW c \in Row(sl, i) PROVE last[c] = AdvanceStep(sl, i, key, last, c)
    <2>1. PICK f : f = sl.forward[c][i]
      OBVIOUS
    <2>2. LeadsTo(sl, i, c, f)
      BY <2>1 DEF ListOK, InOrder
    <2>3. CASE f # NULL /\ f < key
      <3>1. f \in Row(sl, i) /\ f > c /\ c < key
        BY <1>1, <2>2, <2>3 DEF LeadsTo
      <3>2. last[c] = last[f]
        BY <2>3, <3>1
      <3>3. QED
        BY <2>1, <2>3, <3>2 DEF AdvanceStep
    <2>4. CASE ~(f # NULL /\ f < key)
      <3>1. AdvanceStep(sl, i, key, last, c) = c
        <4> HIDE DEF last
        <4>1. QED
          BY <2>1, <2>4 DEF AdvanceStep
      <3>2. c < key => IsBefore(sl, i, key, c)
        BY <1>1, <2>2, <2>4 DEF NULL, LeadsTo, IsBefore
      <3>3. c < key => c = Before(sl, i, key)
        BY <3>2, BeforeFacts
      <3>4. QED
        BY <3>1, <3>3
    <2>5. QED
      BY <2>3, <2>4
  <1>4. last = [c \in Row(sl, i) |-> AdvanceStep(sl, i, key, last, c)]
    BY <1>3
  <1> DEFINE Is(g) == g = [c \in Row(sl, i) |-> AdvanceStep(sl, i, key, g, c)]
             Chosen == CHOOSE g : Is(g)
  <1>5. Is(Chosen)
    <2>1. Is(last)
      BY <1>4
    <2> HIDE DEF Is, last
    <2>2. QED
      BY <2>1
  <1>6. \A n : Advance(sl, n, i, key) = Chosen[n]
    BY DEF Advance, AdvanceStep
  <1> HIDE DEF Chosen
  <1>7. QED
    BY <1>5, <1>6

\* Wherever the inner loop starts before the key, it ends at the last node before it.
LEMMA AdvanceIsBefore ==
    ASSUME NEW sl, ListOK(sl), NEW i \in 0..MaxLevel, NEW key \in Nat \ {0},
           NEW n \in Row(sl, i), n < key
    PROVE  Advance(sl, n, i, key) = Before(sl, i, key)
  <1>1. PICK last : /\ last = [c \in Row(sl, i) |-> AdvanceStep(sl, i, key, last, c)]
                    /\ \A c : Advance(sl, c, i, key) = last[c]
    BY AdvanceUnfolds
  <1>2. Row(sl, i) \in SUBSET Nat
    BY RowFacts
  <1> DEFINE Bad == {c \in Row(sl, i) : c < key /\ last[c] # Before(sl, i, key)}
  <1>3. ASSUME Bad # {} PROVE FALSE
    <2>1. PICK c \in Bad : \A d \in Bad : d <= c
      <3>1. Bad \in SUBSET Nat /\ \A x \in Bad : x <= key
        BY <1>2
      <3> HIDE DEF Bad
      <3>2. QED
        BY <1>3, <3>1, GreatestNat
    <2>2. PICK f : f = sl.forward[c][i]
      OBVIOUS
    <2>3. LeadsTo(sl, i, c, f)
      BY <2>2 DEF ListOK, InOrder
    <2>4. last[c] = IF f # NULL /\ f < key THEN last[f] ELSE c
      BY <1>1, <2>2 DEF AdvanceStep
    <2>5. CASE f # NULL /\ f < key
      <3>1. f \in Row(sl, i) /\ f > c
        BY <2>3, <2>5 DEF LeadsTo
      <3>2. f \notin Bad
        BY <1>2, <2>1, <3>1
      <3>3. QED
        BY <2>4, <2>5, <3>1, <3>2
    <2>6. CASE ~(f # NULL /\ f < key)
      <3>1. IsBefore(sl, i, key, c)
        BY <1>2, <2>3, <2>6 DEF NULL, LeadsTo, IsBefore
      <3>2. c = Before(sl, i, key)
        BY <3>1, BeforeFacts
      <3>3. QED
        BY <2>4, <2>6, <3>2
    <2>7. QED
      BY <2>5, <2>6
  <1>4. n \notin Bad
    BY <1>3
  <1>5. QED
    BY <1>1, <1>4

\* update[i] is the last node before the key at every level of the list.
LEMMA UpdateIsBefore ==
    ASSUME NEW sl, ListOK(sl), NEW key \in Nat \ {0}
    PROVE  /\ DOMAIN Update(sl, key) = 0..sl.level
           /\ \A i \in 0..sl.level : Update(sl, key)[i] = Before(sl, i, key)
  <1> DEFINE Turn(u, i) == Advance(sl, IF i = sl.level THEN Header ELSE u[i + 1], i, key)
             Is(u) == u = [i \in 0..sl.level |-> Turn(u, i)]
             bs == [i \in 0..sl.level |-> Before(sl, i, key)]
             Chosen == CHOOSE u : Is(u)
  <1>1. sl.level \in Nat /\ 0..sl.level \subseteq 0..MaxLevel /\ \A i \in 0..sl.level : Header \in Row(sl, i)
    <2>1. sl.level \in 0..MaxLevel /\ MaxLevel \in Nat
      BY LevelAssumption DEF ListOK, HighestLevel
    <2>2. 0..sl.level \subseteq 0..MaxLevel
      BY <2>1
    <2>3. QED
      BY <2>1, <2>2, RowFacts
  \* A search of a level that starts at the header or where the one above has ended.
  <1>2. ASSUME NEW i \in 0..sl.level, NEW u, i # sl.level => u[i + 1] = Before(sl, i + 1, key)
        PROVE  Turn(u, i) = Before(sl, i, key)
    <2>1. i \in 0..MaxLevel
      BY <1>1
    <2>2. CASE i = sl.level
      <3>1. Header \in Row(sl, i) /\ Header < key
        BY <1>1 DEF Header
      <3>2. QED
        BY <2>1, <2>2, <3>1, AdvanceIsBefore
    <2>3. CASE i # sl.level
      <3>1. i + 1 \in 0..sl.level
        BY <1>1, <2>3
      <3>2. i + 1 \in 0..MaxLevel /\ i \in 0..(i + 1)
        BY <1>1, <3>1
      <3>3. IsBefore(sl, i + 1, key, Before(sl, i + 1, key))
        BY <3>2, BeforeFacts
      <3>4. Row(sl, i + 1) \subseteq Row(sl, i)
        BY <3>2, RowFacts
      <3>5. PICK n : n = Before(sl, i + 1, key) /\ n \in Row(sl, i) /\ n < key
        BY <3>3, <3>4 DEF IsBefore
      <3>6. Advance(sl, n, i, key) = Before(sl, i, key)
        BY <2>1, <3>5, AdvanceIsBefore
      <3>7. QED
        BY <1>2, <2>3, <3>5, <3>6
    <2>4. QED
      BY <2>2, <2>3
  <1>3. Is(bs)
    <2> HIDE DEF Turn
    <2>1. ASSUME NEW i \in 0..sl.level PROVE bs[i] = Turn(bs, i)
      <3>1. i # sl.level => i + 1 \in 0..sl.level
        BY <1>1
      <3>2. i # sl.level => bs[i + 1] = Before(sl, i + 1, key)
        BY <3>1
      <3>3. Turn(bs, i) = Before(sl, i, key)
        <4> HIDE DEF bs
        <4>1. QED
          BY <1>2, <3>2
      <3>4. QED
        BY <3>3
    <2>2. QED
      BY <2>1
  <1>4. Is(Chosen)
    <2> HIDE DEF Is, bs
    <2>1. QED
      BY <1>3
  <1>5. Update(sl, key) = Chosen
    BY DEF Update
  <1> HIDE DEF Chosen, bs
  <1>6. DOMAIN Chosen = 0..sl.level /\ \A i \in 0..sl.level : Chosen[i] = Turn(Chosen, i)
    <2> HIDE DEF Turn
    <2>1. QED
      BY <1>4
  <1> DEFINE Bad == {i \in 0..sl.level : Chosen[i] # Before(sl, i, key)}
  <1>7. ASSUME Bad # {} PROVE FALSE
    <2>1. PICK i \in Bad : \A j \in Bad : j <= i
      <3>1. Bad \in SUBSET Nat /\ \A j \in Bad : j <= sl.level
        BY <1>1
      <3> HIDE DEF Bad
      <3>2. QED
        BY <1>1, <1>7, <3>1, GreatestNat
    <2>2. i # sl.level => i + 1 \in 0..sl.level /\ i + 1 \notin Bad
      BY <1>1, <2>1
    <2>3. i # sl.level => Chosen[i + 1] = Before(sl, i + 1, key)
      BY <2>2
    <2>4. Turn(Chosen, i) = Before(sl, i, key)
      <3> HIDE DEF Turn
      <3>1. QED
        BY <1>2, <2>3
    <2>5. QED
      BY <1>6, <2>4
  <1>8. QED
    BY <1>5, <1>6, <1>7

\* A search finds the key if and only if the list holds it.
LEMMA FoundIsHeld ==
    ASSUME NEW sl, ListOK(sl), NEW key \in Nat \ {0}
    PROVE  Found(sl, key) <=> key \in DOMAIN sl.value
  <1>1. 0 \in 0..MaxLevel /\ 0 \in 0..sl.level
    BY LevelAssumption DEF ListOK, HighestLevel
  <1>2. PICK m : m = Before(sl, 0, key) /\ IsBefore(sl, 0, key, m)
    BY <1>1, BeforeFacts
  <1>3. PICK f : f = sl.forward[m][0]
    OBVIOUS
  <1>4. \/ f = NULL /\ \A x \in Row(sl, 0) : x < key
        \/ f \in Row(sl, 0) /\ f # NULL /\ f >= key /\ \A x \in Row(sl, 0) : x >= key => f <= x
    BY <1>1, <1>2, <1>3, BehindBefore
  <1>5. Row(sl, 0) = {Header} \cup DOMAIN sl.value /\ Row(sl, 0) \in SUBSET Nat
    BY <1>1, RowFacts
  <1>6. f = key <=> key \in DOMAIN sl.value
    BY <1>4, <1>5 DEF NULL, Header
  <1>7. QED
    BY <1>1, <1>2, <1>3, <1>6, UpdateIsBefore DEF Found

----------------------------------------------------------------------------
\* insert_element.

\* A key that is there already stays as it is.
LEMMA InsertKept ==
    ASSUME NEW sl, ListOK(sl), NEW key \in Nat \ {0}, key \in DOMAIN sl.value, NEW v, NEW l
    PROVE  insert_element(sl, key, v, l) = sl
  BY FoundIsHeld DEF insert_element

\* The new node is linked behind the last node before the key at each of its levels.
LEMMA InsertShape ==
    ASSUME NEW sl, ListOK(sl), NEW key \in Key, key \notin DOMAIN sl.value, NEW v,
           NEW l \in get_random_level, NEW new, new = insert_element(sl, key, v, l)
    PROVE  /\ new.level = IF l > sl.level THEN l ELSE sl.level
           /\ new.value = With(sl.value, key, v)
           /\ DOMAIN new.forward = DOMAIN sl.forward \cup {key}
           /\ DOMAIN new.forward[key] = 0..l
           /\ \A i \in 0..l : new.forward[key][i] = sl.forward[Before(sl, i, key)][i]
           /\ \A n \in DOMAIN sl.forward :
                  /\ DOMAIN new.forward[n] = DOMAIN sl.forward[n]
                  /\ \A i \in DOMAIN sl.forward[n] :
                         new.forward[n][i] = IF i \in 0..l /\ Before(sl, i, key) = n
                                             THEN key ELSE sl.forward[n][i]
  <1>1. key \in Nat \ {0} /\ l \in 1..MaxLevel /\ MaxLevel \in Nat \ {0} /\ sl.level \in 0..MaxLevel
    BY KeyAssumption, LevelAssumption DEF get_random_level, ListOK, HighestLevel
  <1>2. ~Found(sl, key)
    BY <1>1, FoundIsHeld
  <1> DEFINE update == [i \in 0..l |-> IF i <= sl.level THEN Update(sl, key)[i] ELSE Header]
             Linked(n) == [i \in DOMAIN sl.forward[n] |->
                              IF i <= l /\ update[i] = n THEN key ELSE sl.forward[n][i]]
             linked == [n \in DOMAIN sl.forward |-> Linked(n)]
             own == [i \in 0..l |-> sl.forward[update[i]][i]]
  <1>3. ASSUME NEW i \in 0..l PROVE update[i] = Before(sl, i, key)
    <2>1. i \in 0..MaxLevel
      BY <1>1
    <2>2. CASE i <= sl.level
      <3>1. i \in 0..sl.level
        BY <1>1, <2>2
      <3>2. Update(sl, key)[i] = Before(sl, i, key)
        BY <1>1, <3>1, UpdateIsBefore
      <3>3. QED
        BY <2>2, <3>2
    <2>3. CASE i > sl.level
      <3>1. Row(sl, i) = {Header}
        BY <2>1, <2>3, RowFacts
      <3>2. IsBefore(sl, i, key, Header)
        BY <1>1, <3>1 DEF IsBefore, Header
      <3>3. Before(sl, i, key) = Header
        BY <1>1, <2>1, <3>2, BeforeFacts
      <3>4. QED
        BY <1>1, <2>3, <3>3
    <2>4. QED
      BY <1>1, <2>2, <2>3
  <1>4. /\ new.level = IF l > sl.level THEN l ELSE sl.level
        /\ new.value = With(sl.value, key, v)
        /\ new.forward = With(linked, key, own)
    BY <1>2 DEF insert_element
  <1>5. own = [i \in 0..l |-> sl.forward[Before(sl, i, key)][i]]
    <2> HIDE DEF update
    <2>1. QED
      BY <1>3
  <1>6. key \notin DOMAIN sl.forward
    BY <1>1 DEF ListOK, Towers, Header
  <1>7. ASSUME NEW n \in DOMAIN sl.forward
        PROVE  Linked(n) = [i \in DOMAIN sl.forward[n] |->
                               IF i \in 0..l /\ Before(sl, i, key) = n THEN key ELSE sl.forward[n][i]]
    <2>1. DOMAIN sl.forward[n] \subseteq Nat
      <3>1. CASE n = Header
        BY <1>1, <3>1 DEF ListOK, Towers
      <3>2. CASE n \in DOMAIN sl.value
        <4>1. PICK h \in get_random_level : DOMAIN sl.forward[n] = 0..h
          BY <3>2 DEF ListOK, Towers
        <4>2. QED
          BY <1>1, <4>1 DEF get_random_level
      <3>3. QED
        BY <3>1, <3>2 DEF ListOK, Towers
    <2>2. \A i \in DOMAIN sl.forward[n] : i <= l <=> i \in 0..l
      BY <1>1, <2>1
    <2> HIDE DEF update
    <2>3. QED
      BY <1>3, <2>2
  <1>8. /\ DOMAIN new.forward = DOMAIN sl.forward \cup {key}
        /\ new.forward[key] = own
        /\ \A n \in DOMAIN sl.forward : new.forward[n] = Linked(n)
    <2>1. PICK g : g = linked
      OBVIOUS
    <2>2. DOMAIN g = DOMAIN sl.forward /\ \A n \in DOMAIN sl.forward : g[n] = Linked(n)
      BY <2>1
    <2>3. new.forward = With(g, key, own)
      BY <1>4, <2>1
    <2> HIDE DEF linked, own, Linked
    <2>4. /\ DOMAIN new.forward = DOMAIN g \cup {key}
          /\ new.forward[key] = own
          /\ \A n \in DOMAIN g : n # key => new.forward[n] = g[n]
      BY <2>3 DEF With
    <2>5. QED
      BY <1>6, <2>2, <2>4
  <1> HIDE DEF Linked, own, linked
  <1>9. DOMAIN own = 0..l /\ \A i \in 0..l : own[i] = sl.forward[Before(sl, i, key)][i]
    BY <1>5
  <1>10. ASSUME NEW n \in DOMAIN sl.forward
         PROVE  /\ DOMAIN new.forward[n] = DOMAIN sl.forward[n]
                /\ \A i \in DOMAIN sl.forward[n] :
                       new.forward[n][i] = IF i \in 0..l /\ Before(sl, i, key) = n
                                           THEN key ELSE sl.forward[n][i]
    <2>1. new.forward[n] = [i \in DOMAIN sl.forward[n] |->
                               IF i \in 0..l /\ Before(sl, i, key) = n THEN key ELSE sl.forward[n][i]]
      BY <1>7, <1>8
    <2>2. QED
      BY <2>1
  <1>11. QED
    BY <1>4, <1>8, <1>9, <1>10

LEMMA InsertNew ==
    ASSUME NEW sl, ListOK(sl), NEW key \in Key, key \notin DOMAIN sl.value, NEW v,
           NEW l \in get_random_level
    PROVE  /\ ListOK(insert_element(sl, key, v, l))
           /\ insert_element(sl, key, v, l).value = With(sl.value, key, v)
  <1>1. key \in Nat \ {0} /\ l \in 1..MaxLevel /\ MaxLevel \in Nat \ {0} /\ sl.level \in 0..MaxLevel
    BY KeyAssumption, LevelAssumption DEF get_random_level, ListOK, HighestLevel
  <1>2. PICK new : new = insert_element(sl, key, v, l)
    OBVIOUS
  <1>3. /\ new.level = IF l > sl.level THEN l ELSE sl.level
        /\ new.value = With(sl.value, key, v)
        /\ DOMAIN new.forward = DOMAIN sl.forward \cup {key}
        /\ DOMAIN new.forward[key] = 0..l
        /\ \A i \in 0..l : new.forward[key][i] = sl.forward[Before(sl, i, key)][i]
        /\ \A n \in DOMAIN sl.forward :
               /\ DOMAIN new.forward[n] = DOMAIN sl.forward[n]
               /\ \A i \in DOMAIN sl.forward[n] :
                      new.forward[n][i] = IF i \in 0..l /\ Before(sl, i, key) = n
                                          THEN key ELSE sl.forward[n][i]
    BY <1>2, InsertShape
  <1>4. DOMAIN new.value = DOMAIN sl.value \cup {key} /\ new.value = [k \in DOMAIN new.value |-> new.value[k]]
    <2>1. PICK val : val = sl.value
      OBVIOUS
    <2>2. new.value = With(val, key, v)
      BY <1>3, <2>1
    <2>3. QED
      BY <2>1, <2>2 DEF With
  <1>5. key \notin DOMAIN sl.forward /\ DOMAIN sl.forward = {Header} \cup DOMAIN sl.value
    BY <1>1 DEF ListOK, Towers, Header
  <1>6. DOMAIN new.forward[key] = 0..l /\ \A n \in DOMAIN sl.forward : DOMAIN new.forward[n] = DOMAIN sl.forward[n]
    BY <1>3
  <1>7. \A i \in 0..MaxLevel : Row(new, i) = Row(sl, i) \cup (IF i <= l THEN {key} ELSE {})
    BY <1>1, <1>3, <1>5, <1>6 DEF Row
  <1>8. HoldsKeys(new)
    <2>1. PICK bound \in Nat : \A k \in DOMAIN sl.value : k <= bound
      BY DEF ListOK, HoldsKeys
    <2>2. \A k \in DOMAIN sl.value : k \in Nat
      BY KeyAssumption DEF ListOK, HoldsKeys
    <2>3. PICK more \in Nat : more = IF key > bound THEN key ELSE bound
      BY <1>1
    <2>4. \A k \in DOMAIN new.value : k <= more
      BY <1>1, <1>4, <2>1, <2>2, <2>3
    <2>5. DOMAIN new.value \subseteq Key
      BY <1>4 DEF ListOK, HoldsKeys
    <2>6. QED
      BY <1>4, <2>3, <2>4, <2>5 DEF HoldsKeys
  <1>9. Towers(new)
    <2>1. DOMAIN new.forward = {Header} \cup DOMAIN new.value
      BY <1>3, <1>4, <1>5
    <2>2. DOMAIN new.forward[Header] = 0..MaxLevel
      BY <1>5, <1>6 DEF ListOK, Towers
    <2>3. ASSUME NEW n \in DOMAIN new.value PROVE \E h \in get_random_level : DOMAIN new.forward[n] = 0..h
      <3>1. CASE n = key
        BY <1>6, <3>1
      <3>2. CASE n \in DOMAIN sl.value
        <4>1. PICK h \in get_random_level : DOMAIN sl.forward[n] = 0..h
          BY <3>2 DEF ListOK, Towers
        <4>2. QED
          BY <1>5, <1>6, <3>2, <4>1
      <3>3. QED
        BY <1>4, <3>1, <3>2
    <2>4. QED
      BY <2>1, <2>2, <2>3 DEF Towers
  <1>10. HighestLevel(new)
    <2>1. new.level \in 0..MaxLevel
      BY <1>1, <1>3
    <2>2. ASSUME NEW i \in 1..MaxLevel
          PROVE  i <= new.level <=> \E n \in DOMAIN new.value : n \in Row(new, i)
      <3>1. i <= sl.level <=> \E n \in DOMAIN sl.value : n \in Row(sl, i)
        BY DEF ListOK, HighestLevel
      <3>2. i \in 0..MaxLevel
        BY <1>1
      <3>3. Row(new, i) = Row(sl, i) \cup (IF i <= l THEN {key} ELSE {})
        BY <1>7, <3>2
      <3>4. key \notin Row(sl, i)
        BY <1>5 DEF Row
      <3>5. (\E n \in DOMAIN new.value : n \in Row(new, i))
               <=> i <= l \/ \E n \in DOMAIN sl.value : n \in Row(sl, i)
        BY <1>4, <3>3, <3>4
      <3>6. i <= new.level <=> i <= l \/ i <= sl.level
        BY <1>1, <1>3
      <3>7. QED
        BY <3>1, <3>5, <3>6
    <2>3. QED
      BY <2>1, <2>2 DEF HighestLevel
  <1>11. ASSUME NEW i \in 0..MaxLevel, NEW n \in Row(new, i)
         PROVE  LeadsTo(new, i, n, new.forward[n][i])
    <2>1. PICK R \in SUBSET Nat : R = Row(sl, i)
      BY RowFacts
    <2>2. key \notin R /\ R \subseteq DOMAIN sl.forward
      BY <1>5, <2>1 DEF Row
    <2>3. CASE i > l
      <3>1. Row(new, i) = R
        BY <1>1, <1>7, <2>1, <2>3
      <3>2. i \notin 0..l
        BY <1>1, <2>3
      <3>3. n \in DOMAIN sl.forward /\ i \in DOMAIN sl.forward[n]
        BY <2>1, <3>1 DEF Row
      <3>7. new.forward[n][i] = sl.forward[n][i]
        BY <1>3, <3>2, <3>3
      <3>4. LeadsTo(sl, i, n, sl.forward[n][i])
        BY <2>1, <3>1 DEF ListOK, InOrder
      <3>5. QED
        BY <2>1, <3>1, <3>7, <3>4 DEF LeadsTo
    <2>4. CASE i <= l
      <3>1. Row(new, i) = R \cup {key} /\ i \in 0..l
        BY <1>1, <1>7, <2>1, <2>4
      <3>2. PICK m \in R : /\ m = Before(sl, i, key) /\ IsBefore(sl, i, key, m)
                           /\ m < key /\ \A x \in R : x < key => x <= m
        BY <1>1, <2>1, BeforeFacts DEF IsBefore
      <3>7. \A x \in R : x \in DOMAIN sl.forward /\ i \in DOMAIN sl.forward[x]
        BY <2>1 DEF Row
      <3>8. \A x \in R : new.forward[x][i] = IF x = m THEN key ELSE sl.forward[x][i]
        BY <1>3, <3>1, <3>2, <3>7
      <3>3. CASE n = key
        <4>1. PICK f : f = sl.forward[m][i] /\ new.forward[n][i] = f
          BY <1>3, <3>1, <3>2, <3>3
        <4>2. \/ f = NULL /\ \A x \in R : x < key
              \/ f \in R /\ f # NULL /\ f >= key /\ \A x \in R : x >= key => f <= x
          BY <1>1, <2>1, <3>2, <4>1, BehindBefore
        <4>3. QED
          <5>1. key \in Nat /\ (\A x \in R : x \in Nat) /\ key \notin R
            BY <1>1, <2>2
          <5>2. CASE f = NULL /\ \A x \in R : x < key
            <6>1. ASSUME NEW x \in R \cup {key} PROVE x <= key
              <7>1. CASE x \in R
                BY <5>1, <5>2, <7>1
              <7>2. CASE x = key
                BY <5>1, <7>2
              <7>3. QED
                BY <7>1, <7>2
            <6>2. QED
              BY <3>1, <3>3, <4>1, <5>2, <6>1 DEF LeadsTo
          <5>3. CASE f \in R /\ f # NULL /\ f >= key /\ \A x \in R : x >= key => f <= x
            <6>1. f > key /\ f \in Row(new, i)
              <7>1. f \in Nat /\ f # key
                BY <5>1, <5>3
              <7>2. f > key
                BY <5>1, <5>3, <7>1
              <7>3. QED
                BY <3>1, <5>3, <7>2
            <6>2. ASSUME NEW x \in R \cup {key}, x > key PROVE f <= x
              <7>1. x \in R
                BY <5>1, <6>2
              <7>2. x >= key
                BY <5>1, <6>2, <7>1
              <7>3. QED
                BY <5>3, <7>1, <7>2
            <6>3. QED
              BY <3>1, <3>3, <4>1, <6>1, <6>2 DEF LeadsTo
          <5>4. QED
            BY <4>2, <5>2, <5>3
      <3>4. CASE n = m
        <4>1. new.forward[n][i] = key
          BY <3>4, <3>8
        <4>2. \A x \in R : x > m => key <= x
          BY <1>1, <3>2
        <4>3. key > n /\ key <= key
          <5>1. n \in Nat
            BY <3>2, <3>4
          <5>2. QED
            BY <1>1, <3>2, <3>4, <5>1
        <4>4. \A x \in R \cup {key} : x > n => key <= x
          BY <3>4, <4>2, <4>3
        <4>5. QED
          BY <3>1, <4>1, <4>3, <4>4 DEF LeadsTo
      <3>5. CASE n \in R \ {m}
        <4>1. PICK f : f = sl.forward[n][i] /\ new.forward[n][i] = f
          BY <3>5, <3>8
        <4>2. LeadsTo(sl, i, n, f)
          BY <2>1, <3>5, <4>1 DEF ListOK, InOrder
        <4>3. n < key => n < m
          BY <3>2, <3>5
        <4>4. CASE f = NULL /\ \A x \in R : x <= n
          <5>1. key <= n
            BY <1>1, <2>2, <3>2, <3>5, <4>3, <4>4
          <5>2. QED
            BY <3>1, <4>1, <4>4, <5>1 DEF LeadsTo
        <4>5. CASE f \in R /\ f > n /\ \A x \in R : x > n => f <= x
          <5>1. key > n => f <= key
            BY <1>1, <2>2, <3>2, <3>5, <4>3, <4>5
          <5>2. QED
            BY <3>1, <4>1, <4>5, <5>1 DEF LeadsTo
        <4>6. QED
          BY <2>1, <4>2, <4>4, <4>5 DEF LeadsTo
      <3>6. QED
        BY <3>1, <3>2, <3>3, <3>4, <3>5
    <2>5. QED
      BY <1>1, <2>3, <2>4
  <1>12. QED
    BY <1>2, <1>3, <1>8, <1>9, <1>10, <1>11 DEF ListOK, InOrder

----------------------------------------------------------------------------
\* delete_element.

\* The node is unlinked at each of its levels, and only there.
LEMMA DeleteShape ==
    ASSUME NEW sl, ListOK(sl), NEW key \in Key, key \in DOMAIN sl.value,
           NEW new, new = delete_element(sl, key)
    PROVE  /\ new.value = [k \in DOMAIN sl.value \ {key} |-> sl.value[k]]
           /\ DOMAIN new.forward = DOMAIN sl.forward \ {key}
           /\ \A n \in DOMAIN sl.forward \ {key} :
                  /\ DOMAIN new.forward[n] = DOMAIN sl.forward[n]
                  /\ \A i \in DOMAIN sl.forward[n] :
                         new.forward[n][i] = IF key \in Row(sl, i) /\ Before(sl, i, key) = n
                                             THEN sl.forward[key][i] ELSE sl.forward[n][i]
           /\ new.level # 0 => new.level \in 1..sl.level /\ new.forward[Header][new.level] # NULL
           /\ \A j \in 1..sl.level : new.forward[Header][j] # NULL => j <= new.level
  <1>1. key \in Nat \ {0} /\ MaxLevel \in Nat \ {0} /\ sl.level \in 0..MaxLevel
    BY KeyAssumption, LevelAssumption DEF ListOK, HighestLevel
  <1> DEFINE update == Update(sl, key)
             IsNext(i) == sl.forward[update[i]][i] = key
             Cut(i, n) == i <= sl.level /\ update[i] = n /\ (\A j \in 0..i : IsNext(j))
             Unlinked(n) == [i \in DOMAIN sl.forward[n] |->
                                IF i <= sl.level /\ update[i] = n /\ (\A j \in 0..i : IsNext(j))
                                THEN sl.forward[key][i] ELSE sl.forward[n][i]]
             forward == [n \in DOMAIN sl.forward \ {key} |-> Unlinked(n)]
             InUse == {i \in 1..sl.level : forward[Header][i] # NULL} \cup {0}
  <1>2. /\ new.value = Restrict(sl.value, DOMAIN sl.value \ {key})
        /\ new.forward = forward
        /\ new.level = CHOOSE i \in InUse : \A j \in InUse : j <= i
    <2>1. Found(sl, key)
      BY <1>1, FoundIsHeld
    <2>2. QED
      BY <2>1 DEF delete_element
  <1>3. ASSUME NEW i \in 0..sl.level
        PROVE  update[i] = Before(sl, i, key) /\ (IsNext(i) <=> key \in Row(sl, i))
    <2>1. PICK m : m = Before(sl, i, key) /\ update[i] = m
      BY <1>1, UpdateIsBefore
    <2>2. i \in 0..MaxLevel
      BY <1>1
    <2>3. IsBefore(sl, i, key, m)
      BY <1>1, <2>1, <2>2, BeforeFacts
    <2>4. PICK f : f = sl.forward[m][i]
      OBVIOUS
    <2>5. \/ f = NULL /\ \A x \in Row(sl, i) : x < key
          \/ f \in Row(sl, i) /\ f # NULL /\ f >= key /\ \A x \in Row(sl, i) : x >= key => f <= x
      BY <1>1, <2>2, <2>3, <2>4, BehindBefore
    <2>6. Row(sl, i) \in SUBSET Nat
      BY <2>2, RowFacts
    <2>7. f = key <=> key \in Row(sl, i)
      BY <1>1, <2>5, <2>6 DEF NULL
    <2>8. QED
      BY <2>1, <2>4, <2>7
  <1>4. ASSUME NEW n \in DOMAIN sl.forward \ {key}, NEW i \in DOMAIN sl.forward[n]
        PROVE  Cut(i, n) <=> key \in Row(sl, i) /\ Before(sl, i, key) = n
    <2>1. i \in 0..MaxLevel
      <3>1. CASE n = Header
        BY <3>1 DEF ListOK, Towers
      <3>2. CASE n \in DOMAIN sl.value
        <4>1. PICK h \in get_random_level : DOMAIN sl.forward[n] = 0..h
          BY <3>2 DEF ListOK, Towers
        <4>2. QED
          BY <1>1, <4>1 DEF get_random_level
      <3>3. QED
        BY <3>1, <3>2 DEF ListOK, Towers
    <2>2. key \in Row(sl, i) => i <= sl.level
      BY <1>1, <2>1, RowFacts DEF Header
    <2>3. key \in Row(sl, i) => \A j \in 0..i : key \in Row(sl, j)
      BY <2>1, RowFacts
    <2>4. CASE i <= sl.level
      <3>1. i \in 0..sl.level /\ i \in 0..i /\ 0..i \subseteq 0..sl.level
        BY <1>1, <2>1, <2>4
      <3> HIDE DEF update
      <3>2. QED
        BY <1>3, <2>3, <2>4, <3>1
    <2>5. CASE ~(i <= sl.level)
      BY <2>2, <2>5
    <2>6. QED
      BY <2>4, <2>5
  <1>5. ASSUME NEW n \in DOMAIN sl.forward \ {key}
        PROVE  /\ DOMAIN Unlinked(n) = DOMAIN sl.forward[n]
               /\ \A i \in DOMAIN sl.forward[n] :
                      Unlinked(n)[i] = IF key \in Row(sl, i) /\ Before(sl, i, key) = n
                                       THEN sl.forward[key][i] ELSE sl.forward[n][i]
    <2>1. ASSUME NEW i \in DOMAIN sl.forward[n]
          PROVE  Unlinked(n)[i] = IF Cut(i, n) THEN sl.forward[key][i] ELSE sl.forward[n][i]
      OBVIOUS
    <2>2. DOMAIN Unlinked(n) = DOMAIN sl.forward[n]
      OBVIOUS
    <2> HIDE DEF Unlinked, Cut
    <2>3. QED
      BY <1>4, <2>1, <2>2
  <1>6. ASSUME NEW n \in DOMAIN sl.forward \ {key} PROVE forward[n] = Unlinked(n)
    OBVIOUS
  <1>7. DOMAIN forward = DOMAIN sl.forward \ {key}
    OBVIOUS
  <1> HIDE DEF Unlinked, forward
  <1>8. /\ new.level # 0 => new.level \in 1..sl.level /\ new.forward[Header][new.level] # NULL
        /\ \A j \in 1..sl.level : new.forward[Header][j] # NULL => j <= new.level
    <2>1. new.level \in InUse /\ \A j \in InUse : j <= new.level
      <3>1. InUse \in SUBSET Nat /\ InUse # {} /\ \A x \in InUse : x <= sl.level
        BY <1>1
      <3>2. sl.level \in Nat
        BY <1>1
      <3> HIDE DEF InUse
      <3>3. \E x \in InUse : \A y \in InUse : y <= x
        BY <3>1, <3>2, GreatestNat
      <3>4. QED
        BY <1>2, <3>3
    <2>2. new.forward = forward
      BY <1>2
    <2>3. QED
      BY <2>1, <2>2
  <1>9. new.value = [k \in DOMAIN sl.value \ {key} |-> sl.value[k]]
    BY <1>2 DEF Restrict
  <1>10. ASSUME NEW n \in DOMAIN sl.forward \ {key}
         PROVE  /\ DOMAIN new.forward[n] = DOMAIN sl.forward[n]
                /\ \A i \in DOMAIN sl.forward[n] :
                       new.forward[n][i] = IF key \in Row(sl, i) /\ Before(sl, i, key) = n
                                           THEN sl.forward[key][i] ELSE sl.forward[n][i]
    <2>1. PICK g : g = Unlinked(n) /\ new.forward[n] = g
      BY <1>2, <1>6
    <2>2. QED
      BY <1>5, <2>1
  <1>11. DOMAIN new.forward = DOMAIN sl.forward \ {key}
    BY <1>2, <1>7
  <1>12. QED
    BY <1>8, <1>9, <1>10, <1>11

LEMMA DeleteHeld ==
    ASSUME NEW sl, ListOK(sl), NEW key \in Key, key \in DOMAIN sl.value
    PROVE  /\ ListOK(delete_element(sl, key))
           /\ delete_element(sl, key).value = [k \in DOMAIN sl.value \ {key} |-> sl.value[k]]
  <1>1. key \in Nat \ {0} /\ MaxLevel \in Nat \ {0} /\ sl.level \in 0..MaxLevel
    BY KeyAssumption, LevelAssumption DEF ListOK, HighestLevel
  <1>2. PICK new : new = delete_element(sl, key)
    OBVIOUS
  <1>3. /\ new.value = [k \in DOMAIN sl.value \ {key} |-> sl.value[k]]
        /\ DOMAIN new.forward = DOMAIN sl.forward \ {key}
        /\ \A n \in DOMAIN sl.forward \ {key} :
               /\ DOMAIN new.forward[n] = DOMAIN sl.forward[n]
               /\ \A i \in DOMAIN sl.forward[n] :
                      new.forward[n][i] = IF key \in Row(sl, i) /\ Before(sl, i, key) = n
                                          THEN sl.forward[key][i] ELSE sl.forward[n][i]
        /\ new.level # 0 => new.level \in 1..sl.level /\ new.forward[Header][new.level] # NULL
        /\ \A j \in 1..sl.level : new.forward[Header][j] # NULL => j <= new.level
    BY <1>2, DeleteShape
  <1>4. key # Header /\ DOMAIN sl.forward = {Header} \cup DOMAIN sl.value
    BY <1>1 DEF ListOK, Towers, Header
  <1>5. DOMAIN new.value = DOMAIN sl.value \ {key} /\ new.value = [k \in DOMAIN new.value |-> new.value[k]]
    BY <1>3
  <1>6. \A i \in 0..MaxLevel : Row(new, i) = Row(sl, i) \ {key}
    BY <1>3 DEF Row
  <1>7. HoldsKeys(new)
    <2>1. PICK bound \in Nat : \A k \in DOMAIN sl.value : k <= bound
      BY DEF ListOK, HoldsKeys
    <2>2. \A k \in DOMAIN new.value : k <= bound
      BY <1>5, <2>1
    <2>3. DOMAIN new.value \subseteq Key
      BY <1>5 DEF ListOK, HoldsKeys
    <2>4. QED
      BY <1>5, <2>2, <2>3 DEF HoldsKeys
  <1>8. Towers(new)
    <2>1. DOMAIN new.forward = {Header} \cup DOMAIN new.value
      BY <1>3, <1>4, <1>5
    <2>2. DOMAIN new.forward[Header] = 0..MaxLevel
      BY <1>3, <1>4 DEF ListOK, Towers
    <2>3. ASSUME NEW n \in DOMAIN new.value PROVE \E h \in get_random_level : DOMAIN new.forward[n] = 0..h
      <3>1. n \in DOMAIN sl.value /\ n # key
        BY <1>5
      <3>2. PICK h \in get_random_level : DOMAIN sl.forward[n] = 0..h
        BY <3>1 DEF ListOK, Towers
      <3>3. QED
        BY <1>3, <1>4, <3>1, <3>2
    <2>4. QED
      BY <2>1, <2>2, <2>3 DEF Towers
  \* The node behind a node is the one it was, unless that is the key.
  <1>9. ASSUME NEW i \in 0..MaxLevel, NEW n \in Row(new, i)
        PROVE  LeadsTo(new, i, n, new.forward[n][i])
    <2>1. PICK R \in SUBSET Nat : R = Row(sl, i)
      BY RowFacts
    <2>2. Row(new, i) = R \ {key} /\ n \in R /\ n # key /\ \A x \in R : x \in Nat
      BY <1>6, <2>1
    <2>3. n \in DOMAIN sl.forward \ {key} /\ i \in DOMAIN sl.forward[n]
      BY <2>1, <2>2 DEF Row
    <2>4. PICK m : m = Before(sl, i, key)
      OBVIOUS
    <2>5. m \in R /\ m < key /\ \A x \in R : x < key => x <= m
      BY <1>1, <2>1, <2>4, BeforeFacts DEF IsBefore
    <2>6. PICK f : f = sl.forward[n][i] /\ LeadsTo(sl, i, n, f)
      BY <2>1, <2>2 DEF ListOK, InOrder
    <2>7. new.forward[n][i] = IF key \in R /\ m = n THEN sl.forward[key][i] ELSE f
      BY <1>3, <2>1, <2>3, <2>4, <2>6
    <2>8. CASE key \in R /\ m = n
      <3>1. PICK g : g = sl.forward[key][i] /\ LeadsTo(sl, i, key, g)
        BY <2>1, <2>8 DEF ListOK, InOrder
      <3>2. new.forward[n][i] = g
        BY <2>7, <2>8, <3>1
      <3>3. \A x \in R \ {key} : x > n => x > key
        BY <1>1, <2>2, <2>5, <2>8
      <3>4. CASE g = NULL /\ \A x \in R : x <= key
        <4>1. ASSUME NEW x \in R \ {key} PROVE x <= n
          <5>1. x < key
            BY <1>1, <2>2, <3>4
          <5>2. QED
            BY <2>5, <2>8, <5>1
        <4>2. QED
          BY <2>2, <3>2, <3>4, <4>1 DEF LeadsTo
      <3>5. CASE g \in R /\ g > key /\ \A x \in R : x > key => g <= x
        <4>1. g \in R \ {key} /\ g > n
          <5>1. n < key /\ n \in Nat /\ g \in Nat /\ key \in Nat
            BY <1>1, <2>2, <2>5, <2>8, <3>5
          <5>2. QED
            BY <3>5, <5>1
        <4>2. QED
          BY <2>2, <3>2, <3>3, <3>5, <4>1 DEF LeadsTo
      <3>6. QED
        BY <2>1, <3>1, <3>4, <3>5 DEF LeadsTo
    <2>9. CASE ~(key \in R /\ m = n)
      <3>1. new.forward[n][i] = f
        BY <2>7, <2>9
      <3>2. CASE f = NULL /\ \A x \in R : x <= n
        BY <2>2, <3>1, <3>2 DEF LeadsTo
      <3>3. CASE f \in R /\ f > n /\ \A x \in R : x > n => f <= x
        <4>1. f # key
          <5>1. SUFFICES ASSUME f = key PROVE FALSE
            OBVIOUS
          <5>2. \A x \in R : x < key => x <= n
            BY <1>1, <2>2, <3>3, <5>1
          <5>3. n <= m /\ m <= n
            BY <1>1, <2>2, <2>5, <3>3, <5>1, <5>2
          <5>4. n = m
            <6>1. n \in Nat /\ m \in Nat
              BY <2>2, <2>5
            <6>2. QED
              BY <5>3, <6>1
          <5>5. QED
            BY <2>9, <3>3, <5>1, <5>4
        <4>2. QED
          BY <2>2, <3>1, <3>3, <4>1 DEF LeadsTo
      <3>4. QED
        BY <2>1, <2>6, <3>2, <3>3 DEF LeadsTo
    <2>10. QED
      BY <2>8, <2>9
  <1>10. HighestLevel(new)
    <2>3. \A i \in 1..MaxLevel : /\ i \in 0..MaxLevel /\ Header \in Row(new, i)
                                 /\ Row(new, i) \in SUBSET Nat
                                 /\ Row(new, i) \subseteq {Header} \cup DOMAIN new.value
                                 /\ i \in 1..sl.level \/ Row(sl, i) = {Header}
      <3>1. ASSUME NEW i \in 1..MaxLevel PROVE i \in 0..MaxLevel
        BY <1>1
      <3>2. \A i \in 1..MaxLevel : i > sl.level \/ i \in 1..sl.level
        BY <1>1
      <3>3. QED
        BY <1>4, <1>5, <1>6, <3>1, <3>2, RowFacts
    \* A level is in use if and only if it has a node.
    <2>4. ASSUME NEW i \in 1..MaxLevel
          PROVE  i \in 1..sl.level /\ new.forward[Header][i] # NULL
                    <=> \E n \in DOMAIN new.value : n \in Row(new, i)
      <3>1. PICK f : f = new.forward[Header][i] /\ LeadsTo(new, i, Header, f)
        BY <1>9, <2>3
      <3>2. \A n \in DOMAIN new.value : n > Header
        BY <1>5, KeyAssumption DEF ListOK, HoldsKeys, Header
      <3>3. f # NULL <=> \E n \in DOMAIN new.value : n \in Row(new, i)
        <4>1. CASE f = NULL /\ \A x \in Row(new, i) : x <= Header
          <5>1. ASSUME NEW n \in DOMAIN new.value, n \in Row(new, i) PROVE FALSE
            <6>1. n > Header /\ n <= Header /\ n \in Nat
              BY <2>3, <3>2, <4>1, <5>1
            <6>2. QED
              BY <6>1 DEF Header
          <5>2. QED
            BY <4>1, <5>1
        <4>2. CASE f \in Row(new, i) /\ f > Header
          BY <2>3, <4>2 DEF Header, NULL
        <4>3. QED
          BY <3>1, <4>1, <4>2 DEF LeadsTo
      <3>4. i \notin 1..sl.level => ~\E n \in DOMAIN new.value : n \in Row(new, i)
        BY <1>5, <1>6, <2>3, <3>2 DEF Header
      <3>5. QED
        BY <3>1, <3>3, <3>4
    <2>5. new.level \in 0..MaxLevel
      BY <1>1, <1>3
    <2>6. ASSUME NEW i \in 1..MaxLevel
          PROVE  i <= new.level <=> \E n \in DOMAIN new.value : n \in Row(new, i)
      <3>1. CASE i <= new.level
        <4>1. new.level \in 1..MaxLevel /\ i \in 0..new.level
          BY <1>1, <2>5, <3>1
        <4>2. PICK n \in DOMAIN new.value : n \in Row(new, new.level)
          BY <1>3, <2>4, <4>1
        <4>3. PICK h \in 1..MaxLevel : DOMAIN new.forward[n] = 0..h
          BY <1>8 DEF Towers, get_random_level
        <4>4. new.level \in 0..h /\ n \in DOMAIN new.forward
          BY <4>2, <4>3 DEF Row
        <4>5. i \in 0..h
          BY <1>1, <2>5, <3>1, <4>4
        <4>6. n \in Row(new, i)
          BY <4>3, <4>4, <4>5 DEF Row
        <4>7. QED
          BY <3>1, <4>6
      <3>2. CASE \E n \in DOMAIN new.value : n \in Row(new, i)
        BY <1>3, <2>4, <3>2
      <3>3. QED
        BY <3>1, <3>2
    <2>7. QED
      BY <2>5, <2>6 DEF HighestLevel
  <1>11. QED
    BY <1>2, <1>3, <1>7, <1>8, <1>9, <1>10 DEF ListOK, InOrder

----------------------------------------------------------------------------
\* What the operations of the interface do to a list.

EmptyMap == [k \in {} |-> NULL]

LEMMA EmptyOK == ListOK(EmptyList) /\ EmptyList.value = EmptyMap
  <1>1. MaxLevel \in Nat \ {0}
    BY LevelAssumption
  <1>2. PICK sl : sl = EmptyList
    OBVIOUS
  <1>3. /\ sl.level = 0 /\ DOMAIN sl.value = {} /\ DOMAIN sl.forward = {Header} /\ sl.value = EmptyMap
        /\ sl.value = [k \in DOMAIN sl.value |-> sl.value[k]]
        /\ DOMAIN sl.forward[Header] = 0..MaxLevel
        /\ \A i \in 0..MaxLevel : sl.forward[Header][i] = NULL
    BY <1>2 DEF EmptyList, NewPointers, EmptyMap
  <1>4. \A i \in 0..MaxLevel : Row(sl, i) = {Header}
    BY <1>3 DEF Row
  <1>5. HoldsKeys(sl)
    <2>1. \A k \in DOMAIN sl.value : k <= 0
      BY <1>3
    <2>2. QED
      BY <1>3, <2>1 DEF HoldsKeys
  <1>6. Towers(sl)
    BY <1>3 DEF Towers
  <1>7. HighestLevel(sl)
    BY <1>1, <1>3 DEF HighestLevel
  <1>8. InOrder(sl)
    BY <1>3, <1>4 DEF InOrder, LeadsTo, Header
  <1>9. QED
    BY <1>2, <1>3, <1>5, <1>6, <1>7, <1>8 DEF ListOK

LEMMA SetOK ==
    ASSUME NEW sl, ListOK(sl), NEW key \in Key, NEW v, NEW l \in get_random_level
    PROVE  /\ ListOK(insert_set_element(sl, key, v, l))
           /\ insert_set_element(sl, key, v, l).value = With(sl.value, key, v)
  <1>1. key \in Nat \ {0}
    BY KeyAssumption
  <1>2. search_element(sl, key).exist <=> key \in DOMAIN sl.value
    BY <1>1, FoundIsHeld DEF search_element
  <1>3. CASE key \in DOMAIN sl.value
    <2>1. PICK mid : /\ mid = delete_element(sl, key) /\ ListOK(mid)
                     /\ mid.value = [k \in DOMAIN sl.value \ {key} |-> sl.value[k]]
      BY <1>3, DeleteHeld
    <2>2. insert_set_element(sl, key, v, l) = insert_element(mid, key, v, l)
      BY <1>2, <1>3, <2>1 DEF insert_set_element
    <2>3. key \notin DOMAIN mid.value
      BY <2>1
    <2>4. /\ ListOK(insert_element(mid, key, v, l))
          /\ insert_element(mid, key, v, l).value = With(mid.value, key, v)
      BY <2>1, <2>3, InsertNew
    <2>5. With(mid.value, key, v) = With(sl.value, key, v)
      BY <1>3, <2>1 DEF With
    <2>6. QED
      BY <2>2, <2>4, <2>5
  <1>4. CASE key \notin DOMAIN sl.value
    <2>1. insert_set_element(sl, key, v, l) = insert_element(sl, key, v, l)
      BY <1>2, <1>4 DEF insert_set_element
    <2>2. QED
      BY <1>4, <2>1, InsertNew
  <1>5. QED
    BY <1>3, <1>4

LEMMA DeleteOK ==
    ASSUME NEW sl, ListOK(sl), NEW key \in Key
    PROVE  /\ ListOK(delete_element(sl, key))
           /\ delete_element(sl, key).value = Restrict(sl.value, DOMAIN sl.value \ {key})
  <1>1. CASE key \in DOMAIN sl.value
    BY <1>1, DeleteHeld DEF Restrict
  <1>2. CASE key \notin DOMAIN sl.value
    <2>1. delete_element(sl, key) = sl
      BY <1>2, KeyAssumption, FoundIsHeld DEF delete_element
    <2>2. DOMAIN sl.value \ {key} = DOMAIN sl.value
      BY <1>2
    <2>3. QED
      BY <2>1, <2>2 DEF Restrict, ListOK, HoldsKeys
  <1>3. QED
    BY <1>1, <1>2

LEMMA SearchIs ==
    ASSUME NEW sl, ListOK(sl), NEW key \in Key
    PROVE  search_element(sl, key) =
               IF key \in DOMAIN sl.value THEN [exist |-> TRUE, value |-> sl.value[key]]
               ELSE [exist |-> FALSE, value |-> NULL]
  BY KeyAssumption, FoundIsHeld DEF search_element

----------------------------------------------------------------------------
\* The nodes along a level.

\* The numbers of a set in increasing order.
IsChain(s, S) ==
    /\ s \in Seq(S)
    /\ \A a, b \in 1..Len(s) : a < b => s[a] < s[b]
    /\ \A x \in S : \E j \in 1..Len(s) : s[j] = x

LEMMA ConsChain ==
    ASSUME NEW f \in Nat, NEW S \in SUBSET Nat, NEW s, IsChain(s, S), \A x \in S : f < x
    PROVE  IsChain(<<f>> \o s, {f} \cup S)
  <1>1. s \in Seq(S) /\ Len(s) \in Nat /\ \A j \in 1..Len(s) : s[j] \in S
    BY DEF IsChain
  <1>2. PICK t : t = <<f>> \o s
    OBVIOUS
  <1>3. /\ t \in Seq({f} \cup S) /\ Len(t) = Len(s) + 1 /\ t[1] = f
        /\ \A j \in 2..Len(t) : t[j] = s[j - 1] /\ j - 1 \in 1..Len(s)
    <2>1. <<f>> \in Seq({f} \cup S) /\ s \in Seq({f} \cup S)
      BY <1>1
    <2>2. QED
      BY <1>1, <1>2, <2>1
  <1>4. ASSUME NEW a \in 1..Len(t), NEW b \in 1..Len(t), a < b PROVE t[a] < t[b]
    <2>1. b \in 2..Len(t)
      BY <1>1, <1>3, <1>4
    <2>2. CASE a = 1
      BY <1>1, <1>3, <2>1, <2>2
    <2>3. CASE a # 1
      <3>1. a \in 2..Len(t) /\ a - 1 < b - 1
        BY <1>1, <1>3, <1>4, <2>3
      <3>2. QED
        BY <1>3, <2>1, <3>1 DEF IsChain
    <2>4. QED
      BY <2>2, <2>3
  <1>5. ASSUME NEW x \in {f} \cup S PROVE \E j \in 1..Len(t) : t[j] = x
    <2>1. CASE x = f
      BY <1>1, <1>3, <2>1
    <2>2. CASE x \in S
      <3>1. PICK j \in 1..Len(s) : s[j] = x
        BY <2>2 DEF IsChain
      <3>2. j + 1 \in 2..Len(t) /\ (j + 1) - 1 = j
        BY <1>1, <1>3
      <3>3. t[j + 1] = x /\ j + 1 \in 1..Len(t)
        BY <1>1, <1>3, <3>1, <3>2
      <3>4. QED
        BY <3>3
    <2>3. QED
      BY <2>1, <2>2
  <1>6. QED
    BY <1>2, <1>3, <1>4, <1>5 DEF IsChain

\* It has as many elements as the set has members.
LEMMA ChainCounts ==
    ASSUME NEW S \in SUBSET Nat, NEW s, IsChain(s, S)
    PROVE  Cardinality(S) = Len(s)
  <1>1. s \in Seq(S) /\ Len(s) \in Nat /\ s \in [1..Len(s) -> S]
    BY DEF IsChain
  <1>2. ASSUME NEW a \in 1..Len(s), NEW b \in 1..Len(s), s[a] = s[b] PROVE a = b
    <2>1. a \in Nat /\ b \in Nat /\ s[a] \in Nat /\ s[b] \in Nat
      <3>1. s[a] \in S /\ s[b] \in S /\ a \in Nat /\ b \in Nat
        BY <1>1
      <3>2. QED
        BY <3>1
    <2>2. ~(a < b) /\ ~(b < a)
      BY <1>2, <2>1 DEF IsChain
    <2>3. QED
      BY <2>1, <2>2
  <1>3. \A x \in S : \E j \in 1..Len(s) : s[j] = x
    BY DEF IsChain
  <1>4. s \in Bijection(1..Len(s), S)
    BY <1>1, <1>2, <1>3 DEF Bijection, Injection, IsInjective, Surjection
  <1>5. ExistsBijection(1..Len(s), S)
    BY <1>4 DEF ExistsBijection
  <1>6. QED
    BY <1>1, <1>5, FS_CountingElements

\* What Chain computes from every node of a level.
ChainStep(sl, i, from, n) ==
    IF sl.forward[n][i] = NULL THEN << >>
    ELSE <<sl.forward[n][i]>> \o from[sl.forward[n][i]]

\* Following the pointers from a node has a result.
LEMMA ChainUnfolds ==
    ASSUME NEW sl, ListOK(sl), NEW i \in 0..MaxLevel
    PROVE  \E from : /\ from = [n \in Row(sl, i) |-> ChainStep(sl, i, from, n)]
                     /\ Chain(sl, i) = from[Header]
  <1>1. PICK R \in SUBSET Nat : R = Row(sl, i) /\ Header \in R
    BY RowFacts
  <1> DEFINE From(n) == {x \in R : x >= n}
             Has(g, n) == g = [x \in From(n) |-> ChainStep(sl, i, g, x)]
             Bad == {n \in R : ~\E g : Has(g, n)}
  <1>2. PICK bound \in Nat : \A x \in R : x <= bound
    BY <1>1, RowBound
  <1>3. ASSUME Bad # {} PROVE FALSE
    <2>1. PICK n \in Bad : \A d \in Bad : d <= n
      <3>1. Bad \in SUBSET Nat /\ \A x \in Bad : x <= bound
        BY <1>1, <1>2
      <3> HIDE DEF Bad
      <3>2. QED
        BY <1>2, <1>3, <3>1, GreatestNat
    <2>2. n \in R /\ n \in Nat /\ \A x \in R : x \in Nat
      BY <1>1, <2>1
    <2>3. PICK f : f = sl.forward[n][i] /\ LeadsTo(sl, i, n, f)
      BY <1>1, <2>2 DEF ListOK, InOrder
    <2>4. CASE f = NULL /\ \A x \in R : x <= n
      <3> DEFINE g == [x \in From(n) |-> << >>]
      <3>1. From(n) = {n}
        <4>1. ASSUME NEW x \in R, x >= n PROVE x = n
          <5>1. x <= n /\ x \in Nat
            BY <2>2, <2>4
          <5>2. QED
            BY <2>2, <4>1, <5>1
        <4>2. n >= n
          BY <2>2
        <4>3. QED
          BY <2>2, <4>1, <4>2
      <3>2. ChainStep(sl, i, g, n) = << >>
        BY <2>3, <2>4 DEF ChainStep
      <3>3. \A x \in From(n) : ChainStep(sl, i, g, x) = << >>
        <4> HIDE DEF g, From
        <4>1. QED
          BY <3>1, <3>2
      <3>4. Has(g, n)
        BY <3>3
      <3> HIDE DEF Has, g
      <3>5. QED
        BY <2>1, <3>4
    <2>5. CASE f \in R /\ f > n /\ f # NULL /\ \A x \in R : x > n => f <= x
      <3>1. f \notin Bad /\ f \in Nat
        <4>1. f \in Nat /\ ~(f <= n)
          BY <2>2, <2>5
        <4> HIDE DEF Bad
        <4>2. QED
          BY <2>1, <4>1
      <3>2. PICK h : Has(h, f)
        BY <2>5, <3>1
      <3> DEFINE g == [x \in From(n) |-> IF x = n THEN <<f>> \o h[f] ELSE h[x]]
      <3>3. From(n) = {n} \cup From(f) /\ n \notin From(f) /\ f \in From(f)
        <4>1. ASSUME NEW x \in R PROVE x >= n <=> x = n \/ x >= f
          <5>1. x \in Nat /\ (x > n => f <= x)
            BY <2>2, <2>5
          <5>2. QED
            BY <2>2, <2>5, <3>1, <5>1
        <4>2. f >= f /\ ~(n >= f)
          BY <2>2, <2>5, <3>1
        <4>3. QED
          BY <2>2, <2>5, <4>1, <4>2
      <3>4. ASSUME NEW x \in From(f)
            PROVE  h[x] = ChainStep(sl, i, h, x) /\ g[x] = h[x]
        <4>1. h[x] = ChainStep(sl, i, h, x)
          BY <3>2
        <4>2. x \in From(n) /\ x # n
          BY <3>3
        <4>3. QED
          BY <4>1, <4>2
      <3>5. ASSUME NEW x \in From(f) PROVE ChainStep(sl, i, h, x) = ChainStep(sl, i, g, x)
        <4>1. x \in R /\ x \in Nat
          BY <2>2
        <4>2. PICK y : y = sl.forward[x][i] /\ LeadsTo(sl, i, x, y)
          BY <1>1, <4>1 DEF ListOK, InOrder
        <4>3. y # NULL => y \in From(f)
          BY <1>1, <2>2, <3>1, <4>1, <4>2 DEF LeadsTo
        <4>4. y # NULL => g[y] = h[y]
          BY <3>4, <4>3
        <4> HIDE DEF g
        <4>5. QED
          BY <4>2, <4>4 DEF ChainStep
      <3>6. g[n] = ChainStep(sl, i, g, n)
        <4>1. g[f] = h[f] /\ n \in From(n)
          BY <3>3, <3>4
        <4>2. g[n] = <<f>> \o h[f]
          BY <4>1
        <4> HIDE DEF g
        <4>3. QED
          BY <2>3, <2>5, <4>1, <4>2 DEF ChainStep
      <3>7. \A x \in From(n) : g[x] = ChainStep(sl, i, g, x)
        <4> HIDE DEF g, From
        <4>1. QED
          BY <3>3, <3>4, <3>5, <3>6
      <3>8. Has(g, n)
        BY <3>7
      <3> HIDE DEF Has, g
      <3>9. QED
        BY <2>1, <3>8
    <2>6. QED
      <3>1. f \in R /\ f > n => f # NULL
        BY <2>2 DEF NULL
      <3>2. QED
        BY <1>1, <2>3, <2>4, <2>5, <3>1 DEF LeadsTo
  <1> DEFINE Is(g) == g = [n \in Row(sl, i) |-> ChainStep(sl, i, g, n)]
             Chosen == CHOOSE g : Is(g)
  <1>4. \E g : Is(g)
    <2>1. PICK g : Has(g, Header)
      <3>1. Header \in R /\ Header \notin Bad
        BY <1>1, <1>3
      <3> HIDE DEF Has
      <3>2. QED
        BY <3>1
    <2>2. From(Header) = Row(sl, i)
      BY <1>1 DEF Header
    <2>3. Is(g)
      BY <2>1, <2>2
    <2>4. QED
      BY <2>3
  <1>5. Is(Chosen)
    <2> HIDE DEF Is
    <2>1. QED
      BY <1>4
  <1>6. Chain(sl, i) = Chosen[Header]
    BY DEF Chain, ChainStep
  <1> HIDE DEF Chosen
  <1>7. QED
    BY <1>5, <1>6

\* It is the nodes of the level, in order.
LEMMA ChainFacts ==
    ASSUME NEW sl, ListOK(sl), NEW i \in 0..MaxLevel
    PROVE  IsChain(Chain(sl, i), Row(sl, i) \ {Header})
  <1>1. PICK R \in SUBSET Nat : R = Row(sl, i) /\ Header \in R
    BY RowFacts
  <1>2. PICK from : /\ from = [n \in Row(sl, i) |-> ChainStep(sl, i, from, n)]
                    /\ Chain(sl, i) = from[Header]
    BY ChainUnfolds
  <1>3. PICK bound \in Nat : \A x \in R : x <= bound
    BY <1>1, RowBound
  <1> DEFINE Behind(n) == {x \in R : x > n}
             Bad == {n \in R : ~IsChain(from[n], Behind(n))}
  <1>4. ASSUME Bad # {} PROVE FALSE
    <2>1. PICK n \in Bad : \A d \in Bad : d <= n
      <3>1. Bad \in SUBSET Nat /\ \A x \in Bad : x <= bound
        BY <1>1, <1>3
      <3> HIDE DEF Bad
      <3>2. QED
        BY <1>3, <1>4, <3>1, GreatestNat
    <2>2. n \in R /\ n \in Nat /\ \A x \in R : x \in Nat
      BY <1>1, <2>1
    <2>3. PICK f : f = sl.forward[n][i] /\ LeadsTo(sl, i, n, f)
      BY <1>1, <2>2 DEF ListOK, InOrder
    <2>4. from[n] = IF f = NULL THEN << >> ELSE <<f>> \o from[f]
      BY <1>1, <1>2, <2>2, <2>3 DEF ChainStep
    <2>5. CASE f = NULL /\ \A x \in R : x <= n
      <3>1. Behind(n) = {}
        <4>1. ASSUME NEW x \in R, x > n PROVE FALSE
          <5>1. x <= n /\ x \in Nat
            BY <2>2, <2>5
          <5>2. QED
            BY <2>2, <4>1, <5>1
        <4>2. QED
          BY <4>1
      <3>2. IsChain(<< >>, {})
        BY DEF IsChain
      <3>3. QED
        BY <2>1, <2>4, <2>5, <3>1, <3>2
    <2>6. CASE f \in R /\ f > n /\ f # NULL /\ \A x \in R : x > n => f <= x
      <3>1. f \notin Bad /\ f \in Nat
        BY <2>1, <2>2, <2>6
      <3>2. IsChain(from[f], Behind(f))
        BY <2>6, <3>1
      <3>3. Behind(n) = {f} \cup Behind(f) /\ Behind(f) \in SUBSET Nat
        <4>1. ASSUME NEW x \in R PROVE x > n <=> x = f \/ x > f
          <5>1. x \in Nat /\ (x > n => f <= x)
            BY <2>2, <2>6
          <5>2. QED
            BY <2>2, <2>6, <3>1, <5>1
        <4>2. QED
          BY <2>2, <2>6, <4>1
      <3>4. \A x \in Behind(f) : f < x
        BY <2>2, <3>1
      <3> HIDE DEF Behind
      <3>5. IsChain(<<f>> \o from[f], {f} \cup Behind(f))
        BY <3>1, <3>2, <3>3, <3>4, ConsChain
      <3>6. IsChain(from[n], Behind(n))
        BY <2>4, <2>6, <3>3, <3>5
      <3>7. QED
        BY <2>1, <3>6
    <2>7. QED
      <3>1. f \in R /\ f > n => f # NULL
        BY <2>2 DEF NULL
      <3>2. QED
        BY <1>1, <2>3, <2>5, <2>6, <3>1 DEF LeadsTo
  <1>5. IsChain(from[Header], Behind(Header))
    BY <1>1, <1>4
  <1>6. Behind(Header) = R \ {Header}
    BY <1>1 DEF Header
  <1> HIDE DEF Behind
  <1>7. QED
    BY <1>1, <1>2, <1>5, <1>6

----------------------------------------------------------------------------
\* A dump and its load.

\* The keys of a dump are the keys of the list.
LEMMA DumpFacts ==
    ASSUME NEW sl, ListOK(sl)
    PROVE  IsChain(dump_file(sl).keyDumpVt_, DOMAIN sl.value)
  <1>1. 0 \in 0..MaxLevel
    BY LevelAssumption
  <1>2. Row(sl, 0) \ {Header} = DOMAIN sl.value
    BY <1>1, RowFacts
  <1>3. IsChain(Chain(sl, 0), DOMAIN sl.value)
    BY <1>1, <1>2, ChainFacts
  <1>4. QED
    BY <1>3 DEF dump_file

\* The list after each turn of the loop over the keys of a dump.
IsLoad(load, sl, keys, levels) ==
    /\ load[0] = sl
    /\ \A j \in 1..Len(keys) : load[j] = insert_element(load[j - 1], keys[j], keys[j], levels[j])

\* The turns of the loop have a result.
LEMMA LoadUnfolds ==
    ASSUME NEW sl, NEW dump, NEW keys, keys = dump.keyDumpVt_, NEW len \in Nat, len = Len(keys), NEW levels
    PROVE  \E load : IsLoad(load, sl, keys, levels) /\ load_file(sl, dump, levels) = load[len]
  <1> DEFINE Turn(k, before) == insert_element(before, keys[k], keys[k], levels[k])
             Is(f, n) == f = [k \in 0..n |-> IF k = 0 THEN sl ELSE Turn(k, f[k - 1])]
             T == {n \in 0..len : \E f : Is(f, n)}
             Chosen == CHOOSE f : Is(f, len)
  <1>1. load_file(sl, dump, levels) = Chosen[len]
    BY DEF load_file
  <1> HIDE DEF Turn
  <1>2. len \in Nat
    OBVIOUS
  <1>3. 0 \in T
    <2>1. Is([k \in 0..0 |-> sl], 0)
      OBVIOUS
    <2> HIDE DEF Is
    <2>2. \E f : Is(f, 0)
      BY <2>1, Zenon
    <2>3. QED
      BY <1>2, <2>2
  <1>4. ASSUME NEW n \in 1..len, n - 1 \in T PROVE n \in T
    <2>1. PICK f : Is(f, n - 1)
      BY <1>4
    <2> DEFINE g == [k \in 0..n |-> IF k = n THEN Turn(n, f[n - 1]) ELSE f[k]]
    <2>2. ASSUME NEW k \in 0..n
          PROVE  g[k] = IF k = 0 THEN sl ELSE Turn(k, g[k - 1])
      <3>1. CASE k = n
        BY <1>2, <3>1
      <3>2. CASE k # n
        <4>1. k \in 0..(n - 1) /\ g[k] = f[k]
          BY <1>2, <3>2
        <4>2. f[k] = IF k = 0 THEN sl ELSE Turn(k, f[k - 1])
          BY <2>1, <4>1
        <4>3. k # 0 => g[k - 1] = f[k - 1]
          BY <1>2, <4>1
        <4>4. QED
          BY <4>1, <4>2, <4>3
      <3>3. QED
        BY <3>1, <3>2
    <2>3. Is(g, n)
      BY <2>2
    <2> HIDE DEF Is, g
    <2>4. \E h : Is(h, n)
      BY <2>3, Zenon
    <2>5. QED
      BY <1>2, <2>4
  <1>5. \E f : Is(f, len)
    <2> HIDE DEF T
    <2>1. \A k \in 0..len : k \in T
      BY <1>2, <1>3, <1>4, UpTo
    <2>2. len \in T
      BY <1>2, <2>1
    <2>3. QED
      BY <2>2 DEF T
  <1>6. Is(Chosen, len)
    <2> HIDE DEF Is
    <2>1. QED
      BY <1>5
  <1> HIDE DEF Chosen
  <1>7. Chosen[0] = sl /\ \A j \in 1..len : Chosen[j] = Turn(j, Chosen[j - 1])
    <2>1. ASSUME NEW j \in 0..len PROVE Chosen[j] = IF j = 0 THEN sl ELSE Turn(j, Chosen[j - 1])
      BY <1>6, Zenon
    <2>2. 0 \in 0..len /\ \A j \in 1..len : j \in 0..len /\ j # 0
      BY <1>2
    <2>3. QED
      BY <2>1, <2>2
  <1>8. QED
    BY <1>1, <1>7 DEF Turn, IsLoad

\* A loaded list holds what it held and every key of the dump, the new ones with themselves as values.
LEMMA LoadOK ==
    ASSUME NEW sl, ListOK(sl), NEW dump, dump.keyDumpVt_ \in Seq(Key),
           NEW levels \in LevelsFor(dump, get_random_level)
    PROVE  /\ ListOK(load_file(sl, dump, levels))
           /\ DOMAIN load_file(sl, dump, levels).value = DOMAIN sl.value \cup Range(dump.keyDumpVt_)
           /\ \A k \in DOMAIN sl.value \cup Range(dump.keyDumpVt_) :
                  load_file(sl, dump, levels).value[k] = IF k \in DOMAIN sl.value THEN sl.value[k] ELSE k
  <1>1. PICK keys \in Seq(Key) : keys = dump.keyDumpVt_
    OBVIOUS
  <1>2. PICK len \in Nat : len = Len(keys) /\ DOMAIN keys = 1..len /\ \A j \in 1..len : keys[j] \in Key
    OBVIOUS
  <1>3. \A j \in 1..len : levels[j] \in get_random_level
    BY <1>1, <1>2 DEF LevelsFor
  <1>4. PICK load : /\ load[0] = sl
                    /\ \A j \in 1..len : load[j] = insert_element(load[j - 1], keys[j], keys[j], levels[j])
                    /\ load_file(sl, dump, levels) = load[len]
    <2>1. PICK f : IsLoad(f, sl, keys, levels) /\ load_file(sl, dump, levels) = f[len]
      BY <1>1, <1>2, LoadUnfolds
    <2>2. f[0] = sl /\ \A j \in 1..len : f[j] = insert_element(f[j - 1], keys[j], keys[j], levels[j])
      BY <1>2, <2>1 DEF IsLoad
    <2>3. QED
      BY <2>1, <2>2
  <1> DEFINE Keys(n) == {keys[j] : j \in 1..n}
             Holds(n) == [k \in DOMAIN sl.value \cup Keys(n) |-> IF k \in DOMAIN sl.value THEN sl.value[k] ELSE k]
             Good(n) == ListOK(load[n]) /\ load[n].value = Holds(n)
             T == {n \in 0..len : Good(n)}
  <1>5. 0 \in T
    <2>1. load[0] = sl
      BY <1>2, <1>4
    <2>2. Holds(0) = sl.value
      <3>1. Keys(0) = {}
        OBVIOUS
      <3>2. sl.value = [k \in DOMAIN sl.value |-> sl.value[k]]
        BY DEF ListOK, HoldsKeys
      <3> HIDE DEF Keys
      <3>3. QED
        BY <3>1, <3>2
    <2>3. Good(0)
      <3> HIDE DEF Holds
      <3>1. QED
        BY <2>1, <2>2
    <2> HIDE DEF Good
    <2>4. QED
      BY <1>2, <2>3
  <1>6. ASSUME NEW n \in 1..len, n - 1 \in T PROVE n \in T
    <2>1. PICK mid : mid = load[n - 1] /\ ListOK(mid) /\ mid.value = Holds(n - 1)
      BY <1>6
    <2>2. PICK key \in Key : key = keys[n]
      BY <1>2
    <2>3. PICK l \in get_random_level : l = levels[n]
      BY <1>3
    <2>4. PICK new : new = insert_element(mid, key, key, l) /\ load[n] = new
      BY <1>4, <2>1, <2>2, <2>3
    <2>5. Keys(n) = Keys(n - 1) \cup {key}
      <3>1. ASSUME NEW j \in Nat PROVE j \in 1..n <=> j \in 1..(n - 1) \/ j = n
        BY <1>2
      <3>2. 1..n \subseteq Nat /\ 1..(n - 1) \subseteq Nat /\ n \in Nat
        BY <1>2
      <3>3. QED
        BY <2>2, <3>1, <3>2
    <2>6. DOMAIN mid.value = DOMAIN sl.value \cup Keys(n - 1)
      <3> HIDE DEF Keys
      <3>1. QED
        BY <2>1
    <2> HIDE DEF Keys
    <2>7. CASE key \in DOMAIN mid.value
      <3>1. new = mid
        <4>1. key \in Nat \ {0}
          BY KeyAssumption
        <4>2. QED
          BY <2>1, <2>4, <2>7, <4>1, InsertKept
      <3>2. DOMAIN sl.value \cup Keys(n) = DOMAIN sl.value \cup Keys(n - 1)
        BY <2>5, <2>6, <2>7
      <3>3. Good(n)
        BY <2>1, <2>4, <3>1, <3>2
      <3> HIDE DEF Good
      <3>4. QED
        BY <1>2, <3>3
    <2>8. CASE key \notin DOMAIN mid.value
      <3>1. ListOK(new) /\ new.value = With(mid.value, key, key)
        BY <2>1, <2>4, <2>8, InsertNew
      <3>2. With(mid.value, key, key) = Holds(n)
        BY <2>1, <2>5, <2>6, <2>8 DEF With
      <3>3. Good(n)
        <4> HIDE DEF Holds
        <4>1. QED
          BY <2>4, <3>1, <3>2
      <3> HIDE DEF Good
      <3>4. QED
        BY <1>2, <3>3
    <2>9. QED
      BY <2>7, <2>8
  <1>7. Good(len)
    <2> HIDE DEF T
    <2>1. \A k \in 0..len : k \in T
      BY <1>2, <1>5, <1>6, UpTo
    <2>2. len \in T
      BY <1>2, <2>1
    <2> HIDE DEF Good
    <2>3. QED
      BY <2>2 DEF T
  <1>8. Keys(len) = Range(dump.keyDumpVt_)
    BY <1>1, <1>2 DEF Range
  <1> HIDE DEF Keys
  <1>9. PICK new : new = load_file(sl, dump, levels) /\ ListOK(new) /\ new.value = Holds(len)
    BY <1>4, <1>7
  <1>10. QED
    BY <1>8, <1>9

----------------------------------------------------------------------------
\* The skip list beside a map.

LEMMA ListInvInit == ListInit => ListInv
  BY EmptyOK DEF ListInit, ListInv, EmptyMap

LEMMA ListInvNext ==
    ASSUME ListInv, [ListNext]_listVars
    PROVE  ListInv'
  <1>1. ListOK(list) /\ map = list.value
    BY DEF ListInv
  <1>2. CASE UNCHANGED listVars
    BY <1>1, <1>2 DEF ListInv, listVars, ListOK, HoldsKeys, Towers, HighestLevel, InOrder, LeadsTo, Row
  <1>3. ASSUME NEW k \in Key, NEW v \in Value, NEW level \in get_random_level, Set(k, v, level)
        PROVE  ListInv'
    <2>1. PICK new : new = insert_set_element(list, k, v, level) /\ ListOK(new) /\ new.value = With(map, k, v)
      BY <1>1, SetOK
    <2>2. QED
      BY <1>3, <2>1 DEF Set, ListInv
  <1>4. ASSUME NEW k \in Key, Delete(k) PROVE ListInv'
    <2>1. PICK new : new = delete_element(list, k) /\ ListOK(new) /\ new.value = Restrict(map, DOMAIN map \ {k})
      BY <1>1, DeleteOK
    <2>2. QED
      BY <1>4, <2>1 DEF Delete, ListInv
  <1>5. ASSUME NEW levels \in LevelsFor(dump_file(list), get_random_level), Reload(levels) PROVE ListInv'
    <2>1. PICK dump : dump = dump_file(list)
      OBVIOUS
    <2>2. PICK c : c = dump.keyDumpVt_ /\ IsChain(c, DOMAIN map)
      BY <1>1, <2>1, DumpFacts
    <2>3. c \in Seq(Key) /\ Range(c) = DOMAIN map
      <3>1. c \in Seq(DOMAIN map) /\ DOMAIN map \subseteq Key
        BY <1>1, <2>2 DEF IsChain, ListOK, HoldsKeys
      <3>2. Range(c) = DOMAIN map
        <4>1. \A j \in 1..Len(c) : c[j] \in DOMAIN map
          BY <3>1
        <4>2. \A x \in DOMAIN map : \E j \in 1..Len(c) : c[j] = x
          BY <2>2 DEF IsChain
        <4>3. DOMAIN c = 1..Len(c)
          BY <3>1
        <4>4. QED
          BY <4>1, <4>2, <4>3 DEF Range
      <3>3. QED
        BY <3>1, <3>2, SeqWiden
    <2>4. PICK new : /\ new = load_file(EmptyList, dump, levels) /\ ListOK(new)
                     /\ DOMAIN new.value = DOMAIN EmptyList.value \cup Range(c)
                     /\ \A k \in DOMAIN EmptyList.value \cup Range(c) :
                            new.value[k] = IF k \in DOMAIN EmptyList.value THEN EmptyList.value[k] ELSE k
      <3>1. levels \in LevelsFor(dump, get_random_level) /\ dump.keyDumpVt_ \in Seq(Key)
        BY <2>1, <2>2, <2>3
      <3>2. QED
        BY <2>2, <3>1, EmptyOK, LoadOK
    <2>5. DOMAIN EmptyList.value = {}
      BY EmptyOK DEF EmptyMap
    <2>6. new.value = [k \in DOMAIN map |-> k]
      <3>1. DOMAIN new.value = DOMAIN map /\ \A k \in DOMAIN map : new.value[k] = k
        BY <2>3, <2>4, <2>5
      <3>2. new.value = [k \in DOMAIN new.value |-> new.value[k]]
        BY <2>4 DEF ListOK, HoldsKeys
      <3>3. QED
        BY <3>1, <3>2
    <2>7. QED
      BY <1>5, <2>1, <2>4, <2>6 DEF Reload, ListInv
  <1>6. QED
    BY <1>2, <1>3, <1>4, <1>5 DEF ListNext

\* The pointers of the list keep their shape, whatever is set, deleted and reloaded, and whatever levels the
\* nodes get: at every level a node points to the next node that has the level, and the level of
\* the list is the highest of a node (insert_element, delete_element, load_file).
THEOREM SkipListInvariant == ListSpec => []ListInv
  <1>1. QED
    BY ListInvInit, ListInvNext, PTL DEF ListSpec

\* The shape of the pointers is what the rows of WellFormed and the search promise.
LEMMA ListInvMeansMap ==
    ASSUME ListInv
    PROVE  SkipListIsMap
  <1>1. ListOK(list) /\ map = list.value
    BY DEF ListInv
  <1>2. ASSUME NEW i \in 0..MaxLevel, NEW nodes, nodes = {n \in DOMAIN list.value : i \in DOMAIN list.forward[n]},
               NEW c, c = Chain(list, i)
        PROVE  /\ Range(c) = nodes /\ Len(c) = Cardinality(nodes)
               /\ \A a, b \in DOMAIN c : a < b => c[a] < c[b]
               /\ i > 0 => (nodes # {} <=> i <= list.level)
    <2>1. nodes = Row(list, i) \ {Header} /\ nodes \in SUBSET Nat
      BY <1>1, <1>2, RowFacts DEF Row, ListOK, Towers
    <2>2. IsChain(c, nodes)
      BY <1>1, <1>2, <2>1, ChainFacts
    <2>3. Len(c) = Cardinality(nodes)
      BY <2>1, <2>2, ChainCounts
    <2>4. c \in Seq(nodes) /\ DOMAIN c = 1..Len(c)
      BY <2>2 DEF IsChain
    <2>5. Range(c) = nodes
      BY <2>2, <2>4 DEF IsChain, Range
    <2>6. ASSUME i > 0 PROVE nodes # {} <=> i <= list.level
      <3>1. i \in 1..MaxLevel
        BY <2>6, LevelAssumption
      <3>2. i <= list.level <=> \E n \in DOMAIN list.value : n \in Row(list, i)
        BY <1>1, <3>1 DEF ListOK, HighestLevel
      <3>3. Row(list, i) \subseteq {Header} \cup DOMAIN list.value /\ Header \notin DOMAIN list.value
        BY <1>1, RowFacts
      <3>4. QED
        BY <2>1, <3>2, <3>3
    <2>7. QED
      BY <2>2, <2>3, <2>4, <2>5, <2>6 DEF IsChain
  <1>3. WellFormed(list)
    BY <1>2 DEF WellFormed
  <1>4. Contents(list) = map
    <2>1. 0 \in 0..MaxLevel
      BY LevelAssumption
    <2>2. Range(Chain(list, 0)) = {n \in DOMAIN list.value : 0 \in DOMAIN list.forward[n]}
      BY <1>2, <2>1
    <2>3. Row(list, 0) = {Header} \cup DOMAIN list.value /\ Header \notin DOMAIN list.value
      BY <1>1, <2>1, RowFacts
    <2>4. Range(Chain(list, 0)) = DOMAIN list.value
      BY <2>2, <2>3 DEF Row
    <2>5. QED
      BY <1>1, <2>4 DEF Contents, ListOK, HoldsKeys
  <1>5. \A k \in Key : search_element(list, k) =
                          IF k \in DOMAIN map THEN [exist |-> TRUE, value |-> map[k]]
                          ELSE [exist |-> FALSE, value |-> NULL]
    BY <1>1, SearchIs
  <1>6. QED
    BY <1>3, <1>4, <1>5 DEF SkipListIsMap

\* Whatever is set, deleted and reloaded, the list is well formed, holds exactly what a map would, and a search
\* finds it (insert_set_element, delete_element, search_element, dump_file and load_file).
THEOREM SkipListIsMapHolds == ListSpec => []SkipListIsMap
  <1>1. ListInv => SkipListIsMap
    BY ListInvMeansMap
  <1>2. QED
    BY <1>1, SkipListInvariant, PTL
=============================================================================
