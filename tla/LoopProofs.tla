----------------------------- MODULE LoopProofs -----------------------------
(***************************************************************************)
(* What the two loops of the model compute: the replay of a WAL            *)
(* (WalReplay) and the copy of some elements of a list (SeqPick).  Both    *)
(* are recursive functions over the turns of the loop; the induction over  *)
(* the turns takes the first turn that breaks the claim.                   *)
(***************************************************************************)
EXTENDS Integers, Sequences, FiniteSetsExt, WalReplay, SeqPick, WellFoundedInduction, TLAPS

\* A set of natural numbers that is not empty has a least member.
LEMMA LeastNat ==
    ASSUME NEW T \in SUBSET Nat, T # {}
    PROVE  \E x \in T : \A y \in T : x <= y
  <1>1. IsWellFoundedOn(OpToRel(<, Nat), Nat)
    BY NatLessThanWellFounded, Zenon
  <1>2. PICK x \in T : \A y \in T : ~(<<y, x>> \in OpToRel(<, Nat))
    BY <1>1, WFMin, Zenon
  <1>3. ASSUME NEW y \in T, y < x PROVE <<y, x>> \in OpToRel(<, Nat)
    BY <1>3 DEF OpToRel
  <1>4. ASSUME NEW y \in T PROVE ~(y < x)
    BY <1>2, <1>3, Zenon
  <1>5. QED
    BY <1>4

\* Induction up to n, for a claim given as the set of the turns it holds at.
LEMMA UpTo ==
    ASSUME NEW n \in Nat, NEW T, 0 \in T, \A k \in 1 .. n : k - 1 \in T => k \in T
    PROVE  \A k \in 0 .. n : k \in T
  <1> DEFINE F == {k \in 0 .. n : k \notin T}
  <1> SUFFICES ASSUME F # {} PROVE FALSE
    OBVIOUS
  <1>1. F \in SUBSET Nat
    OBVIOUS
  <1>2. PICK x \in F : \A y \in F : x <= y
    BY <1>1, LeastNat
  <1>3. x \in 1 .. n /\ x - 1 \in 0 .. n /\ x - 1 \notin F
    BY <1>2
  <1>4. QED
    BY <1>3

\* A set of integers between two bounds has a largest member.
LEMMA MaxOfSome ==
    ASSUME NEW a \in Int, NEW b \in Int, NEW S \in SUBSET (a .. b), S # {}
    PROVE  Max(S) \in S /\ \A y \in S : Max(S) >= y
  <1> DEFINE D == {b - x : x \in S}
  <1>1. D \in SUBSET Nat /\ D # {}
    OBVIOUS
  <1>2. PICK d \in D : \A e \in D : d <= e
    <2> HIDE DEF D
    <2>1. QED
      BY <1>1, LeastNat
  <1>3. PICK x \in S : d = b - x
    OBVIOUS
  <1>4. ASSUME NEW y \in S PROVE x >= y
    <2>1. d <= b - y
      BY <1>2
    <2>2. QED
      BY <1>3, <2>1
  <1>5. \E z \in S : \A y \in S : z >= y
    BY <1>4
  <1>6. QED
    BY <1>5 DEF Max

\* The smaller and the larger of two indexes.
LEMMA MinMaxOfTwo ==
    ASSUME NEW a \in Int, NEW b \in Int
    PROVE  /\ Max({a, b}) = IF a >= b THEN a ELSE b
           /\ Min({a, b}) = IF a <= b THEN a ELSE b
  <1>1. \E x \in {a, b} : \A y \in {a, b} : x >= y
    OBVIOUS
  <1>2. \E x \in {a, b} : \A y \in {a, b} : x <= y
    OBVIOUS
  <1>3. Max({a, b}) \in {a, b} /\ \A y \in {a, b} : Max({a, b}) >= y
    BY <1>1 DEF Max
  <1>4. Min({a, b}) \in {a, b} /\ \A y \in {a, b} : Min({a, b}) <= y
    BY <1>2 DEF Min
  <1>5. QED
    BY <1>3, <1>4

\* A sequence over a set is one over a larger set.
LEMMA SeqWiden ==
    ASSUME NEW A, NEW B, A \subseteq B, NEW s \in Seq(A)
    PROVE  s \in Seq(B)
  OBVIOUS

\* A part of a sequence.
LEMMA SubSeqFacts ==
    ASSUME NEW S, NEW s \in Seq(S), NEW a \in Int, NEW b \in Int, a >= 1, b <= Len(s)
    PROVE  /\ SubSeq(s, a, b) \in Seq(S)
           /\ Len(SubSeq(s, a, b)) = IF a <= b THEN b - a + 1 ELSE 0
           /\ \A k \in 1 .. Len(SubSeq(s, a, b)) : SubSeq(s, a, b)[k] = s[a + k - 1]
  OBVIOUS

----------------------------------------------------------------------------
\* The replay of a WAL.

\* The loop has a result for every turn.
LEMMA ReplayUnfolds ==
    ASSUME NEW w, Len(w) \in Nat, NEW s
    PROVE  ReplayTurns(w, s) =
               [k \in 0 .. Len(w) |->
                   IF k = 0 THEN <<>> ELSE ReplayEntry(ReplayTurns(w, s)[k - 1], w[k], s)]
  <1> DEFINE Is(f, n) == f = [k \in 0 .. n |->
                                 IF k = 0 THEN <<>> ELSE ReplayEntry(f[k - 1], w[k], s)]
             T == {n \in 0 .. Len(w) : \E f : Is(f, n)}
  <1>1. 0 \in T
    <2>1. Is([k \in 0 .. 0 |-> <<>>], 0)
      OBVIOUS
    <2> HIDE DEF Is
    <2>2. \E f : Is(f, 0)
      BY <2>1, Zenon
    <2>3. QED
      BY <2>2
  <1>2. ASSUME NEW n \in 1 .. Len(w), n - 1 \in T PROVE n \in T
    <2>1. PICK f : Is(f, n - 1)
      BY <1>2
    <2> DEFINE g == [k \in 0 .. n |-> IF k = n THEN ReplayEntry(f[n - 1], w[n], s) ELSE f[k]]
    <2>2. ASSUME NEW k \in 0 .. n
          PROVE  g[k] = IF k = 0 THEN <<>> ELSE ReplayEntry(g[k - 1], w[k], s)
      <3>1. CASE k = n
        BY <3>1
      <3>2. CASE k # n
        <4>1. k \in 0 .. (n - 1) /\ g[k] = f[k]
          BY <3>2
        <4>2. f[k] = IF k = 0 THEN <<>> ELSE ReplayEntry(f[k - 1], w[k], s)
          BY <2>1, <4>1
        <4>3. k # 0 => g[k - 1] = f[k - 1]
          BY <4>1
        <4>4. QED
          BY <4>1, <4>2, <4>3
      <3>3. QED
        BY <3>1, <3>2
    <2>3. Is(g, n)
      BY <2>2
    <2> HIDE DEF Is, g
    <2>4. \E h : Is(h, n)
      BY <2>3, Zenon
    <2>5. QED
      BY <2>4
  <1>3. \E f : Is(f, Len(w))
    <2> HIDE DEF T
    <2>1. \A k \in 0 .. Len(w) : k \in T
      BY <1>1, <1>2, UpTo
    <2>2. Len(w) \in T
      BY <2>1
    <2>3. QED
      BY <2>2 DEF T
  <1>4. QED
    BY <1>3 DEF ReplayTurns

\* One turn keeps a log whose indexes are consecutive above the snapshot.
LEMMA ReplayTurn ==
    ASSUME NEW S, NEW logs \in Seq(S), NEW e \in S, NEW s \in Int, e.index \in Int,
           \A k \in 1 .. Len(logs) : logs[k].index = s + k
    PROVE  /\ ReplayEntry(logs, e, s) \in Seq(S)
           /\ \A k \in 1 .. Len(ReplayEntry(logs, e, s)) : ReplayEntry(logs, e, s)[k].index = s + k
  <1> DEFINE pos == e.index - s
             new == Append(SubSeq(logs, 1, pos - 1), e)
  <1>1. CASE pos >= 1 /\ pos <= Len(logs) + 1
    <2>1. /\ new \in Seq(S) /\ Len(new) = pos
          /\ \A k \in 1 .. pos - 1 : new[k] = logs[k]
          /\ new[pos] = e
      BY <1>1
    <2>2. ReplayEntry(logs, e, s) = new
      BY <1>1 DEF ReplayEntry
    <2> HIDE DEF new
    <2>3. ASSUME NEW k \in 1 .. Len(new) PROVE new[k].index = s + k
      <3>1. CASE k = pos
        BY <2>1, <3>1
      <3>2. CASE k # pos
        <4>1. k \in 1 .. pos - 1 /\ k \in 1 .. Len(logs)
          BY <1>1, <2>1, <3>2
        <4>2. QED
          BY <2>1, <4>1
      <3>3. QED
        BY <3>1, <3>2
    <2>4. QED
      BY <2>1, <2>2, <2>3
  <1>2. CASE ~(pos >= 1 /\ pos <= Len(logs) + 1)
    BY <1>2 DEF ReplayEntry
  <1>3. QED
    BY <1>1, <1>2

\* ReadPersistedLogs: what is read back consists of entries that were written, and its indexes are
\* consecutive above the snapshot, in whatever order the entries were written.
LEMMA ReplayFacts ==
    ASSUME NEW S, NEW w \in Seq(S), NEW s \in Int, \A e \in S : e.index \in Int
    PROVE  /\ ReadPersistedLogs(w, s) \in Seq({w[k] : k \in 1 .. Len(w)})
           /\ \A k \in 1 .. Len(ReadPersistedLogs(w, s)) :
                  ReadPersistedLogs(w, s)[k].index = s + k
  <1> DEFINE W == {w[k] : k \in 1 .. Len(w)}
  <1>1. PICK r : r = ReplayTurns(w, s)
    OBVIOUS
  <1>2. r = [k \in 0 .. Len(w) |-> IF k = 0 THEN <<>> ELSE ReplayEntry(r[k - 1], w[k], s)]
    BY <1>1, ReplayUnfolds
  <1> DEFINE Good(n) == /\ r[n] \in Seq(W)
                        /\ \A k \in 1 .. Len(r[n]) : r[n][k].index = s + k
             T == {n \in 0 .. Len(w) : Good(n)}
  <1>3. 0 \in T
    <2>1. r[0] = <<>>
      BY <1>2
    <2>2. Good(0)
      BY <2>1
    <2> HIDE DEF Good
    <2>3. QED
      BY <2>2
  <1>4. ASSUME NEW n \in 1 .. Len(w), n - 1 \in T PROVE n \in T
    <2>1. w[n] \in W /\ w[n].index \in Int
      OBVIOUS
    <2>2. r[n] = ReplayEntry(r[n - 1], w[n], s)
      BY <1>2
    <2> HIDE DEF W
    <2>3. r[n - 1] \in Seq(W) /\ \A k \in 1 .. Len(r[n - 1]) : r[n - 1][k].index = s + k
      BY <1>4
    <2>4. PICK logs \in Seq(W), e \in W : logs = r[n - 1] /\ e = w[n]
      BY <2>1, <2>3
    <2>5. /\ ReplayEntry(logs, e, s) \in Seq(W)
          /\ \A k \in 1 .. Len(ReplayEntry(logs, e, s)) : ReplayEntry(logs, e, s)[k].index = s + k
      BY <2>1, <2>3, <2>4, ReplayTurn
    <2>6. Good(n)
      BY <2>2, <2>4, <2>5
    <2> HIDE DEF Good
    <2>7. QED
      BY <2>6
  <1>5. Good(Len(w))
    <2> HIDE DEF Good
    <2>1. Len(w) \in Nat
      OBVIOUS
    <2>2. 0 \in T /\ \A k \in 1 .. Len(w) : k - 1 \in T => k \in T
      BY <1>3, <1>4
    <2>3. \A k \in 0 .. Len(w) : k \in T
      <3> HIDE DEF T
      <3>1. QED
        BY <2>1, <2>2, UpTo
    <2>4. QED
      BY <2>1, <2>3
  <1>6. QED
    BY <1>1, <1>5 DEF ReadPersistedLogs

----------------------------------------------------------------------------
\* The copy of some elements of a list.

\* The loop has a result for every turn.
LEMMA PickUnfolds ==
    ASSUME NEW s, Len(s) \in Nat, NEW K
    PROVE  PickTurns(s, K) =
               [k \in 0 .. Len(s) |->
                   IF k = 0 THEN <<>>
                   ELSE IF k \in K THEN Append(PickTurns(s, K)[k - 1], s[k])
                   ELSE PickTurns(s, K)[k - 1]]
  <1> DEFINE Turn(k, before) == IF k \in K THEN Append(before, s[k]) ELSE before
             Is(f, n) == f = [k \in 0 .. n |-> IF k = 0 THEN <<>> ELSE Turn(k, f[k - 1])]
             T == {n \in 0 .. Len(s) : \E f : Is(f, n)}
  <1> HIDE DEF Turn
  <1>1. 0 \in T
    <2>1. Is([k \in 0 .. 0 |-> <<>>], 0)
      OBVIOUS
    <2> HIDE DEF Is
    <2>2. \E f : Is(f, 0)
      BY <2>1, Zenon
    <2>3. QED
      BY <2>2
  <1>2. ASSUME NEW n \in 1 .. Len(s), n - 1 \in T PROVE n \in T
    <2>1. PICK f : Is(f, n - 1)
      BY <1>2
    <2> DEFINE g == [k \in 0 .. n |-> IF k = n THEN Turn(n, f[n - 1]) ELSE f[k]]
    <2>2. ASSUME NEW k \in 0 .. n
          PROVE  g[k] = IF k = 0 THEN <<>> ELSE Turn(k, g[k - 1])
      <3>1. CASE k = n
        BY <3>1
      <3>2. CASE k # n
        <4>1. k \in 0 .. (n - 1) /\ g[k] = f[k]
          BY <3>2
        <4>2. f[k] = IF k = 0 THEN <<>> ELSE Turn(k, f[k - 1])
          BY <2>1, <4>1
        <4>3. k # 0 => g[k - 1] = f[k - 1]
          BY <4>1
        <4>4. QED
          BY <4>1, <4>2, <4>3
      <3>3. QED
        BY <3>1, <3>2
    <2>3. Is(g, n)
      BY <2>2
    <2> HIDE DEF Is, g
    <2>4. \E h : Is(h, n)
      BY <2>3, Zenon
    <2>5. QED
      BY <2>4
  <1>3. \E f : Is(f, Len(s))
    <2> HIDE DEF T
    <2>1. \A k \in 0 .. Len(s) : k \in T
      BY <1>1, <1>2, UpTo
    <2>2. Len(s) \in T
      BY <2>1
    <2>3. QED
      BY <2>2 DEF T
  <1>4. QED
    BY <1>3 DEF PickTurns, Turn

\* The copy consists of the elements at the chosen positions, and every one of them is in it.
LEMMA PickFacts ==
    ASSUME NEW S, NEW s \in Seq(S), NEW K \in SUBSET (1 .. Len(s))
    PROVE  /\ Pick(s, K) \in Seq({s[k] : k \in K})
           /\ \A k \in K : \E n \in 1 .. Len(Pick(s, K)) : Pick(s, K)[n] = s[k]
  <1> DEFINE V == {s[k] : k \in K}
  <1>1. PICK r : r = PickTurns(s, K)
    OBVIOUS
  <1>2. r = [k \in 0 .. Len(s) |->
                IF k = 0 THEN <<>> ELSE IF k \in K THEN Append(r[k - 1], s[k]) ELSE r[k - 1]]
    BY <1>1, PickUnfolds
  <1> DEFINE Good(n) == /\ r[n] \in Seq(V)
                        /\ \A k \in K : k <= n => \E x \in 1 .. Len(r[n]) : r[n][x] = s[k]
             T == {n \in 0 .. Len(s) : Good(n)}
  <1>3. 0 \in T
    <2>1. r[0] = <<>>
      BY <1>2
    <2>2. \A k \in K : ~(k <= 0)
      OBVIOUS
    <2>3. Good(0)
      BY <2>1, <2>2
    <2> HIDE DEF Good
    <2>4. QED
      BY <2>3
  <1>4. ASSUME NEW n \in 1 .. Len(s), n - 1 \in T PROVE n \in T
    <2>1. /\ r[n - 1] \in Seq(V)
          /\ \A k \in K : k <= n - 1 => \E x \in 1 .. Len(r[n - 1]) : r[n - 1][x] = s[k]
      BY <1>4
    <2>2. ASSUME n \in K PROVE Good(n)
      <3>1. r[n] = Append(r[n - 1], s[n]) /\ s[n] \in V
        <4>1. n \in 0 .. Len(s) /\ n # 0
          OBVIOUS
        <4>2. r[n] = IF n = 0 THEN <<>> ELSE IF n \in K THEN Append(r[n - 1], s[n]) ELSE r[n - 1]
          BY <1>2, <4>1, Zenon
        <4>3. s[n] \in V
          BY <2>2, Zenon
        <4>4. QED
          BY <2>2, <4>1, <4>2, <4>3, Zenon
      <3> HIDE DEF V
      <3>2. /\ r[n] \in Seq(V) /\ Len(r[n]) = Len(r[n - 1]) + 1
            /\ r[n][Len(r[n])] = s[n]
            /\ \A x \in 1 .. Len(r[n - 1]) : r[n][x] = r[n - 1][x]
        BY <2>1, <3>1
      <3>3. ASSUME NEW k \in K, k <= n PROVE \E x \in 1 .. Len(r[n]) : r[n][x] = s[k]
        <4>1. CASE k = n
          BY <2>1, <3>2, <4>1
        <4>2. CASE k # n
          <5>1. k <= n - 1
            BY <3>3, <4>2
          <5>2. PICK x \in 1 .. Len(r[n - 1]) : r[n - 1][x] = s[k]
            BY <2>1, <5>1
          <5>3. x \in 1 .. Len(r[n]) /\ r[n][x] = s[k]
            BY <2>1, <3>2, <5>2
          <5>4. QED
            BY <5>3
        <4>3. QED
          BY <4>1, <4>2
      <3>4. QED
        BY <3>2, <3>3
    <2>3. ASSUME n \notin K PROVE Good(n)
      <3>1. n \in 0 .. Len(s) /\ n # 0
        OBVIOUS
      <3>2. r[n] = r[n - 1]
        BY <1>2, <2>3, <3>1
      <3>3. \A k \in K : k <= n => k <= n - 1
        BY <2>3
      <3> HIDE DEF V
      <3>4. QED
        BY <2>1, <3>2, <3>3
    <2>4. Good(n)
      BY <2>2, <2>3
    <2> HIDE DEF Good
    <2>5. QED
      BY <2>4
  <1>5. Good(Len(s))
    <2> HIDE DEF Good
    <2>1. Len(s) \in Nat
      OBVIOUS
    <2>2. 0 \in T /\ \A k \in 1 .. Len(s) : k - 1 \in T => k \in T
      BY <1>3, <1>4
    <2>3. \A k \in 0 .. Len(s) : k \in T
      <3> HIDE DEF T
      <3>1. QED
        BY <2>1, <2>2, UpTo
    <2>4. QED
      BY <2>1, <2>3
  <1>6. \A k \in K : k <= Len(s)
    OBVIOUS
  <1>7. QED
    BY <1>1, <1>5, <1>6 DEF Pick
=============================================================================
