--------------------------- MODULE PersisterProofs ---------------------------
(***************************************************************************)
(* Proofs that the segment files of a Persister are the log of all that    *)
(* was written (WalInv), first about lists of lists, which the contents of *)
(* the files and the queue of batches are, then about the files in their   *)
(* order, then action by action.                                           *)
(***************************************************************************)
EXTENDS PersisterInv, LoopProofs, FiniteSetTheorems

----------------------------------------------------------------------------
\* Lists of lists.

\* The lists over a set.
Lists(E) == Seq(E)

\* Both the loop and what it computes, for a list that is not empty.
LEMMA FlattenTurns ==
    ASSUME NEW ps, Len(ps) \in Nat, Len(ps) >= 1
    PROVE  \E f : /\ f = [i \in 1 .. Len(ps) |-> IF i = 1 THEN ps[i] ELSE f[i - 1] \o ps[i]]
                  /\ FlattenSeq(ps) = f[Len(ps)]
  <1> DEFINE Turn(k, before) == IF k = 1 THEN ps[k] ELSE before \o ps[k]
             Is(f, n) == f = [k \in 1 .. n |-> Turn(k, f[k - 1])]
             T == {n \in 0 .. Len(ps) : \E f : Is(f, n)}
  <1> HIDE DEF Turn
  <1>1. 0 \in T
    <2>1. Is([k \in 1 .. 0 |-> <<>>], 0)
      OBVIOUS
    <2> HIDE DEF Is
    <2>2. \E f : Is(f, 0)
      BY <2>1, Zenon
    <2>3. QED
      BY <2>2
  <1>2. ASSUME NEW n \in 1 .. Len(ps), n - 1 \in T PROVE n \in T
    <2>1. PICK f : Is(f, n - 1)
      BY <1>2
    <2> DEFINE g == [k \in 1 .. n |-> IF k = n THEN Turn(n, f[n - 1]) ELSE f[k]]
    <2>2. ASSUME NEW k \in 1 .. n PROVE g[k] = Turn(k, g[k - 1])
      <3>1. CASE k = n
        <4>1. g[k] = Turn(n, f[n - 1])
          BY <3>1
        <4>2. CASE n = 1
          BY <3>1, <4>1, <4>2 DEF Turn
        <4>3. CASE n # 1
          <5>1. n - 1 \in 1 .. n /\ n - 1 # n
            BY <4>3
          <5>2. g[n - 1] = f[n - 1]
            BY <5>1
          <5> HIDE DEF g
          <5>3. QED
            BY <3>1, <4>1, <5>2
        <4>4. QED
          BY <4>2, <4>3
      <3>2. CASE k # n
        <4>1. k \in 1 .. (n - 1) /\ g[k] = f[k]
          BY <3>2
        <4>2. f[k] = Turn(k, f[k - 1])
          BY <2>1, <4>1
        <4>3. k # 1 => g[k - 1] = f[k - 1]
          BY <4>1
        <4>4. QED
          BY <4>1, <4>2, <4>3 DEF Turn
      <3>3. QED
        BY <3>1, <3>2
    <2>3. Is(g, n)
      BY <2>2
    <2> HIDE DEF Is, g
    <2>4. \E h : Is(h, n)
      BY <2>3, Zenon
    <2>5. QED
      BY <2>4
  <1>3. \E f : Is(f, Len(ps))
    <2> HIDE DEF T
    <2>1. \A k \in 0 .. Len(ps) : k \in T
      BY <1>1, <1>2, UpTo
    <2>2. Len(ps) \in T
      BY <2>1
    <2>3. QED
      BY <2>2 DEF T
  <1>4. \E f : f = [i \in 1 .. Len(ps) |-> IF i = 1 THEN ps[i] ELSE f[i - 1] \o ps[i]]
    BY <1>3 DEF Turn
  <1> DEFINE g == CHOOSE f : f = [i \in 1 .. Len(ps) |-> IF i = 1 THEN ps[i] ELSE f[i - 1] \o ps[i]]
  <1>5. g = [i \in 1 .. Len(ps) |-> IF i = 1 THEN ps[i] ELSE g[i - 1] \o ps[i]]
    BY <1>4, Zenon
  <1>6. FlattenSeq(ps) = g[Len(ps)]
    BY DEF FlattenSeq
  <1> HIDE DEF g
  <1>7. QED
    BY <1>5, <1>6

\* No lists.
LEMMA FlattenEmpty == FlattenSeq(<<>>) = <<>>
  BY DEF FlattenSeq

\* One more list.
LEMMA FlattenAppend ==
    ASSUME NEW E, NEW V, V \subseteq Seq(E), Seq(E) \subseteq V, NEW ps \in Seq(V), NEW x \in Seq(E)
    PROVE  FlattenSeq(Append(ps, x)) = FlattenSeq(ps) \o x
  <1> DEFINE n  == Len(ps)
             qs == Append(ps, x)
  <1>1. n \in Nat /\ Len(qs) = n + 1 /\ qs[n + 1] = x /\ \A k \in 1 .. n : qs[k] = ps[k]
    OBVIOUS
  <1> HIDE DEF qs
  <1>2. PICK g : /\ g = [i \in 1 .. Len(qs) |-> IF i = 1 THEN qs[i] ELSE g[i - 1] \o qs[i]]
                 /\ FlattenSeq(qs) = g[Len(qs)]
    <2>1. Len(qs) \in Nat /\ Len(qs) >= 1
      BY <1>1
    <2>2. QED
      BY <2>1, FlattenTurns, Zenon
  <1>3. CASE n = 0
    <2>1. g[1] = qs[1]
      BY <1>1, <1>2
    <2>2. FlattenSeq(ps) = <<>>
      BY <1>3, FlattenEmpty
    <2>3. FlattenSeq(qs) = x
      BY <1>1, <1>2, <1>3, <2>1
    <2>4. <<>> \o x = x
      OBVIOUS
    <2>5. QED
      BY <2>2, <2>3, <2>4 DEF qs
  <1>4. CASE n # 0
    <2>1. PICK f : /\ f = [i \in 1 .. n |-> IF i = 1 THEN ps[i] ELSE f[i - 1] \o ps[i]]
                   /\ FlattenSeq(ps) = f[n]
      <3>1. Len(ps) \in Nat /\ Len(ps) >= 1
        BY <1>4
      <3>2. QED
        BY <3>1, FlattenTurns, Zenon
    <2> DEFINE T == {k \in 0 .. n : k >= 1 => f[k] = g[k]}
    <2>2. 0 \in T
      BY <1>1
    <2>3. ASSUME NEW k \in 1 .. n, k - 1 \in T PROVE k \in T
      <3>1. f[k] = IF k = 1 THEN ps[k] ELSE f[k - 1] \o ps[k]
        BY <2>1, Zenon
      <3>2. g[k] = IF k = 1 THEN qs[k] ELSE g[k - 1] \o qs[k]
        <4>1. k \in 1 .. Len(qs)
          BY <1>1
        <4>2. QED
          BY <1>2, <4>1, Zenon
      <3>3. k # 1 => f[k - 1] = g[k - 1]
        BY <2>3
      <3>4. QED
        BY <1>1, <3>1, <3>2, <3>3
    <2>4. f[n] = g[n]
      <3> HIDE DEF T, n
      <3>1. \A k \in 0 .. n : k \in T
        BY <1>1, <2>2, <2>3, UpTo
      <3>2. n \in T /\ n >= 1
        BY <1>1, <1>4, <3>1
      <3>3. QED
        BY <3>2 DEF T
    <2>5. g[n + 1] = g[n] \o x
      <3>1. n + 1 \in 1 .. Len(qs) /\ n + 1 # 1 /\ n + 1 - 1 = n
        BY <1>1, <1>4
      <3>2. PICK k \in 1 .. Len(qs) : k = n + 1 /\ k # 1 /\ k - 1 = n
        BY <3>1
      <3>3. g[k] = IF k = 1 THEN qs[k] ELSE g[k - 1] \o qs[k]
        BY <1>2, Zenon
      <3>4. g[k] = g[k - 1] \o qs[k]
        BY <3>2, <3>3, Zenon
      <3>5. qs[k] = x
        BY <1>1, <3>2, Zenon
      <3>6. QED
        BY <3>2, <3>4, <3>5, Zenon
    <2>6. QED
      BY <1>1, <1>2, <2>1, <2>4, <2>5 DEF qs
  <1>5. QED
    BY <1>3, <1>4

\* A list that is not empty is its front and its last member.
LEMMA FrontAndLast ==
    ASSUME NEW E, NEW s \in Seq(E), NEW n \in Nat, n = Len(s), n >= 1
    PROVE  /\ SubSeq(s, 1, n - 1) \in Seq(E) /\ Len(SubSeq(s, 1, n - 1)) = n - 1
           /\ \A k \in 1 .. n - 1 : SubSeq(s, 1, n - 1)[k] = s[k]
           /\ s = Append(SubSeq(s, 1, n - 1), s[n])
  <1> DEFINE a == SubSeq(s, 1, n - 1)
  <1>1. a \in Seq(E) /\ Len(a) = n - 1 /\ \A k \in 1 .. n - 1 : a[k] = s[k]
    OBVIOUS
  <1> HIDE DEF a
  <1>2. /\ Append(a, s[n]) \in Seq(E) /\ Len(Append(a, s[n])) = n
        /\ \A k \in 1 .. n : Append(a, s[n])[k] = s[k]
    BY <1>1
  <1>3. s = Append(a, s[n])
    BY <1>2
  <1>4. QED
    BY <1>1, <1>3 DEF a

\* Two lists, one after the other.
LEMMA ConcatFacts ==
    ASSUME NEW E, NEW a \in Seq(E), NEW b \in Seq(E)
    PROVE  /\ a \o b \in Seq(E) /\ Len(a \o b) = Len(a) + Len(b)
           /\ \A k \in 1 .. Len(a) : (a \o b)[k] = a[k]
           /\ \A k \in 1 .. Len(b) : (a \o b)[Len(a) + k] = b[k]
           /\ \A k \in Len(a) + 1 .. Len(a) + Len(b) : (a \o b)[k] = b[k - Len(a)]
  OBVIOUS

\* Sequences that agree at every position are equal.
LEMMA SameSeq ==
    ASSUME NEW E, NEW a \in Seq(E), NEW b \in Seq(E), Len(a) = Len(b), \A k \in 1 .. Len(a) : a[k] = b[k]
    PROVE  a = b
  OBVIOUS

\* Three lists.
LEMMA ConcatAssoc ==
    ASSUME NEW E, NEW a \in Seq(E), NEW b \in Seq(E), NEW c \in Seq(E)
    PROVE  (a \o b) \o c = a \o (b \o c)
  <1> DEFINE l == (a \o b) \o c
             r == a \o (b \o c)
  <1>1. l \in Seq(E) /\ r \in Seq(E) /\ Len(l) = Len(a) + Len(b) + Len(c) /\ Len(r) = Len(l)
    OBVIOUS
  <1>2. ASSUME NEW k \in 1 .. Len(l) PROVE l[k] = r[k]
    <2>1. k <= Len(a) + Len(b) => l[k] = (a \o b)[k]
      BY <1>1
    <2>2. k > Len(a) => r[k] = (b \o c)[k - Len(a)]
      BY <1>1
    <2>3. CASE k <= Len(a)
      BY <1>1, <2>1, <2>3
    <2>4. CASE k > Len(a) /\ k <= Len(a) + Len(b)
      BY <1>1, <2>1, <2>2, <2>4
    <2>5. CASE k > Len(a) + Len(b)
      BY <1>1, <2>2, <2>5
    <2>6. QED
      BY <1>1, <2>3, <2>4, <2>5
  <1> HIDE DEF l, r
  <1>3. l = r
    BY <1>1, <1>2, SameSeq
  <1>4. QED
    BY <1>3 DEF l, r

\* The prefixes of a list.
LEMMA HeadsOf ==
    ASSUME NEW V, NEW s \in Seq(V)
    PROVE  /\ SubSeq(s, 1, 0) = <<>> /\ SubSeq(s, 1, Len(s)) = s
           /\ \A k \in 1 .. Len(s) : /\ SubSeq(s, 1, k) = Append(SubSeq(s, 1, k - 1), s[k])
                                     /\ SubSeq(s, 1, k - 1) \in Seq(V) /\ s[k] \in V
  <1>1. ASSUME NEW k \in 1 .. Len(s)
        PROVE  /\ SubSeq(s, 1, k) = Append(SubSeq(s, 1, k - 1), s[k])
               /\ SubSeq(s, 1, k - 1) \in Seq(V) /\ s[k] \in V
    OBVIOUS
  <1>2. QED
    BY <1>1

\* One more member of the second list.
LEMMA AppendConcat ==
    ASSUME NEW V, NEW s \in Seq(V), NEW t \in Seq(V), NEW x \in V
    PROVE  s \o <<>> = s /\ s \o t \in Seq(V) /\ s \o Append(t, x) = Append(s \o t, x)
  <1> DEFINE l == s \o Append(t, x)
             r == Append(s \o t, x)
  <1>1. l \in Seq(V) /\ r \in Seq(V) /\ Len(l) = Len(r) /\ \A k \in 1 .. Len(l) : l[k] = r[k]
    OBVIOUS
  <1> HIDE DEF l, r
  <1>2. l = r
    BY <1>1, SameSeq
  <1>3. QED
    BY <1>2 DEF l, r

\* Two lists of lists, one after the other.
LEMMA FlattenConcat ==
    ASSUME NEW E, NEW ps \in Seq(Lists(E)), NEW qs \in Seq(Lists(E))
    PROVE  /\ FlattenSeq(ps) \in Seq(E) /\ FlattenSeq(qs) \in Seq(E)
           /\ FlattenSeq(ps \o qs) = FlattenSeq(ps) \o FlattenSeq(qs)
  <1>a. Lists(E) \subseteq Seq(E) /\ Seq(E) \subseteq Lists(E) 
    BY DEF Lists
  <1> USE <1>a
  <1>8. ASSUME NEW a \in Seq(E), NEW b \in Seq(E), NEW c \in Seq(E) PROVE (a \o b) \o c = a \o (b \o c)
    BY ConcatAssoc
  <1>1. ASSUME NEW rs \in Seq(Lists(E)) PROVE FlattenSeq(rs) \in Seq(E)
    <2> DEFINE Half(k) == SubSeq(rs, 1, k)
               T == {k \in 0 .. Len(rs) : FlattenSeq(Half(k)) \in Seq(E)}
    <2>1. Half(0) = <<>> /\ Half(Len(rs)) = rs
      BY HeadsOf
    <2>2. \A k \in 1 .. Len(rs) : Half(k) = Append(Half(k - 1), rs[k]) /\ Half(k - 1) \in Seq(Lists(E)) /\ rs[k] \in Seq(E)
      BY HeadsOf
    <2> HIDE DEF Half
    <2>3. 0 \in T
      <3>1. <<>> \in Seq(E) /\ 0 \in 0 .. Len(rs)
        OBVIOUS
      <3>2. FlattenSeq(Half(0)) \in Seq(E)
        BY <2>1, <3>1, FlattenEmpty, Zenon
      <3>3. QED
        BY <3>1, <3>2
    <2>4. ASSUME NEW k \in 1 .. Len(rs), k - 1 \in T PROVE k \in T
      <3>1. FlattenSeq(Half(k)) = FlattenSeq(Half(k - 1)) \o rs[k]
        BY <2>2, FlattenAppend
      <3>2. PICK a \in Seq(E), b \in Seq(E) : a = FlattenSeq(Half(k - 1)) /\ b = rs[k]
        BY <2>2, <2>4
      <3>3. a \o b \in Seq(E)
        BY ConcatFacts
      <3>4. FlattenSeq(Half(k)) \in Seq(E)
        BY <3>1, <3>2, <3>3, Zenon
      <3>5. QED
        BY <3>4
    <2>5. Len(rs) \in T
      <3> HIDE DEF T
      <3>1. Len(rs) \in Nat
        OBVIOUS
      <3>2. \A k \in 0 .. Len(rs) : k \in T
        BY <2>3, <2>4, <3>1, UpTo
      <3>3. QED
        BY <3>1, <3>2
    <2>6. QED
      BY <2>1, <2>5
  <1> DEFINE Half(k) == SubSeq(qs, 1, k)
             T == {k \in 0 .. Len(qs) : FlattenSeq(ps \o Half(k)) = FlattenSeq(ps) \o FlattenSeq(Half(k))}
  <1>2. Half(0) = <<>> /\ Half(Len(qs)) = qs
    BY HeadsOf
  <1>3. \A k \in 1 .. Len(qs) : Half(k) = Append(Half(k - 1), qs[k]) /\ Half(k - 1) \in Seq(Lists(E)) /\ qs[k] \in Seq(E)
    BY HeadsOf
  <1> HIDE DEF Half
  <1>4. 0 \in T
    <2>1. ps \o <<>> = ps
      BY <1>a
    <2>2. FlattenSeq(ps) \o <<>> = FlattenSeq(ps)
      BY <1>1
    <2>3. FlattenSeq(ps \o Half(0)) = FlattenSeq(ps) \o FlattenSeq(Half(0))
      BY <1>2, <2>1, <2>2, FlattenEmpty, Zenon
    <2>4. QED
      BY <2>3
  <1>5. ASSUME NEW k \in 1 .. Len(qs), k - 1 \in T PROVE k \in T
    <2>1. PICK h \in Seq(Lists(E)), x \in Lists(E) : h = Half(k - 1) /\ x = qs[k] /\ Half(k) = Append(h, x)
      BY <1>3, Zenon
    <2>2. FlattenSeq(ps \o h) = FlattenSeq(ps) \o FlattenSeq(h)
      BY <1>5, <2>1
    <2>3. ps \o h \in Seq(Lists(E)) /\ ps \o Append(h, x) = Append(ps \o h, x)
      <3>1. ps \in Seq(Lists(E)) /\ h \in Seq(Lists(E)) /\ x \in Lists(E)
        BY <1>a
      <3>2. QED
        BY <3>1, AppendConcat
    <2>4. FlattenSeq(ps \o Half(k)) = FlattenSeq(ps \o h) \o x
      <3>1. PICK c \in Seq(Lists(E)) : c = ps \o h
        BY <2>3
      <3>2. x \in Seq(E)
        BY Zenon
      <3>3. FlattenSeq(Append(c, x)) = FlattenSeq(c) \o x
        BY <3>2, FlattenAppend, Zenon
      <3>4. ps \o Half(k) = Append(c, x)
        BY <2>1, <2>3, <3>1, Zenon
      <3>5. QED
        BY <3>1, <3>3, <3>4, Zenon
    <2>5. FlattenSeq(Half(k)) = FlattenSeq(h) \o x
      BY <2>1, FlattenAppend, Zenon
    <2>6. (FlattenSeq(ps) \o FlattenSeq(h)) \o x = FlattenSeq(ps) \o (FlattenSeq(h) \o x)
      <3>1. FlattenSeq(ps) \in Seq(E) /\ FlattenSeq(h) \in Seq(E) /\ x \in Seq(E)
        BY <1>1, Zenon
      <3>2. PICK a \in Seq(E), b \in Seq(E), c \in Seq(E) : a = FlattenSeq(ps) /\ b = FlattenSeq(h) /\ c = x
        BY <3>1
      <3>3. (a \o b) \o c = a \o (b \o c)
        BY <1>8
      <3>4. QED
        BY <3>2, <3>3, Zenon
    <2>7. FlattenSeq(ps \o Half(k)) = FlattenSeq(ps) \o FlattenSeq(Half(k))
      BY <2>2, <2>4, <2>5, <2>6, Zenon
    <2>8. QED
      BY <2>7
  <1>6. Len(qs) \in T
    <2> HIDE DEF T
    <2>1. Len(qs) \in Nat
      OBVIOUS
    <2>2. \A k \in 0 .. Len(qs) : k \in T
      BY <1>4, <1>5, <2>1, UpTo
    <2>3. QED
      BY <2>1, <2>2
  <1>7. QED
    BY <1>1, <1>2, <1>6

\* What a list of lists holds is held by its members, and the other way round.
LEMMA FlattenMembers ==
    ASSUME NEW E, NEW ps \in Seq(Lists(E))
    PROVE  /\ \A p \in 1 .. Len(FlattenSeq(ps)) :
                  \E i \in 1 .. Len(ps) : \E x \in 1 .. Len(ps[i]) : FlattenSeq(ps)[p] = ps[i][x]
           /\ \A i \in 1 .. Len(ps) : \A x \in 1 .. Len(ps[i]) :
                  \E p \in 1 .. Len(FlattenSeq(ps)) : FlattenSeq(ps)[p] = ps[i][x]
  <1>a. Lists(E) \subseteq Seq(E) /\ Seq(E) \subseteq Lists(E) 
    BY DEF Lists
  <1> USE <1>a
  <1> DEFINE Half(k) == SubSeq(ps, 1, k)
             F(k) == FlattenSeq(Half(k))
             Good(k) == /\ F(k) \in Seq(E)
                        /\ \A p \in 1 .. Len(F(k)) : \E i \in 1 .. k : \E x \in 1 .. Len(ps[i]) : F(k)[p] = ps[i][x]
                        /\ \A i \in 1 .. k : \A x \in 1 .. Len(ps[i]) : \E p \in 1 .. Len(F(k)) : F(k)[p] = ps[i][x]
             T == {k \in 0 .. Len(ps) : Good(k)}
  <1>6. Half(0) = <<>> /\ Half(Len(ps)) = ps
    BY HeadsOf
  <1>7. \A k \in 1 .. Len(ps) : Half(k) = Append(Half(k - 1), ps[k]) /\ Half(k - 1) \in Seq(Lists(E)) /\ ps[k] \in Seq(E)
    BY HeadsOf
  <1> HIDE DEF Half
  <1>1. 0 \in T
    <2>1. F(0) = <<>>
      BY <1>6, FlattenEmpty
    <2> HIDE DEF F
    <2>2. Good(0)
      <3>1. <<>> \in Seq(E) /\ Len(<<>>) = 0
        OBVIOUS
      <3>2. F(0) \in Seq(E) /\ Len(F(0)) = 0
        BY <2>1, <3>1, Zenon
      <3>3. QED
        BY <3>2
    <2> HIDE DEF Good
    <2>3. QED
      BY <2>2
  <1>2. ASSUME NEW k \in 1 .. Len(ps), k - 1 \in T PROVE k \in T
    <2>1. ps[k] \in Seq(E)
      BY <1>7
    <2>2. F(k) = F(k - 1) \o ps[k]
      BY <1>7, FlattenAppend, Zenon
    <2>3. Good(k - 1)
      BY <1>2
    <2> HIDE DEF F
    <2>4. PICK a \in Seq(E), b \in Seq(E) : a = F(k - 1) /\ b = ps[k]
      BY <2>1, <2>3
    <2>9. PICK f : f = F(k) /\ f = a \o b
      BY <2>2, <2>4, Zenon
    <2>12. /\ a \o b \in Seq(E) /\ Len(a \o b) = Len(a) + Len(b)
           /\ \A p \in 1 .. Len(a) : (a \o b)[p] = a[p]
           /\ \A p \in 1 .. Len(b) : (a \o b)[Len(a) + p] = b[p]
           /\ \A p \in Len(a) + 1 .. Len(a) + Len(b) : (a \o b)[p] = b[p - Len(a)]
      BY ConcatFacts
    <2>10. /\ f \in Seq(E) /\ Len(f) = Len(a) + Len(b)
           /\ \A p \in 1 .. Len(a) : f[p] = a[p]
           /\ \A p \in 1 .. Len(b) : f[Len(a) + p] = b[p]
           /\ \A p \in Len(a) + 1 .. Len(a) + Len(b) : f[p] = b[p - Len(a)]
      BY <2>9, <2>12, Zenon
    <2>5. /\ F(k) \in Seq(E) /\ Len(F(k)) = Len(a) + Len(b)
          /\ \A p \in 1 .. Len(a) : F(k)[p] = a[p]
          /\ \A p \in 1 .. Len(b) : F(k)[Len(a) + p] = b[p]
          /\ \A p \in Len(a) + 1 .. Len(a) + Len(b) : F(k)[p] = b[p - Len(a)]
      BY <2>9, <2>10, Zenon
    <2>6. ASSUME NEW p \in 1 .. Len(F(k)) PROVE \E i \in 1 .. k : \E x \in 1 .. Len(ps[i]) : F(k)[p] = ps[i][x]
      <3>1. CASE p <= Len(a)
        <4>1. p \in 1 .. Len(a)
          BY <3>1
        <4>2. PICK i \in 1 .. k - 1 : \E x \in 1 .. Len(ps[i]) : a[p] = ps[i][x]
          BY <2>3, <2>4, <4>1
        <4>3. i \in 1 .. k
          OBVIOUS
        <4>4. QED
          BY <2>5, <4>1, <4>2, <4>3
      <3>2. CASE p > Len(a)
        <4>1. p - Len(a) \in 1 .. Len(b) /\ F(k)[p] = b[p - Len(a)] /\ k \in 1 .. k
          BY <2>5, <3>2
        <4>2. QED
          BY <2>4, <4>1
      <3>3. QED
        BY <2>5, <3>1, <3>2
    <2>7. ASSUME NEW i \in 1 .. k, NEW x \in 1 .. Len(ps[i]) PROVE \E p \in 1 .. Len(F(k)) : F(k)[p] = ps[i][x]
      <3>1. CASE i = k
        <4>1. x \in 1 .. Len(b) /\ Len(a) + x \in 1 .. Len(F(k)) /\ F(k)[Len(a) + x] = ps[i][x]
          BY <2>4, <2>5, <3>1
        <4>2. QED
          BY <4>1
      <3>2. CASE i # k
        <4>1. i \in 1 .. k - 1
          BY <3>2
        <4>2. PICK p \in 1 .. Len(a) : a[p] = ps[i][x]
          BY <2>3, <2>4, <4>1
        <4>3. p \in 1 .. Len(F(k)) /\ F(k)[p] = a[p]
          BY <2>5
        <4>4. QED
          BY <4>2, <4>3
      <3>3. QED
        BY <3>1, <3>2
    <2>8. Good(k)
      BY <2>5, <2>6, <2>7
    <2> HIDE DEF Good
    <2>11. QED
      BY <2>8
  <1>3. Good(Len(ps))
    <2> HIDE DEF Good
    <2>1. Len(ps) \in Nat
      OBVIOUS
    <2>2. 0 \in T /\ \A k \in 1 .. Len(ps) : k - 1 \in T => k \in T
      BY <1>1, <1>2
    <2>3. \A k \in 0 .. Len(ps) : k \in T
      <3> HIDE DEF T
      <3>1. QED
        BY <2>1, <2>2, UpTo
    <2>4. QED
      BY <2>1, <2>3
  <1> HIDE DEF T
  <1>5. QED
    BY <1>3, <1>6

----------------------------------------------------------------------------
\* The order of the segment files.

\* There is one list of the files by first index, and ListSegments returns it.
LEMMA ListedIs ==
    ASSUME NEW names, NEW fs, Listed(names, fs)
    PROVE  ListSegments(fs) = names
  <1> DEFINE n == Len(names)
             D == DOMAIN fs
             Sorted(f) == /\ f \in Injection(1 .. Cardinality(D), D)
                          /\ \A i, j \in DOMAIN f : i < j => ~Before(f[j], f[i])
  <1>1. /\ names \in Seq(Segment) /\ n \in Nat
        /\ D = {names[k] : k \in 1 .. n}
        /\ \A i, j \in 1 .. n : i < j => names[i].first < names[j].first
    BY DEF Listed
  <1>2. \A k \in 1 .. n : names[k] \in D /\ names[k].first \in Nat
    <2>1. \A k \in 1 .. n : names[k] \in Segment
      BY <1>1
    <2>2. QED
      BY <1>1, <2>1 DEF Segment
  <1>3. \A i, j \in 1 .. n : names[i] = names[j] => i = j
    BY <1>1, <1>2
  <1>4. names \in [1 .. n -> D] /\ DOMAIN names = 1 .. n
    BY <1>1, <1>2
  <1> HIDE DEF n
  <1>5. names \in Bijection(1 .. n, D)
    <2>1. names \in Injection(1 .. n, D)
      BY <1>3, <1>4, Zenon DEF Injection, IsInjective
    <2>2. \A d \in D : \E k \in 1 .. n : names[k] = d
      BY <1>1
    <2>3. names \in Surjection(1 .. n, D)
      BY <1>4, <2>2, Zenon DEF Surjection
    <2>4. QED
      BY <2>1, <2>3 DEF Bijection
  <1>6. IsFiniteSet(D) /\ Cardinality(D) = n
    <2>1. IsFiniteSet(1 .. n) /\ Cardinality(1 .. n) = n
      BY <1>1, FS_Interval
    <2>2. ExistsBijection(1 .. n, D)
      BY <1>5 DEF ExistsBijection
    <2>3. QED
      BY <2>1, <2>2, FS_Bijection, Zenon
  <1>7. Sorted(names)
    <2>1. names \in Injection(1 .. n, D)
      BY <1>5 DEF Bijection
    <2>2. ASSUME NEW i \in 1 .. n, NEW j \in 1 .. n, i < j PROVE ~Before(names[j], names[i])
      BY <1>1, <1>2, <2>2 DEF Before
    <2>3. QED
      BY <1>4, <1>6, <2>1, <2>2
  <1>8. ASSUME NEW f, Sorted(f) PROVE f = names
    <2>1. f \in Injection(1 .. n, D) /\ \A i, j \in DOMAIN f : i < j => ~Before(f[j], f[i])
      BY <1>6, <1>8
    <2>2. f \in [1 .. n -> D] /\ DOMAIN f = 1 .. n /\ \A a, b \in 1 .. n : f[a] = f[b] => a = b
      BY <2>1 DEF Injection, IsInjective
    <2>3. \A d \in D : \E k \in 1 .. n : f[k] = d
      <3>1. IsFiniteSet(1 .. n) /\ Cardinality(1 .. n) = n
        BY <1>1, FS_Interval
      <3>2. f \in Surjection(1 .. n, D)
        BY <1>6, <2>1, <3>1, FS_Injection, Zenon
      <3>3. QED
        BY <3>2, Zenon DEF Surjection
    <2>4. SUFFICES ASSUME {k \in 1 .. n : f[k] # names[k]} # {} PROVE FALSE
      <3>1. ASSUME {k \in 1 .. n : f[k] # names[k]} = {} PROVE f = names
        <4>1. \A k \in 1 .. n : f[k] = names[k]
          BY <3>1
        <4>2. f = [k \in 1 .. n |-> f[k]] /\ names = [k \in 1 .. n |-> names[k]]
          BY <1>4, <2>2, Zenon
        <4>3. QED
          BY <4>1, <4>2
      <3>2. QED
        BY <3>1
    <2>5. {k \in 1 .. n : f[k] # names[k]} \in SUBSET Nat
      OBVIOUS
    <2>6. PICK k \in 1 .. n : f[k] # names[k] /\ \A m \in 1 .. n : f[m] # names[m] => k <= m
      BY <2>4, <2>5, LeastNat
    <2>7. PICK m \in 1 .. n : f[m] = names[k]
      BY <1>2, <2>3
    <2>8. PICK l \in 1 .. n : names[l] = f[k]
      BY <1>1, <2>2
    <2>9. k < m /\ k < l
      BY <1>3, <2>2, <2>6, <2>7, <2>8
    <2>10. names[k].first < names[l].first
      BY <1>1, <2>9
    <2>11. Before(f[m], f[k])
      BY <2>7, <2>8, <2>10 DEF Before
    <2>12. QED
      BY <2>1, <2>2, <2>9, <2>11
  <1>9. ListSegments(fs) = CHOOSE f : Sorted(f)
    BY DEF ListSegments
  <1> HIDE DEF Sorted
  <1>10. QED
    BY <1>7, <1>8, <1>9

\* What comes before the last segment.
BeforeLast(fs, names) == FlattenSeq([k \in 1 .. Len(names) - 1 |-> fs[names[k]]])

\* The contents are those of the segments before the last, and of the last.
LEMMA ContentsSplit ==
    ASSUME NEW names, NEW fs, Listed(names, fs), names # <<>>,
           \A f \in DOMAIN fs : fs[f] \in Seq(Entry)
    PROVE  /\ Len(names) \in Nat /\ Len(names) >= 1
           /\ BeforeLast(fs, names) \in Seq(Entry) /\ names[Len(names)] \in DOMAIN fs
           /\ fs[names[Len(names)]] \in Seq(Entry)
           /\ WalContents(fs) = BeforeLast(fs, names) \o fs[names[Len(names)]]
  <1>1. PICK n \in Nat : n = Len(names) /\ n >= 1
    BY DEF Listed
  <1>2. /\ DOMAIN names = 1 .. n /\ n \in 1 .. n
        /\ \A k \in 1 .. n : names[k] \in DOMAIN fs /\ fs[names[k]] \in Seq(Entry)
    BY <1>1 DEF Listed
  <1>3. PICK V : V = Lists(Entry)
    OBVIOUS
  <1>4. V \subseteq Seq(Entry) /\ Seq(Entry) \subseteq V
    BY <1>3 DEF Lists
  <1>5. PICK part : part = [k \in 1 .. n |-> fs[names[k]]]
    OBVIOUS
  <1>6. \A k \in 1 .. n : part[k] = fs[names[k]] /\ part[k] \in V
    BY <1>2, <1>4, <1>5
  <1>7. part \in [1 .. n -> V]
    BY <1>5, <1>6
  <1>8. part \in Seq(V) /\ Len(part) = n
    BY <1>7
  <1> DEFINE a == [k \in 1 .. n - 1 |-> part[k]]
  <1>9. a \in Seq(V) /\ Len(a) = n - 1 /\ \A k \in 1 .. n - 1 : a[k] = part[k]
    <2>1. a \in [1 .. n - 1 -> V]
      BY <1>6
    <2>4. n - 1 \in Nat
      BY <1>1
    <2> HIDE DEF a
    <2>2. a \in Seq(V) /\ Len(a) = n - 1
      BY <2>1, <2>4
    <2>3. QED
      BY <2>2 DEF a
  <1>10. a = [k \in 1 .. n - 1 |-> fs[names[k]]]
    BY <1>6
  <1> HIDE DEF a
  <1>11. part = Append(a, part[n])
    <2>1. /\ Append(a, part[n]) \in Seq(V) /\ Len(Append(a, part[n])) = n
          /\ \A k \in 1 .. n : Append(a, part[n])[k] = part[k]
      BY <1>2, <1>6, <1>8, <1>9
    <2>2. QED
      BY <1>8, <2>1
  <1>12. part[n] \in Seq(Entry) /\ part[n] = fs[names[n]]
    BY <1>2, <1>6
  <1>13. FlattenSeq(part) = FlattenSeq(a) \o part[n] /\ FlattenSeq(a) \in Seq(Entry)
    <2>1. FlattenSeq(a) \in Seq(Entry)
      BY <1>3, <1>9, FlattenConcat, Zenon
    <2>2. FlattenSeq(Append(a, part[n])) = FlattenSeq(a) \o part[n]
      BY <1>4, <1>9, <1>12, FlattenAppend, Zenon
    <2>3. QED
      BY <1>11, <2>1, <2>2, Zenon
  <1>14. WalContents(fs) = FlattenSeq(part)
    <2>1. ListSegments(fs) = names
      BY ListedIs
    <2>2. WalContents(fs) = FlattenSeq([k \in DOMAIN names |-> fs[names[k]]])
      BY <2>1, Zenon DEF WalContents
    <2>3. QED
      BY <1>2, <1>5, <2>2, Zenon
  <1>15. BeforeLast(fs, names) = FlattenSeq(a)
    BY <1>1, <1>10, Zenon DEF BeforeLast
  <1>16. QED
    BY <1>1, <1>2, <1>12, <1>13, <1>14, <1>15, Zenon

----------------------------------------------------------------------------
\* The queue.

\* A request and its entries.
LEMMA RequestFacts ==
    ASSUME NEW n \in Nat, NEW r \in Request(n)
    PROVE  /\ r \in Request(n + 1)
           /\ r.logs \in Seq(Entry) /\ Len(r.logs) >= 1 /\ r.kind \in {"wait", "async"}
           /\ r.logs[1] \in Entry /\ r.logs[1].id \in 1 .. n /\ r.logs[1].index \in Nat
           /\ \A k \in 1 .. Len(r.logs) : /\ r.logs[k] \in Entry
                                          /\ r.logs[k].index = r.logs[1].index + k - 1
                                          /\ r.logs[k].id = r.logs[1].id
  <1>1. /\ r.logs \in Seq(Entry) /\ Len(r.logs) >= 1 /\ r.kind \in {"wait", "async"}
        /\ r.logs[1].id \in 1 .. n
        /\ \A k \in 1 .. Len(r.logs) : /\ r.logs[k].index = r.logs[1].index + k - 1
                                       /\ r.logs[k].id = r.logs[1].id
    BY DEF Request
  <1>2. \A k \in 1 .. Len(r.logs) : r.logs[k] \in Entry
    BY <1>1
  <1>3. r.logs[1] \in Entry
    BY <1>1, <1>2
  <1>4. r.logs[1].index \in Nat
    BY <1>3 DEF Entry
  <1>5. r \in Request(n + 1)
    <2>1. r \in [kind : {"wait", "async"}, logs : Seq(Entry)]
      BY DEF Request
    <2>2. r.logs[1].id \in 1 .. n + 1
      BY <1>1
    <2>3. QED
      BY <1>1, <2>1, <2>2 DEF Request
  <1>6. QED
    BY <1>1, <1>2, <1>3, <1>4, <1>5

\* The beginning of a queue and what is left of it.
LEMMA TakeAndDrop ==
    ASSUME NEW S, NEW q \in Seq(S), NEW n \in Nat
    PROVE  /\ Take(q, n) \in Seq(S) /\ Drop(q, n) \in Seq(S) /\ q = Take(q, n) \o Drop(q, n)
           /\ Len(Take(q, n)) = IF n <= Len(q) THEN n ELSE Len(q)
           /\ \A k \in 1 .. Len(Take(q, n)) : Take(q, n)[k] = q[k]
  <1>1. PICK m \in Nat : m = Min({n, Len(q)}) /\ m = IF n <= Len(q) THEN n ELSE Len(q)
    <2>1. n \in Int /\ Len(q) \in Int /\ Len(q) \in Nat
      OBVIOUS
    <2>2. Min({n, Len(q)}) = IF n <= Len(q) THEN n ELSE Len(q)
      BY <2>1, MinMaxOfTwo, Zenon
    <2>3. QED
      BY <2>1, <2>2
  <1> DEFINE a == SubSeq(q, 1, m)
             b == SubSeq(q, n + 1, Len(q))
  <1>8. m <= Len(q) /\ Len(q) \in Nat /\ m >= 0
    BY <1>1
  <1>2. a \in Seq(S) /\ Len(a) = m /\ \A k \in 1 .. m : a[k] = q[k]
    BY <1>8
  <1>3. b \in Seq(S) /\ Len(b) = Len(q) - m /\ \A k \in 1 .. Len(b) : b[k] = q[m + k]
    <2>1. PICK x \in Int, y \in Int : x = n + 1 /\ y = Len(q) /\ x >= 1 /\ y <= Len(q)
      BY <1>8
    <2>2. /\ SubSeq(q, x, y) \in Seq(S)
          /\ Len(SubSeq(q, x, y)) = IF x <= y THEN y - x + 1 ELSE 0
          /\ \A k \in 1 .. Len(SubSeq(q, x, y)) : SubSeq(q, x, y)[k] = q[x + k - 1]
      BY <2>1, SubSeqFacts
    <2>3. b = SubSeq(q, x, y)
      BY <2>1, Zenon
    <2> HIDE DEF b
    <2>4. b \in Seq(S) /\ Len(b) = IF x <= y THEN y - x + 1 ELSE 0
      BY <2>2, <2>3
    <2>5. Len(b) = Len(q) - m
      BY <1>1, <1>8, <2>1, <2>4
    <2>6. ASSUME NEW k \in 1 .. Len(b) PROVE b[k] = q[m + k]
      <3>1. x <= y /\ m = n /\ x + k - 1 = m + k
        BY <1>1, <1>8, <2>1, <2>4
      <3>2. b[k] = q[x + k - 1]
        BY <2>2, <2>3
      <3>3. QED
        BY <3>1, <3>2
    <2>7. QED
      BY <2>4, <2>5, <2>6
  <1> HIDE DEF a, b
  <1>4. PICK c \in Seq(S) : /\ c = a \o b /\ Len(c) = Len(q)
                            /\ \A k \in 1 .. m : c[k] = a[k]
                            /\ \A k \in 1 .. Len(b) : c[m + k] = b[k]
    <2>1. /\ a \o b \in Seq(S) /\ Len(a \o b) = Len(a) + Len(b)
          /\ \A k \in 1 .. Len(a) : (a \o b)[k] = a[k]
          /\ \A k \in 1 .. Len(b) : (a \o b)[Len(a) + k] = b[k]
      BY <1>2, <1>3, ConcatFacts
    <2>2. Len(a) + Len(b) = Len(q) /\ Len(a) = m
      BY <1>2, <1>3, <1>8
    <2>3. QED
      BY <2>1, <2>2
  <1>9. ASSUME NEW k \in 1 .. Len(q) PROVE c[k] = q[k]
    <2>1. CASE k <= m
      BY <1>2, <1>4, <2>1
    <2>2. CASE k > m
      <3>1. k - m \in 1 .. Len(b) /\ m + (k - m) = k
        BY <1>3, <1>8, <2>2
      <3>2. c[m + (k - m)] = b[k - m] /\ b[k - m] = q[m + (k - m)]
        BY <1>3, <1>4, <3>1
      <3>3. QED
        BY <3>1, <3>2
    <2>3. QED
      BY <1>8, <2>1, <2>2
  <1>5. a \o b = q
    BY <1>4, <1>9, SameSeq
  <1>6. Take(q, n) = a /\ Drop(q, n) = b
    BY <1>1 DEF Take, Drop, a, b
  <1>7. QED
    BY <1>1, <1>2, <1>3, <1>5, <1>6

\* What the WAL thread takes, and what it leaves.
LEMMA BulkAndRest ==
    ASSUME TypeInv
    PROVE  /\ Bulk \in Seq(Request(requests)) /\ Rest \in Seq(Request(requests))
           /\ Queue \in Seq(Request(requests)) /\ Queue = Bulk \o Rest
           /\ batches # <<>> => Len(Bulk) >= 1
           /\ Len(batches) <= 1 /\ kSyncBatchCount = 1 => Len(Bulk) <= 1
  <1>1. PICK S : S = Request(requests)
    OBVIOUS
  <1>2. batches \in Seq(S) /\ m_queue_log \in Seq(S)
    BY <1>1 DEF TypeInv
  <1>3. kSyncBatchCount - 1 \in Nat
    BY PersisterAssumption
  <1>4. PICK a \in Seq(S), b \in Seq(S) :
            /\ a = Take(m_queue_log, kSyncBatchCount - 1) /\ b = Drop(m_queue_log, kSyncBatchCount - 1)
            /\ m_queue_log = a \o b
            /\ kSyncBatchCount = 1 => Len(a) = 0
    <2>1. PICK n \in Nat : n = kSyncBatchCount - 1
      BY <1>3
    <2>2. /\ Take(m_queue_log, n) \in Seq(S) /\ Drop(m_queue_log, n) \in Seq(S)
          /\ m_queue_log = Take(m_queue_log, n) \o Drop(m_queue_log, n)
          /\ Len(Take(m_queue_log, n)) = IF n <= Len(m_queue_log) THEN n ELSE Len(m_queue_log)
      BY <1>2, TakeAndDrop
    <2>3. Len(m_queue_log) \in Nat
      BY <1>2
    <2>4. kSyncBatchCount = 1 => Len(Take(m_queue_log, n)) = 0
      BY <2>1, <2>2, <2>3
    <2>5. QED
      BY <2>1, <2>2, <2>4, Zenon
  <1>5. /\ batches \o a \in Seq(S) /\ Len(batches \o a) = Len(batches) + Len(a)
        /\ batches # <<>> => Len(batches) >= 1
    BY <1>2
  <1>6. batches \o (a \o b) = (batches \o a) \o b /\ batches \o (a \o b) \in Seq(S)
    BY <1>2, ConcatAssoc
  <1>7. Bulk = batches \o a /\ Rest = b /\ Queue = batches \o (a \o b)
    BY <1>4, Zenon DEF Bulk, Rest, Queue
  <1>8. PICK c \in Seq(S) : c = batches \o a /\ Len(c) = Len(batches) + Len(a)
    BY <1>5
  <1>9. Bulk = c /\ Queue = c \o b /\ c \o b \in Seq(S)
    BY <1>6, <1>7, <1>8
  <1>10. /\ batches # <<>> => Len(c) >= 1
         /\ Len(batches) <= 1 /\ kSyncBatchCount = 1 => Len(c) <= 1
    BY <1>2, <1>4, <1>5, <1>8
  <1>11. QED
    BY <1>1, <1>7, <1>9, <1>10, Zenon

\* The requests that join those who wait to be told: all of reqs, each of one kind.
LEMMA OfKindFacts ==
    ASSUME NEW S, NEW reqs \in Seq(S), NEW kind
    PROVE  /\ OfKind(reqs, kind) \in Seq(S)
           /\ \A k \in 1 .. Len(OfKind(reqs, kind)) : \E i \in 1 .. Len(reqs) : OfKind(reqs, kind)[k] = reqs[i]
           /\ \A i \in 1 .. Len(reqs) : reqs[i].kind = kind =>
                  \E k \in 1 .. Len(OfKind(reqs, kind)) : OfKind(reqs, kind)[k] = reqs[i]
  <1> DEFINE K == {k \in DOMAIN reqs : reqs[k].kind = kind}
  <1>1. K \in SUBSET (1 .. Len(reqs))
    OBVIOUS
  <1>2. OfKind(reqs, kind) = Pick(reqs, K)
    BY DEF OfKind
  <1> HIDE DEF K
  <1>3. PICK p : p = Pick(reqs, K)
    OBVIOUS
  <1>4. p \in Seq({reqs[k] : k \in K}) /\ \A k \in K : \E n \in 1 .. Len(p) : p[n] = reqs[k]
    BY <1>1, <1>3, PickFacts
  <1>5. \A k \in 1 .. Len(p) : \E i \in K : p[k] = reqs[i]
    BY <1>4
  <1>9. \A k \in K : k \in 1 .. Len(reqs)
    BY <1>1
  <1>6. {reqs[k] : k \in K} \subseteq S
    BY <1>1
  <1>7. p \in Seq(S)
    BY <1>4, <1>6, SeqWiden
  <1>8. QED
    <2>1. \A i \in 1 .. Len(reqs) : reqs[i].kind = kind => i \in K
      BY DEF K
    <2>2. \A k \in 1 .. Len(p) : \E i \in 1 .. Len(reqs) : p[k] = reqs[i]
      BY <1>5, <1>9
    <2>3. \A i \in 1 .. Len(reqs) : reqs[i].kind = kind => \E k \in 1 .. Len(p) : p[k] = reqs[i]
      BY <1>4, <2>1, Zenon
    <2>4. OfKind(reqs, kind) = p
      BY <1>2, <1>3, Zenon
    <2>5. QED
      BY <1>7, <2>2, <2>3, <2>4, Zenon

\* Those who wait to be told are told what there is to tell, and nobody else is.
LEMMA JoinFacts ==
    ASSUME NEW n \in Nat, NEW reqs \in Seq(Request(n)),
           waiters \in Seq(Request(n)), callbacks \in Seq(Request(n)), JoinWaiting(reqs)
    PROVE  /\ waiters' \in Seq(Request(n)) /\ callbacks' \in Seq(Request(n))
           /\ \A r \in Collected' : r \in Collected \/ \E i \in 1 .. Len(reqs) : r = reqs[i]
           /\ \A i \in 1 .. Len(reqs) : reqs[i] \in Collected'
  <1>1. PICK S : S = Request(n) /\ \A r \in S : r.kind \in {"wait", "async"}
    BY RequestFacts
  <1>2. reqs \in Seq(S) /\ waiters \in Seq(S) /\ callbacks \in Seq(S)
    BY <1>1
  <1>3. PICK w \in Seq(S), c \in Seq(S) :
            /\ w = OfKind(reqs, "wait") /\ c = OfKind(reqs, "async")
            /\ \A k \in 1 .. Len(w) : \E i \in 1 .. Len(reqs) : w[k] = reqs[i]
            /\ \A k \in 1 .. Len(c) : \E i \in 1 .. Len(reqs) : c[k] = reqs[i]
            /\ \A i \in 1 .. Len(reqs) : reqs[i].kind = "wait" => \E k \in 1 .. Len(w) : w[k] = reqs[i]
            /\ \A i \in 1 .. Len(reqs) : reqs[i].kind = "async" => \E k \in 1 .. Len(c) : c[k] = reqs[i]
    <2>1. OfKind(reqs, "wait") \in Seq(S) /\ OfKind(reqs, "async") \in Seq(S)
      BY <1>2, OfKindFacts
    <2>2. /\ \A k \in 1 .. Len(OfKind(reqs, "wait")) : \E i \in 1 .. Len(reqs) : OfKind(reqs, "wait")[k] = reqs[i]
          /\ \A i \in 1 .. Len(reqs) : reqs[i].kind = "wait" =>
                 \E k \in 1 .. Len(OfKind(reqs, "wait")) : OfKind(reqs, "wait")[k] = reqs[i]
      BY <1>2, OfKindFacts
    <2>3. /\ \A k \in 1 .. Len(OfKind(reqs, "async")) : \E i \in 1 .. Len(reqs) : OfKind(reqs, "async")[k] = reqs[i]
          /\ \A i \in 1 .. Len(reqs) : reqs[i].kind = "async" =>
                 \E k \in 1 .. Len(OfKind(reqs, "async")) : OfKind(reqs, "async")[k] = reqs[i]
      BY <1>2, OfKindFacts
    <2>4. QED
      BY <2>1, <2>2, <2>3, Zenon
  <1>4. waiters' = waiters \o w /\ callbacks' = callbacks \o c
    BY <1>3 DEF JoinWaiting
  <1>5. ASSUME NEW a \in Seq(S), NEW b \in Seq(S)
        PROVE  /\ a \o b \in Seq(S)
               /\ \A r \in ToSet(a \o b) : r \in ToSet(a) \/ \E k \in 1 .. Len(b) : r = b[k]
               /\ \A k \in 1 .. Len(b) : b[k] \in ToSet(a \o b)
    <2>1. PICK d \in Seq(S) : /\ d = a \o b /\ Len(d) = Len(a) + Len(b)
                              /\ \A k \in 1 .. Len(a) : d[k] = a[k]
                              /\ \A k \in 1 .. Len(b) : d[Len(a) + k] = b[k]
      <3>1. /\ a \o b \in Seq(S) /\ Len(a \o b) = Len(a) + Len(b)
            /\ \A k \in 1 .. Len(a) : (a \o b)[k] = a[k]
            /\ \A k \in 1 .. Len(b) : (a \o b)[Len(a) + k] = b[k]
        BY ConcatFacts
      <3>2. QED
        BY <3>1
    <2>5. Len(a) \in Nat /\ Len(b) \in Nat /\ DOMAIN d = 1 .. Len(d)
      BY <2>1
    <2>2. ASSUME NEW r \in ToSet(d) PROVE r \in ToSet(a) \/ \E k \in 1 .. Len(b) : r = b[k]
      <3>1. PICK k \in 1 .. Len(d) : r = d[k]
        BY DEF ToSet
      <3>2. CASE k <= Len(a)
        BY <2>1, <2>5, <3>1, <3>2 DEF ToSet
      <3>3. CASE k > Len(a)
        <4>1. PICK i \in 1 .. Len(b) : k = Len(a) + i
          <5>1. k - Len(a) \in 1 .. Len(b) /\ k = Len(a) + (k - Len(a))
            BY <2>1, <2>5, <3>3
          <5>2. QED
            BY <5>1
        <4>2. d[k] = b[i]
          BY <2>1, <4>1
        <4>3. QED
          BY <3>1, <4>2
      <3>4. QED
        BY <3>2, <3>3
    <2>3. ASSUME NEW k \in 1 .. Len(b) PROVE b[k] \in ToSet(d)
      <3>1. Len(a) + k \in DOMAIN d /\ d[Len(a) + k] = b[k]
        BY <2>1, <2>5
      <3>2. QED
        BY <3>1 DEF ToSet
    <2>4. QED
      BY <2>1, <2>2, <2>3
  <1>6. /\ waiters' \in Seq(S) /\ callbacks' \in Seq(S)
        /\ \A r \in ToSet(waiters') : r \in ToSet(waiters) \/ \E k \in 1 .. Len(w) : r = w[k]
        /\ \A r \in ToSet(callbacks') : r \in ToSet(callbacks) \/ \E k \in 1 .. Len(c) : r = c[k]
        /\ \A k \in 1 .. Len(w) : w[k] \in ToSet(waiters')
        /\ \A k \in 1 .. Len(c) : c[k] \in ToSet(callbacks')
    BY <1>2, <1>4, <1>5
  <1>7. Collected' = ToSet(waiters') \cup ToSet(callbacks')
    BY DEF Collected
  <1>8. \A i \in 1 .. Len(reqs) : reqs[i].kind \in {"wait", "async"}
    BY <1>1, <1>2
  <1>9. ASSUME NEW r \in Collected' PROVE r \in Collected \/ \E i \in 1 .. Len(reqs) : r = reqs[i]
    <2>1. CASE r \in ToSet(waiters')
      <3>1. r \in ToSet(waiters) \/ \E k \in 1 .. Len(w) : r = w[k]
        BY <1>6, <2>1
      <3>2. ToSet(waiters) \subseteq Collected
        BY DEF Collected
      <3>3. QED
        BY <1>3, <3>1, <3>2
    <2>2. CASE r \in ToSet(callbacks')
      <3>1. r \in ToSet(callbacks) \/ \E k \in 1 .. Len(c) : r = c[k]
        BY <1>6, <2>2
      <3>2. ToSet(callbacks) \subseteq Collected
        BY DEF Collected
      <3>3. QED
        BY <1>3, <3>1, <3>2
    <2>3. QED
      BY <1>7, <2>1, <2>2
  <1>10. ASSUME NEW i \in 1 .. Len(reqs) PROVE reqs[i] \in Collected'
    <2>1. CASE reqs[i].kind = "wait"
      BY <1>3, <1>6, <1>7, <2>1, Zenon
    <2>2. CASE reqs[i].kind = "async"
      BY <1>3, <1>6, <1>7, <2>2, Zenon
    <2>3. QED
      BY <1>8, <2>1, <2>2
  <1>11. QED
    BY <1>1, <1>6, <1>9, <1>10, Zenon

\* What is left of raft's log when requests have failed: all of it up to the first of their entries.
LEMMA LeftOfLog ==
    ASSUME NEW failed, m_logs \in Seq(Entry)
    PROVE  \E n \in 0 .. Len(m_logs) :
              /\ WithoutFailed(failed) = SubSeq(m_logs, 1, n)
              /\ \A k \in 1 .. n, r \in failed : m_logs[k].index < r.logs[1].index
  <1> DEFINE left == {n \in 0 .. Len(m_logs) :
                         \A k \in 1 .. n, r \in failed : m_logs[k].index < r.logs[1].index}
  <1>1. left \in SUBSET (0 .. Len(m_logs)) /\ left # {}
    <2>1. 0 \in left
      OBVIOUS
    <2>2. QED
      BY <2>1
  <1>2. Max(left) \in left
    <2>1. Len(m_logs) \in Int /\ 0 \in Int
      OBVIOUS
    <2> HIDE DEF left
    <2>2. QED
      BY <1>1, <2>1, MaxOfSome, Zenon
  <1>3. QED
    BY <1>2 DEF WithoutFailed

----------------------------------------------------------------------------
\* Changes of the segment files.

\* The first of the files that come before the last.
LEMMA FrontSame ==
    ASSUME NEW names, NEW fs, NEW gs, Len(names) \in Nat,
           \A k \in 1 .. Len(names) - 1 : gs[names[k]] = fs[names[k]]
    PROVE  BeforeLast(gs, names) = BeforeLast(fs, names)
  <1>1. [k \in 1 .. Len(names) - 1 |-> gs[names[k]]] = [k \in 1 .. Len(names) - 1 |-> fs[names[k]]]
    OBVIOUS
  <1>2. QED
    BY <1>1, Zenon DEF BeforeLast

\* A single segment.
LEMMA Single ==
    ASSUME NEW name \in Segment, NEW c \in Seq(Entry), NEW fs, fs = [f \in {name} |-> c]
    PROVE  Listed(<<name>>, fs) /\ ListSegments(fs) = <<name>> /\ WalContents(fs) = c
  <1>1. PICK names : names = <<name>>
    OBVIOUS
  <1>2. names \in Seq(Segment) /\ Len(names) = 1 /\ names[1] = name /\ names # <<>>
    BY <1>1
  <1>3. DOMAIN fs = {names[k] : k \in 1 .. Len(names)}
    BY <1>2
  <1>4. Listed(names, fs)
    BY <1>2, <1>3 DEF Listed
  <1>5. ListSegments(fs) = names
    BY <1>4, ListedIs
  <1>6. BeforeLast(fs, names) = <<>>
    <2>1. [k \in 1 .. Len(names) - 1 |-> fs[names[k]]] = <<>>
      BY <1>2
    <2>2. QED
      BY <2>1, FlattenEmpty, Zenon DEF BeforeLast
  <1>7. \A f \in DOMAIN fs : fs[f] \in Seq(Entry)
    OBVIOUS
  <1>8. WalContents(fs) = BeforeLast(fs, names) \o fs[names[Len(names)]]
    BY <1>2, <1>4, <1>7, ContentsSplit
  <1>9. fs[names[Len(names)]] = c
    BY <1>2
  <1>10. <<>> \o c = c
    OBVIOUS
  <1>11. WalContents(fs) = c
    BY <1>6, <1>8, <1>9, <1>10
  <1>12. QED
    BY <1>1, <1>4, <1>5, <1>11

\* A new segment behind the others.
LEMMA Opened ==
    ASSUME NEW names, NEW fs, Listed(names, fs), names # <<>>, \A f \in DOMAIN fs : fs[f] \in Seq(Entry),
           NEW new \in Segment, \A k \in 1 .. Len(names) : names[k].first < new.first
    PROVE  /\ new \notin DOMAIN fs /\ Listed(Append(names, new), Touch(fs, new, <<>>))
           /\ ListSegments(Touch(fs, new, <<>>)) = Append(names, new)
           /\ WalContents(Touch(fs, new, <<>>)) = WalContents(fs)
  <1> PICK gs : gs = Touch(fs, new, <<>>)
    OBVIOUS
  <1>1. PICK n \in Nat : n = Len(names)
    BY DEF Listed
  <1>2. /\ names \in Seq(Segment) /\ DOMAIN names = 1 .. n
        /\ DOMAIN fs = {names[k] : k \in 1 .. n}
        /\ \A i, j \in 1 .. n : i < j => names[i].first < names[j].first
    BY <1>1 DEF Listed
  <1>3. new \notin DOMAIN fs
    <2>1. \A k \in 1 .. n : names[k] \in Segment
      BY <1>1, <1>2
    <2>2. \A k \in 1 .. n : names[k].first \in Nat /\ names[k].first < new.first
      BY <1>1, <2>1 DEF Segment
    <2>3. QED
      BY <1>2, <2>2
  <1>4. DOMAIN gs = DOMAIN fs \cup {new} /\ gs[new] = <<>> /\ \A f \in DOMAIN fs : gs[f] = fs[f]
    BY <1>3 DEF Touch
  <1>5. PICK more \in Seq(Segment) :
            /\ more = Append(names, new) /\ Len(more) = n + 1 /\ more[n + 1] = new
            /\ \A k \in 1 .. n : more[k] = names[k]
    <2>1. /\ Append(names, new) \in Seq(Segment) /\ Len(Append(names, new)) = n + 1
          /\ Append(names, new)[n + 1] = new
          /\ \A k \in 1 .. n : Append(names, new)[k] = names[k]
      BY <1>1, <1>2
    <2>2. QED
      BY <2>1, Zenon
  <1>6. Listed(more, gs)
    <2>1. DOMAIN gs = {more[k] : k \in 1 .. Len(more)}
      <3>1. ASSUME NEW f \in DOMAIN gs PROVE \E k \in 1 .. n + 1 : f = more[k]
        BY <1>2, <1>4, <1>5
      <3>2. ASSUME NEW k \in 1 .. n + 1 PROVE more[k] \in DOMAIN gs
        BY <1>2, <1>4, <1>5
      <3>3. QED
        BY <1>5, <3>1, <3>2
    <2>2. ASSUME NEW i \in 1 .. n + 1, NEW j \in 1 .. n + 1, i < j PROVE more[i].first < more[j].first
      BY <1>1, <1>2, <1>5, <2>2
    <2>3. QED
      BY <1>5, <2>1, <2>2 DEF Listed
  <1>7. ListSegments(gs) = more
    BY <1>6, ListedIs
  <1>8. WalContents(gs) = BeforeLast(gs, more) \o <<>>
    <2>1. \A f \in DOMAIN gs : gs[f] \in Seq(Entry)
      <3>1. PICK V : V = Seq(Entry)
        OBVIOUS
      <3>2. <<>> \in V /\ \A f \in DOMAIN fs : fs[f] \in V
        BY <3>1
      <3>3. \A f \in DOMAIN gs : gs[f] \in V
        BY <1>4, <3>2
      <3>4. QED
        BY <3>1, <3>3
    <2>2. more # <<>>
      BY <1>5
    <2>3. WalContents(gs) = BeforeLast(gs, more) \o gs[more[Len(more)]]
      BY <1>6, <2>1, <2>2, ContentsSplit
    <2>4. QED
      BY <1>4, <1>5, <2>3
  <1>9. BeforeLast(gs, more) = WalContents(fs)
    <2>1. [k \in 1 .. n |-> gs[more[k]]] = [k \in 1 .. n |-> fs[names[k]]]
      BY <1>2, <1>4, <1>5
    <2>2. BeforeLast(gs, more) = FlattenSeq([k \in 1 .. n |-> gs[more[k]]])
      <3>1. Len(more) - 1 = n
        BY <1>5
      <3>2. QED
        BY <3>1, Zenon DEF BeforeLast
    <2>3. ListSegments(fs) = names
      BY ListedIs
    <2>4. WalContents(fs) = FlattenSeq([k \in 1 .. n |-> fs[names[k]]])
      BY <1>2, <2>3, Zenon DEF WalContents
    <2>5. QED
      BY <2>1, <2>2, <2>4, Zenon
  <1>10. WalContents(fs) \o <<>> = WalContents(fs)
    <2>1. PICK c \in Seq(Entry) : c = WalContents(fs)
      <3>1. PICK a \in Seq(Entry), b \in Seq(Entry) : WalContents(fs) = a \o b
        BY ContentsSplit, Zenon
      <3>2. a \o b \in Seq(Entry)
        OBVIOUS
      <3>3. QED
        BY <3>1, <3>2, Zenon
    <2>2. c \o <<>> = c
      OBVIOUS
    <2>3. QED
      BY <2>1, <2>2
  <1>11. QED
    BY <1>3, <1>4, <1>5, <1>6, <1>7, <1>8, <1>9, <1>10

\* Another content of the last segment.
LEMMA Replaced ==
    ASSUME NEW names, NEW fs, Listed(names, fs), names # <<>>,
           NEW gs, DOMAIN gs = DOMAIN fs, \A f \in DOMAIN gs : gs[f] \in Seq(Entry),
           \A f \in DOMAIN fs : f # names[Len(names)] => gs[f] = fs[f]
    PROVE  /\ Listed(names, gs) /\ ListSegments(gs) = names
           /\ WalContents(gs) = BeforeLast(fs, names) \o gs[names[Len(names)]]
  <1>1. PICK n \in Nat : n = Len(names)
    BY DEF Listed
  <1>2. /\ names \in Seq(Segment)
        /\ DOMAIN fs = {names[k] : k \in 1 .. n}
        /\ \A i, j \in 1 .. n : i < j => names[i].first < names[j].first
    BY <1>1 DEF Listed
  <1>3. Listed(names, gs)
    BY DEF Listed
  <1>4. ListSegments(gs) = names
    BY <1>3, ListedIs
  <1>5. WalContents(gs) = BeforeLast(gs, names) \o gs[names[Len(names)]]
    BY <1>3, ContentsSplit
  <1>6. BeforeLast(gs, names) = BeforeLast(fs, names)
    <2>1. ASSUME NEW k \in 1 .. n - 1 PROVE gs[names[k]] = fs[names[k]]
      <3>1. \A i \in 1 .. n : names[i] \in Segment
        BY <1>1, <1>2
      <3>2. names[k].first < names[n].first /\ names[k].first \in Nat
        <4>1. k \in 1 .. n /\ n \in 1 .. n /\ k < n
          BY <1>1
        <4>2. \A i \in 1 .. n : names[i].first \in Nat
          BY <3>1 DEF Segment
        <4>3. QED
          BY <1>2, <4>1, <4>2
      <3>3. names[k] # names[n] /\ names[k] \in DOMAIN fs
        BY <1>2, <3>2
      <3>4. QED
        BY <1>1, <3>3
    <2>2. QED
      BY <1>1, <2>1, FrontSame
  <1>7. QED
    BY <1>3, <1>4, <1>5, <1>6

\* The last segment under another name with the same first index.
LEMMA Rolled ==
    ASSUME NEW names, NEW fs, Listed(names, fs), names # <<>>, \A f \in DOMAIN fs : fs[f] \in Seq(Entry),
           log_fd = names[Len(names)], NEW new \in Segment, new.first = log_fd.first, new # log_fd
    PROVE  /\ new \notin DOMAIN fs /\ Listed([names EXCEPT ![Len(names)] = new], Renamed(fs, new))
           /\ ListSegments(Renamed(fs, new)) = [names EXCEPT ![Len(names)] = new]
           /\ WalContents(Renamed(fs, new)) = WalContents(fs)
  <1> PICK gs, more : gs = Renamed(fs, new) /\ more = [names EXCEPT ![Len(names)] = new]
    OBVIOUS
  <1>1. PICK n \in Nat : n = Len(names) /\ n >= 1
    BY DEF Listed
  <1>2. /\ names \in Seq(Segment)
        /\ DOMAIN fs = {names[k] : k \in 1 .. n}
        /\ \A i, j \in 1 .. n : i < j => names[i].first < names[j].first
        /\ \A k \in 1 .. n : names[k] \in Segment
    BY <1>1 DEF Listed
  <1>3. \A k \in 1 .. n : names[k].first \in Nat
    BY <1>2 DEF Segment
  <1>4. \A k \in 1 .. n - 1 : names[k].first < new.first /\ names[k] # new /\ names[k] # log_fd
    BY <1>1, <1>2, <1>3
  <1>5. new \notin DOMAIN fs
    <2>1. ASSUME NEW k \in 1 .. n PROVE names[k] # new
      BY <1>1, <1>4
    <2>2. QED
      BY <1>2, <2>1
  <1>6. log_fd \in DOMAIN fs
    BY <1>1, <1>2
  <1>7. DOMAIN gs = (DOMAIN fs \ {log_fd}) \cup {new} /\ gs[new] = fs[log_fd]
        /\ \A f \in DOMAIN fs : f # log_fd => gs[f] = fs[f]
    BY <1>5, <1>6 DEF Renamed
  <1>8. /\ more \in Seq(Segment) /\ Len(more) = n /\ more[n] = new
        /\ \A k \in 1 .. n - 1 : more[k] = names[k]
    BY <1>1, <1>2
  <1>9. Listed(more, gs)
    <2>1. DOMAIN gs = {more[k] : k \in 1 .. Len(more)}
      <3>1. ASSUME NEW f \in DOMAIN gs PROVE \E k \in 1 .. n : f = more[k]
        <4>1. CASE f = new
          BY <1>1, <1>8, <4>1
        <4>2. CASE f # new
          <5>1. PICK k \in 1 .. n : f = names[k]
            BY <1>2, <1>7, <4>2
          <5>2. k # n
            BY <1>1, <1>7, <4>2, <5>1
          <5>3. QED
            BY <1>8, <5>1, <5>2
        <4>3. QED
          BY <4>1, <4>2
      <3>2. ASSUME NEW k \in 1 .. n PROVE more[k] \in DOMAIN gs
        BY <1>2, <1>4, <1>7, <1>8
      <3>3. DOMAIN gs = {more[k] : k \in 1 .. n}
        BY <3>1, <3>2
      <3>4. QED
        BY <1>8, <3>3
    <2>2. ASSUME NEW i \in 1 .. n, NEW j \in 1 .. n, i < j PROVE more[i].first < more[j].first
      BY <1>2, <1>4, <1>8, <2>2
    <2>3. QED
      BY <1>8, <2>1, <2>2 DEF Listed
  <1>10. ListSegments(gs) = more
    BY <1>9, ListedIs
  <1>11. \A f \in DOMAIN gs : gs[f] \in Seq(Entry)
    BY <1>6, <1>7
  <1>12. WalContents(gs) = BeforeLast(gs, more) \o fs[log_fd]
    <2>1. more # <<>>
      BY <1>1, <1>8
    <2>2. WalContents(gs) = BeforeLast(gs, more) \o gs[more[Len(more)]]
      BY <1>9, <1>11, <2>1, ContentsSplit
    <2>3. QED
      BY <1>7, <1>8, <2>2
  <1>13. WalContents(fs) = BeforeLast(fs, names) \o fs[log_fd]
    BY ContentsSplit
  <1>14. BeforeLast(gs, more) = BeforeLast(fs, names)
    <2>1. [k \in 1 .. n - 1 |-> gs[more[k]]] = [k \in 1 .. n - 1 |-> fs[names[k]]]
      <3>1. \A k \in 1 .. n - 1 : names[k] \in DOMAIN fs
        BY <1>2
      <3>2. QED
        BY <1>4, <1>7, <1>8, <3>1
    <2>2. QED
      BY <1>1, <1>8, <2>1, Zenon DEF BeforeLast
  <1>15. QED
    BY <1>5, <1>7, <1>9, <1>10, <1>12, <1>13, <1>14

----------------------------------------------------------------------------
\* The entries of requests.

\* The entries of requests bear the numbers of the requests.
LEMMA LogsFacts ==
    ASSUME NEW n \in Nat, NEW reqs \in Seq(Request(n))
    PROVE  /\ Logs(reqs) \in Seq(Entry)
           /\ \A p \in 1 .. Len(Logs(reqs)) :
                  \E i \in 1 .. Len(reqs) : \E x \in 1 .. Len(reqs[i].logs) : Logs(reqs)[p] = reqs[i].logs[x]
           /\ \A i \in 1 .. Len(reqs) : \A x \in 1 .. Len(reqs[i].logs) :
                  \E p \in 1 .. Len(Logs(reqs)) : Logs(reqs)[p] = reqs[i].logs[x]
           /\ \A p \in 1 .. Len(Logs(reqs)) : Logs(reqs)[p] \in Entry /\ Logs(reqs)[p].id \in 1 .. n
           /\ Len(reqs) >= 1 => Len(Logs(reqs)) >= 1
  <1>1. PICK V : V = Lists(Entry)
    OBVIOUS
  <1>2. V \subseteq Seq(Entry) /\ Seq(Entry) \subseteq V
    BY <1>1 DEF Lists
  <1>3. PICK m \in Nat : m = Len(reqs) /\ DOMAIN reqs = 1 .. m
    OBVIOUS
  <1>4. \A i \in 1 .. m : reqs[i] \in Request(n)
    BY <1>3
  <1>5. \A i \in 1 .. m : /\ reqs[i].logs \in Seq(Entry) /\ Len(reqs[i].logs) >= 1
                          /\ \A x \in 1 .. Len(reqs[i].logs) : /\ reqs[i].logs[x] \in Entry
                                                               /\ reqs[i].logs[x].id = reqs[i].logs[1].id
                          /\ reqs[i].logs[1].id \in 1 .. n
    BY <1>4, RequestFacts
  <1>6. PICK ps : ps = [i \in 1 .. m |-> reqs[i].logs]
    OBVIOUS
  <1>7. \A i \in 1 .. m : ps[i] = reqs[i].logs /\ ps[i] \in V
    BY <1>2, <1>5, <1>6
  <1>8. ps \in Seq(V) /\ Len(ps) = m
    BY <1>6, <1>7
  <1>9. FlattenSeq(ps) = Logs(reqs)
    BY <1>3, <1>6 DEF Logs
  <1>10. FlattenSeq(ps) \in Seq(Entry)
    BY <1>1, <1>8, FlattenConcat, Zenon
  <1>11. /\ \A p \in 1 .. Len(FlattenSeq(ps)) :
                \E i \in 1 .. Len(ps) : \E x \in 1 .. Len(ps[i]) : FlattenSeq(ps)[p] = ps[i][x]
         /\ \A i \in 1 .. Len(ps) : \A x \in 1 .. Len(ps[i]) :
                \E p \in 1 .. Len(FlattenSeq(ps)) : FlattenSeq(ps)[p] = ps[i][x]
    <2>1. ps \in Seq(V)
      BY <1>8
    <2>2. \A p \in 1 .. Len(FlattenSeq(ps)) :
              \E i \in 1 .. Len(ps) : \E x \in 1 .. Len(ps[i]) : FlattenSeq(ps)[p] = ps[i][x]
      BY <1>1, <2>1, FlattenMembers, Zenon
    <2>3. \A i \in 1 .. Len(ps) : \A x \in 1 .. Len(ps[i]) :
              \E p \in 1 .. Len(FlattenSeq(ps)) : FlattenSeq(ps)[p] = ps[i][x]
      BY <1>1, <2>1, FlattenMembers, Zenon
    <2>4. QED
      BY <2>2, <2>3
  <1>12. PICK L \in Seq(Entry) : L = Logs(reqs)
    BY <1>9, <1>10
  <1>13. /\ \A p \in 1 .. Len(L) : \E i \in 1 .. m : \E x \in 1 .. Len(ps[i]) : L[p] = ps[i][x]
         /\ \A i \in 1 .. m : \A x \in 1 .. Len(ps[i]) : \E p \in 1 .. Len(L) : L[p] = ps[i][x]
    BY <1>8, <1>9, <1>11, <1>12
  <1>14. /\ \A p \in 1 .. Len(L) : \E i \in 1 .. m : \E x \in 1 .. Len(reqs[i].logs) : L[p] = reqs[i].logs[x]
         /\ \A i \in 1 .. m : \A x \in 1 .. Len(reqs[i].logs) : \E p \in 1 .. Len(L) : L[p] = reqs[i].logs[x]
    <2>1. \A i \in 1 .. m : ps[i] = reqs[i].logs
      BY <1>7
    <2>2. \A p \in 1 .. Len(L) : \E i \in 1 .. m : \E x \in 1 .. Len(reqs[i].logs) : L[p] = reqs[i].logs[x]
      <3>1. ASSUME NEW p \in 1 .. Len(L)
            PROVE  \E i \in 1 .. m : \E x \in 1 .. Len(reqs[i].logs) : L[p] = reqs[i].logs[x]
        <4>1. PICK i \in 1 .. m : \E x \in 1 .. Len(ps[i]) : L[p] = ps[i][x]
          BY <1>13, Zenon
        <4>2. \E x \in 1 .. Len(reqs[i].logs) : L[p] = reqs[i].logs[x]
          BY <2>1, <4>1, Zenon
        <4>3. QED
          BY <4>2, Zenon
      <3>2. QED
        BY <3>1
    <2>3. ASSUME NEW i \in 1 .. m, NEW x \in 1 .. Len(reqs[i].logs) PROVE \E p \in 1 .. Len(L) : L[p] = reqs[i].logs[x]
      <3>1. x \in 1 .. Len(ps[i]) /\ ps[i] = reqs[i].logs
        BY <2>1
      <3>2. QED
        BY <1>13, <3>1, Zenon
    <2>4. QED
      BY <2>2, <2>3
  <1>15. \A p \in 1 .. Len(L) : L[p] \in Entry /\ L[p].id \in 1 .. n
    <2>1. ASSUME NEW p \in 1 .. Len(L) PROVE L[p].id \in 1 .. n
      <3>1. PICK i \in 1 .. m : \E x \in 1 .. Len(reqs[i].logs) : L[p] = reqs[i].logs[x]
        BY <1>14
      <3>2. PICK x \in 1 .. Len(reqs[i].logs) : L[p] = reqs[i].logs[x]
        BY <3>1
      <3>3. reqs[i].logs[x].id = reqs[i].logs[1].id /\ reqs[i].logs[1].id \in 1 .. n
        BY <1>5
      <3>4. QED
        BY <3>2, <3>3
    <2>2. QED
      BY <1>12, <2>1
  <1>16. ASSUME m >= 1 PROVE Len(L) >= 1
    <2>1. 1 \in 1 .. m /\ 1 \in 1 .. Len(reqs[1].logs)
      BY <1>5, <1>16
    <2>2. \E p \in 1 .. Len(L) : L[p] = reqs[1].logs[1]
      BY <1>14, <2>1
    <2>3. QED
      BY <2>2
  <1>17. QED
    BY <1>3, <1>12, <1>14, <1>15, <1>16

\* The entries of two lists of requests.
LEMMA LogsConcat ==
    ASSUME NEW n \in Nat, NEW a \in Seq(Request(n)), NEW b \in Seq(Request(n))
    PROVE  Logs(a \o b) = Logs(a) \o Logs(b)
  <1>1. PICK V : V = Lists(Entry)
    OBVIOUS
  <1>2. V \subseteq Seq(Entry) /\ Seq(Entry) \subseteq V
    BY <1>1 DEF Lists
  <1>3. PICK S : S = Request(n) /\ \A r \in S : r.logs \in V
    BY <1>2, RequestFacts
  <1>4. a \in Seq(S) /\ b \in Seq(S)
    BY <1>3
  <1>5. ASSUME NEW q \in Seq(S)
        PROVE  /\ [k \in DOMAIN q |-> q[k].logs] \in Seq(V) /\ Len([k \in DOMAIN q |-> q[k].logs]) = Len(q)
               /\ DOMAIN q = 1 .. Len(q)
    <2>1. \A k \in 1 .. Len(q) : q[k].logs \in V
      BY <1>3
    <2>2. QED
      BY <2>1
  <1>6. PICK p \in Seq(V), q \in Seq(V) : p = [k \in DOMAIN a |-> a[k].logs] /\ q = [k \in DOMAIN b |-> b[k].logs]
    BY <1>4, <1>5
  <1>7. PICK c \in Seq(S) : /\ c = a \o b /\ Len(c) = Len(a) + Len(b)
                            /\ \A k \in 1 .. Len(a) : c[k] = a[k]
                            /\ \A k \in Len(a) + 1 .. Len(a) + Len(b) : c[k] = b[k - Len(a)]
    <2>1. /\ a \o b \in Seq(S) /\ Len(a \o b) = Len(a) + Len(b)
          /\ \A k \in 1 .. Len(a) : (a \o b)[k] = a[k]
          /\ \A k \in Len(a) + 1 .. Len(a) + Len(b) : (a \o b)[k] = b[k - Len(a)]
      BY <1>4, ConcatFacts
    <2>2. QED
      BY <2>1
  <1>8. PICK r \in Seq(V) : r = [k \in DOMAIN c |-> c[k].logs]
    BY <1>5
  <1>9. r = p \o q
    <2>1. PICK x \in Nat, y \in Nat : x = Len(a) /\ y = Len(b)
      BY <1>4
    <2>2. Len(p) = x /\ Len(q) = y /\ Len(r) = x + y /\ DOMAIN a = 1 .. x /\ DOMAIN b = 1 .. y
          /\ DOMAIN c = 1 .. x + y
      BY <1>4, <1>5, <1>6, <1>7, <1>8, <2>1
    <2>7. /\ p \o q \in Seq(V) /\ Len(p \o q) = Len(p) + Len(q)
          /\ \A k \in 1 .. Len(p) : (p \o q)[k] = p[k]
          /\ \A k \in Len(p) + 1 .. Len(p) + Len(q) : (p \o q)[k] = q[k - Len(p)]
      BY ConcatFacts
    <2>3. /\ p \o q \in Seq(V) /\ Len(p \o q) = x + y
          /\ \A k \in 1 .. x : (p \o q)[k] = p[k]
          /\ \A k \in x + 1 .. x + y : (p \o q)[k] = q[k - x]
      BY <2>2, <2>7
    <2>4. ASSUME NEW k \in 1 .. x + y PROVE r[k] = (p \o q)[k]
      <3>1. r[k] = c[k].logs
        BY <1>8, <2>2
      <3>2. CASE k <= x
        <4>1. k \in 1 .. x
          BY <3>2
        <4>2. c[k] = a[k] /\ (p \o q)[k] = p[k] /\ p[k] = a[k].logs
          BY <1>6, <1>7, <2>1, <2>2, <2>3, <4>1
        <4>3. QED
          BY <3>1, <4>2
      <3>3. CASE k > x
        <4>1. PICK i \in 1 .. y : i = k - x
          BY <3>3
        <4>2. k \in x + 1 .. x + y
          BY <3>3
        <4>3. c[k] = b[i] /\ (p \o q)[k] = q[i] /\ q[i] = b[i].logs
          BY <1>6, <1>7, <2>1, <2>2, <2>3, <4>1, <4>2
        <4>4. QED
          BY <3>1, <4>3
      <3>4. k <= x \/ k > x
        OBVIOUS
      <3>5. QED
        BY <3>2, <3>3, <3>4, Zenon
    <2>5. Len(r) = Len(p \o q)
      BY <2>2, <2>3
    <2>6. QED
      BY <2>2, <2>3, <2>4, <2>5, SameSeq
  <1>10. FlattenSeq(p \o q) = FlattenSeq(p) \o FlattenSeq(q)
    <2>1. /\ FlattenSeq(p) \in Seq(Entry) /\ FlattenSeq(q) \in Seq(Entry)
          /\ FlattenSeq(p \o q) = FlattenSeq(p) \o FlattenSeq(q)
      BY <1>1, FlattenConcat, Zenon
    <2>2. QED
      BY <2>1
  <1>11. Logs(a) = FlattenSeq(p) /\ Logs(b) = FlattenSeq(q) /\ Logs(a \o b) = FlattenSeq(r)
    BY <1>6, <1>7, <1>8, Zenon DEF Logs
  <1>12. QED
    BY <1>9, <1>10, <1>11, Zenon

----------------------------------------------------------------------------
\* Replay, for the entries of the WAL.

\* What is replayed of written entries.
LEMMA ReplayEntries ==
    ASSUME NEW w \in Seq(Entry), NEW s \in Nat, NEW n \in Nat, \A k \in 1 .. Len(w) : w[k].id \in 1 .. n
    PROVE  /\ ReadPersistedLogs(w, s) \in Seq(Entry)
           /\ \A k \in 1 .. Len(ReadPersistedLogs(w, s)) :
                  /\ ReadPersistedLogs(w, s)[k].index = s + k
                  /\ ReadPersistedLogs(w, s)[k].id \in 1 .. n
                  /\ \E p \in 1 .. Len(w) : ReadPersistedLogs(w, s)[k] = w[p]
  <1>1. s \in Int /\ \A e \in Entry : e.index \in Int
    BY DEF Entry
  <1>2. PICK R : R = ReadPersistedLogs(w, s)
    OBVIOUS
  <1>3. R \in Seq({w[k] : k \in 1 .. Len(w)}) /\ \A k \in 1 .. Len(R) : R[k].index = s + k
    BY <1>1, <1>2, ReplayFacts
  <1>4. {w[k] : k \in 1 .. Len(w)} \subseteq Entry
    OBVIOUS
  <1>5. R \in Seq(Entry)
    BY <1>3, <1>4, SeqWiden
  <1>6. ASSUME NEW k \in 1 .. Len(R) PROVE R[k].id \in 1 .. n /\ \E p \in 1 .. Len(w) : R[k] = w[p]
    <2>1. \E p \in 1 .. Len(w) : R[k] = w[p]
      BY <1>3
    <2>2. QED
      BY <2>1
  <1>7. QED
    BY <1>2, <1>3, <1>5, <1>6

----------------------------------------------------------------------------
\* The segment files and a step.

\* What FilesInv and ContentsInv say while there are files.
LEMMA DiskFacts ==
    ASSUME TypeInv, FilesInv, ContentsInv, raftPc # "rewrite",
           NEW names, names = ListSegments(files)
    PROVE  /\ names # <<>> /\ Listed(names, files) /\ Len(names) \in Nat /\ Len(names) >= 1
           /\ \A f \in DOMAIN files : files[f] \in Seq(Entry)
           /\ BeforeLast(files, names) \in Seq(Entry)
           /\ names[Len(names)] \in DOMAIN files /\ files[names[Len(names)]] \in Seq(Entry)
           /\ written = BeforeLast(files, names) \o files[names[Len(names)]]
           /\ log_fd # NoFile => log_fd = names[Len(names)]
  <1>1. names # <<>> /\ Listed(names, files) /\ files \in [DOMAIN files -> Seq(Entry)]
    BY DEF FilesInv
  <1>2. \A f \in DOMAIN files : files[f] \in Seq(Entry)
    BY <1>1
  <1>3. WalContents(files) = written
    BY DEF ContentsInv
  <1>4. /\ Len(names) \in Nat /\ Len(names) >= 1
        /\ BeforeLast(files, names) \in Seq(Entry) /\ names[Len(names)] \in DOMAIN files
        /\ files[names[Len(names)]] \in Seq(Entry)
        /\ WalContents(files) = BeforeLast(files, names) \o files[names[Len(names)]]
    BY <1>1, <1>2, ContentsSplit
  <1>5. log_fd # NoFile => log_fd = names[Len(names)]
    BY DEF FilesInv
  <1>6. QED
    BY <1>1, <1>2, <1>3, <1>4, <1>5

\* A step that leaves the files alone.
LEMMA SameDisk ==
    ASSUME FilesInv, ContentsInv, OpenInv, UNCHANGED <<fileVars, segmentVars, written>>,
           raftPc' = "rewrite" <=> raftPc = "rewrite", walPc' = "open" <=> walPc = "open",
           raftPc = "rewrite" => UNCHANGED <<compacted, snapshot_index>>,
           walPc' \in {"full", "rename"} => files[log_fd] # <<>>,
           walPc' = "rename" => synced[log_fd] = Len(files[log_fd])
    PROVE  FilesInv' /\ ContentsInv' /\ OpenInv'
  <1>1. /\ files' = files /\ synced' = synced /\ log_fd' = log_fd /\ offset' = offset
        /\ m_segmentLastIndex' = m_segmentLastIndex /\ m_segmentEntryCount' = m_segmentEntryCount
        /\ written' = written
    BY DEF fileVars, segmentVars
  <1>2. FilesInv'
    BY <1>1 DEF FilesInv
  <1>3. ContentsInv'
    BY <1>1 DEF ContentsInv
  <1>4. OpenInv'
    BY <1>1 DEF OpenInv, CountersFitSegment
  <1>5. QED
    BY <1>2, <1>3, <1>4

\* A step that changes the open segment.
LEMMA LastReplaced ==
    ASSUME TypeInv, FilesInv, ContentsInv, raftPc # "rewrite", log_fd # NoFile,
           files' \in [DOMAIN files -> Seq(Entry)], synced' \in [DOMAIN files -> Nat],
           \A f \in DOMAIN files : f # log_fd => files'[f] = files[f] /\ synced'[f] = synced[f],
           log_fd' = log_fd, walPc' # "open", raftPc' # "rewrite"
    PROVE  FilesInv' /\ WalContents(files') = BeforeLast(files, ListSegments(files)) \o files'[log_fd]
  <1>1. PICK names : names = ListSegments(files)
    OBVIOUS
  <1>2. /\ names # <<>> /\ Listed(names, files) /\ Len(names) \in Nat /\ Len(names) >= 1
        /\ log_fd = names[Len(names)]
    BY <1>1, DiskFacts
  <1>3. DOMAIN files' = DOMAIN files /\ \A f \in DOMAIN files' : files'[f] \in Seq(Entry)
    OBVIOUS
  <1>4. /\ Listed(names, files') /\ ListSegments(files') = names
        /\ WalContents(files') = BeforeLast(files, names) \o files'[names[Len(names)]]
    <2>1. \A f \in DOMAIN files : f # names[Len(names)] => files'[f] = files[f]
      BY <1>2
    <2>2. QED
      BY <1>2, <1>3, <2>1, Replaced, Zenon
  <1>5. \A k \in 1 .. Len(names) : names[k] # log_fd =>
            /\ ~names[k].inprogress /\ names[k].first <= names[k].last
            /\ synced[names[k]] = Len(files[names[k]])
            /\ names[k] \in DOMAIN files
    BY <1>1, <1>2 DEF FilesInv, Listed
  <1>6. \A k \in 1 .. Len(names) : names[k] # log_fd => synced'[names[k]] = Len(files'[names[k]])
    BY <1>5
  <1>7. log_fd.inprogress
    BY DEF FilesInv
  <1>8. FilesInv'
    BY <1>2, <1>3, <1>4, <1>5, <1>6, <1>7 DEF FilesInv
  <1>9. QED
    BY <1>1, <1>2, <1>4, <1>8

\* A new segment is opened behind the last, which is closed.
LEMMA OpenedBehind ==
    ASSUME TypeInv, FilesInv, ContentsInv, raftPc # "rewrite", log_fd = NoFile,
           NEW names, names = ListSegments(files),
           OpenSegment(files, synced, names[Len(names)].last + 1),
           walPc' \notin {"open", "full", "rename"}, raftPc' # "rewrite"
    PROVE  FilesInv' /\ WalContents(files') = written /\ OpenInv'
  <1>1. PICK n \in Nat : n = Len(names) /\ n >= 1
    BY DiskFacts
  <1>2. /\ names # <<>> /\ Listed(names, files)
        /\ \A f \in DOMAIN files : files[f] \in Seq(Entry)
    BY DiskFacts
  <1>3. /\ names \in Seq(Segment) /\ DOMAIN files = {names[k] : k \in 1 .. n}
        /\ \A i, j \in 1 .. n : i < j => names[i].first < names[j].first
        /\ \A k \in 1 .. n : names[k] \in Segment
    BY <1>1, <1>2 DEF Listed
  <1>4. \A k \in 1 .. n : /\ names[k].first \in Nat /\ names[k].first >= 1
                          /\ names[k].last \in Int /\ names[k] # NoFile
    BY <1>3 DEF Segment, NoFile
  <1>5. \A k \in 1 .. n : /\ ~names[k].inprogress /\ names[k].first <= names[k].last
                          /\ synced[names[k]] = Len(files[names[k]])
    BY <1>1, <1>4 DEF FilesInv
  <1>6. PICK first \in Nat : first = names[n].last + 1 /\ first > names[n].first /\ first >= 1
    <2>1. n \in 1 .. n
      BY <1>1
    <2>2. names[n].last + 1 \in Nat /\ names[n].last + 1 > names[n].first /\ names[n].last + 1 >= 1
      BY <1>4, <1>5, <2>1
    <2>3. QED
      BY <2>2
  <1>7. PICK new : new = openSegmentName(first)
    OBVIOUS
  <1>8. new \in Segment /\ new.first = first /\ new.inprogress /\ new # NoFile
    BY <1>6, <1>7 DEF Segment, openSegmentName, NoFile
  <1>9. /\ files' = Touch(files, new, <<>>) /\ synced' = Touch(synced, new, 0)
        /\ log_fd' = new /\ offset' = 0 /\ m_segmentEntryCount' = 0
    BY <1>1, <1>6, <1>7, Zenon DEF OpenSegment
  <1>10. \A k \in 1 .. n : names[k].first < new.first
    <2>1. ASSUME NEW k \in 1 .. n PROVE names[k].first <= names[n].first
      <3>1. n \in 1 .. n /\ (k = n \/ k < n)
        BY <1>1
      <3>2. CASE k = n
        BY <1>4, <3>2
      <3>3. CASE k < n
        BY <1>3, <1>4, <3>1, <3>3
      <3>4. QED
        BY <3>1, <3>2, <3>3
    <2>2. n \in 1 .. n
      BY <1>1
    <2>3. QED
      BY <1>4, <1>6, <1>8, <2>1, <2>2
  <1>11. /\ new \notin DOMAIN files /\ DOMAIN files' = DOMAIN files \cup {new}
         /\ files'[new] = <<>> /\ \A f \in DOMAIN files : files'[f] = files[f]
         /\ Listed(Append(names, new), files') /\ ListSegments(files') = Append(names, new)
         /\ WalContents(files') = WalContents(files)
    <2>1. \A k \in 1 .. Len(names) : names[k].first < new.first
      BY <1>1, <1>10
    <2>2. QED
      <3>1. Listed(names, files) /\ names # <<>> /\ (\A f \in DOMAIN files : files[f] \in Seq(Entry))
        BY <1>2
      <3>2. new \in Segment /\ files' = Touch(files, new, <<>>)
        BY <1>8, <1>9
      <3>3. /\ new \notin DOMAIN files /\ Listed(Append(names, new), files')
            /\ ListSegments(files') = Append(names, new)
            /\ WalContents(files') = WalContents(files)
        BY <2>1, <3>1, <3>2, Opened
      <3>4. /\ DOMAIN files' = DOMAIN files \cup {new} /\ files'[new] = <<>>
            /\ \A f \in DOMAIN files : files'[f] = files[f]
        BY <3>2, <3>3 DEF Touch
      <3>5. QED
        BY <3>3, <3>4, Zenon
  <1>12. PICK more \in Seq(Segment) :
            /\ more = Append(names, new) /\ Len(more) = n + 1 /\ more[n + 1] = new
            /\ \A k \in 1 .. n : more[k] = names[k]
    <2>1. /\ Append(names, new) \in Seq(Segment) /\ Len(Append(names, new)) = n + 1
          /\ Append(names, new)[n + 1] = new
          /\ \A k \in 1 .. n : Append(names, new)[k] = names[k]
      BY <1>1, <1>3, <1>8
    <2>2. QED
      BY <2>1, Zenon
  <1>13. synced \in [DOMAIN files -> Nat] /\ files \in [DOMAIN files -> Seq(Entry)]
    BY DEF FilesInv
  <1>14. /\ synced' \in [DOMAIN files' -> Nat] /\ synced'[new] = 0
         /\ \A f \in DOMAIN files : synced'[f] = synced[f]
    BY <1>9, <1>11, <1>13 DEF Touch
  <1>15. files' \in [DOMAIN files' -> Seq(Entry)]
    <2>1. PICK V : V = Seq(Entry)
      OBVIOUS
    <2>2. <<>> \in V /\ files \in [DOMAIN files -> V]
      BY <1>13, <2>1
    <2>3. files' \in [DOMAIN files' -> V]
      BY <1>9, <1>11, <2>2 DEF Touch
    <2>4. QED
      BY <2>1, <2>3
  <1>16. ASSUME NEW k \in 1 .. n + 1, more[k] # new
         PROVE  /\ ~more[k].inprogress /\ more[k].first <= more[k].last
                /\ synced'[more[k]] = Len(files'[more[k]])
    <2>1. k \in 1 .. n
      BY <1>12, <1>16
    <2>2. more[k] = names[k] /\ names[k] \in DOMAIN files
      BY <1>3, <1>12, <2>1
    <2>3. QED
      BY <1>5, <1>11, <1>14, <2>1, <2>2
  <1>17. FilesInv'
    <2>1. ListSegments(files') = more /\ Len(more) = n + 1 /\ more # <<>> /\ Listed(more, files')
      BY <1>11, <1>12
    <2>2. \A k \in 1 .. Len(more) : more[k] # new =>
              /\ ~more[k].inprogress /\ more[k].first <= more[k].last
              /\ synced'[more[k]] = Len(files'[more[k]])
      BY <1>12, <1>16
    <2>3. new = more[Len(more)] /\ Len(more) >= 1
      BY <1>12
    <2>4. QED
      BY <1>8, <1>9, <1>14, <1>15, <2>1, <2>2, <2>3 DEF FilesInv
  <1>18. WalContents(files') = written
    BY <1>11 DEF ContentsInv
  <1>19. OpenInv'
    BY <1>8, <1>9, <1>11, <1>14 DEF OpenInv, CountersFitSegment
  <1>20. QED
    BY <1>17, <1>18, <1>19

----------------------------------------------------------------------------
\* The segment files are the log.

\* A new node has one empty segment.
LEMMA InitWal ==
    ASSUME Init PROVE WalInv
  <1>1. TypeInv /\ MutexesHeld
    BY DEF Init, TypeInv, MutexesHeld, openSegmentName, Segment, NoFile, Free
  <1>2. PICK name : name = openSegmentName(1)
    OBVIOUS
  <1>3. name \in Segment /\ name # NoFile /\ name.inprogress
    BY <1>2 DEF openSegmentName, Segment, NoFile
  <1>4. files = [n \in {name} |-> <<>>] /\ synced = [n \in {name} |-> 0] /\ log_fd = name /\ written = <<>>
        /\ offset = 0 /\ m_segmentEntryCount = 0 /\ walPc = "pop" /\ raftPc = "idle"
    BY <1>2 DEF Init
  <1>5. Listed(<<name>>, files) /\ ListSegments(files) = <<name>> /\ WalContents(files) = <<>>
    <2>1. <<>> \in Seq(Entry)
      OBVIOUS
    <2>2. QED
      BY <1>3, <1>4, <2>1, Single
  <1>6. FilesInv
    <2>1. PICK names : names = <<name>>
      OBVIOUS
    <2>2. Len(names) = 1 /\ names[1] = name /\ names # <<>>
      BY <2>1
    <2>3. files \in [DOMAIN files -> Seq(Entry)] /\ synced \in [DOMAIN files -> Nat]
      BY <1>4
    <2>4. ListSegments(files) = names /\ Listed(names, files)
      BY <1>5, <2>1
    <2>5. \A k \in 1 .. 1 : names[k] = name
      BY <2>2
    <2>6. QED
      BY <1>3, <1>4, <2>2, <2>3, <2>4, <2>5 DEF FilesInv
  <1>7. ContentsInv
    BY <1>4, <1>5 DEF ContentsInv
  <1>8. OpenInv
    <2>1. files[log_fd] = <<>> /\ synced[log_fd] = 0
      BY <1>4
    <2>2. QED
      BY <1>4, <2>1 DEF OpenInv, CountersFitSegment
  <1>9. QED
    BY <1>1, <1>6, <1>7, <1>8 DEF WalInv

\* A request is still one after more have been made.
LEMMA RequestsWiden ==
    ASSUME NEW n \in Nat, NEW q \in Seq(Request(n))
    PROVE  q \in Seq(Request(n + 1))
  <1>1. Request(n) \subseteq Request(n + 1)
    BY RequestFacts
  <1>2. QED
    BY <1>1, SeqWiden

\* The entries of a new request continue the log.
LEMMA NewEntries ==
    ASSUME TypeInv, NEW n \in 1 .. MaxBatch, NEW logs,
           logs = [k \in 1 .. n |-> [index |-> NextIndex + k - 1, id |-> requests + 1]]
    PROVE  /\ NextIndex \in Nat
           /\ logs \in Seq(Entry) /\ Len(logs) = n /\ n \in Nat /\ n >= 1
           /\ \A k \in 1 .. n : logs[k].index = NextIndex + k - 1 /\ logs[k].id = requests + 1
           /\ \A kind \in {"wait", "async"} : [kind |-> kind, logs |-> logs] \in Request(requests + 1)
  <1>1. n \in Nat /\ n >= 1 /\ requests + 1 \in Nat /\ requests \in Nat
    BY DEF TypeInv
  <1>2. NextIndex \in Nat
    <2>1. CASE m_logs = <<>>
      BY <2>1 DEF TypeInv, NextIndex
    <2>2. CASE m_logs # <<>>
      <3>1. Len(m_logs) \in 1 .. Len(m_logs) /\ m_logs \in Seq(Entry)
        BY <2>2 DEF TypeInv
      <3>2. m_logs[Len(m_logs)] \in Entry
        BY <3>1
      <3>3. m_logs[Len(m_logs)].index \in Nat
        BY <3>2 DEF Entry
      <3>4. QED
        BY <2>2, <3>3 DEF NextIndex, Last
    <2>3. QED
      BY <2>1, <2>2
  <1>3. PICK x \in Nat, id \in Nat : x = NextIndex /\ id = requests + 1
    BY <1>1, <1>2
  <1>4. \A k \in 1 .. n : x + k - 1 \in Nat
    BY <1>1
  <1>5. logs = [k \in 1 .. n |-> [index |-> x + k - 1, id |-> id]]
    BY <1>3
  <1>6. \A k \in 1 .. n : logs[k] \in Entry /\ logs[k].index = x + k - 1 /\ logs[k].id = id
    <2>1. ASSUME NEW k \in 1 .. n PROVE logs[k] \in Entry /\ logs[k].index = x + k - 1 /\ logs[k].id = id
      <3>1. logs[k] = [index |-> x + k - 1, id |-> id]
        BY <1>5
      <3>2. x + k - 1 \in Nat
        BY <1>4
      <3>3. QED
        BY <3>1, <3>2 DEF Entry
    <2>2. QED
      BY <2>1
  <1>7. logs \in Seq(Entry) /\ Len(logs) = n
    BY <1>1, <1>5, <1>6
  <1>8. ASSUME NEW kind \in {"wait", "async"} PROVE [kind |-> kind, logs |-> logs] \in Request(requests + 1)
    <2>1. PICK r : r = [kind |-> kind, logs |-> logs]
      OBVIOUS
    <2>2. r \in [kind : {"wait", "async"}, logs : Seq(Entry)] /\ r.logs = logs
      BY <1>7, <2>1
    <2>3. 1 \in 1 .. n /\ id \in 1 .. requests + 1
      BY <1>1, <1>3
    <2>4. logs[1].index = x /\ logs[1].id = id
      BY <1>3, <1>6, <2>3
    <2>5. \A k \in 1 .. n : logs[k].index = logs[1].index + k - 1 /\ logs[k].id = logs[1].id
      BY <1>6, <2>4
    <2>6. QED
      BY <1>1, <1>7, <2>1, <2>2, <2>3, <2>4, <2>5 DEF Request
  <1>9. QED
    BY <1>1, <1>2, <1>3, <1>6, <1>7, <1>8

\* AppendLogAsync and AppendLogAndWaitStable leave the files alone.
LEMMA AppendLogWal ==
    ASSUME WalInv, NEW kind \in {"wait", "async"}, NEW n \in 1 .. MaxBatch, AppendLog(kind, n)
    PROVE  WalInv'
  <1>1. PICK logs : logs = [k \in 1 .. n |-> [index |-> NextIndex + k - 1, id |-> requests + 1]]
    OBVIOUS
  <1>2. TypeInv
    BY DEF WalInv
  <1>3. /\ logs \in Seq(Entry) /\ Len(logs) = n
        /\ \A k \in 1 .. n : logs[k].id = requests + 1
        /\ [kind |-> kind, logs |-> logs] \in Request(requests + 1)
    BY <1>1, <1>2, NewEntries
  <1>4. /\ requests' = requests + 1 /\ m_logs' = m_logs \o logs
        /\ m_queue_log' = Append(m_queue_log, [kind |-> kind, logs |-> logs])
        /\ outcome' = Append(outcome, "none")
        /\ UNCHANGED <<walVars, fileVars, segmentVars, m_mtx, raftVars, failures, crashes, written>>
    BY <1>1, Zenon DEF AppendLog
  <1>5. TypeInv'
    <2>1. /\ requests \in Nat /\ m_logs \in Seq(Entry) /\ written \in Seq(Entry)
          /\ \A k \in 1 .. Len(m_logs) : m_logs[k].id \in 1 .. requests
          /\ \A k \in 1 .. Len(written) : written[k].id \in 1 .. requests
      BY <1>2 DEF TypeInv
    <2>2. /\ m_queue_log \in Seq(Request(requests + 1)) /\ batches \in Seq(Request(requests + 1))
          /\ waiters \in Seq(Request(requests + 1)) /\ callbacks \in Seq(Request(requests + 1))
      BY <1>2, RequestsWiden DEF TypeInv
    <2>3. m_queue_log' \in Seq(Request(requests + 1))
      <3>1. PICK S : S = Request(requests + 1)
        OBVIOUS
      <3>2. m_queue_log \in Seq(S) /\ [kind |-> kind, logs |-> logs] \in S
        BY <1>3, <2>2, <3>1
      <3>3. m_queue_log' \in Seq(S)
        BY <1>4, <3>2
      <3>4. QED
        BY <3>1, <3>3
    <2>4. m_logs' \in Seq(Entry) /\ \A k \in 1 .. Len(m_logs') : m_logs'[k].id \in 1 .. requests + 1
      <3>1. /\ m_logs \o logs \in Seq(Entry) /\ Len(m_logs \o logs) = Len(m_logs) + Len(logs)
            /\ \A k \in 1 .. Len(m_logs) : (m_logs \o logs)[k] = m_logs[k]
            /\ \A k \in Len(m_logs) + 1 .. Len(m_logs) + Len(logs) : (m_logs \o logs)[k] = logs[k - Len(m_logs)]
        BY <1>3, <2>1, ConcatFacts
      <3>2. PICK x \in Nat : x = Len(m_logs)
        BY <2>1
      <3>3. /\ m_logs' \in Seq(Entry) /\ Len(m_logs') = x + n
            /\ \A k \in 1 .. x : m_logs'[k] = m_logs[k]
            /\ \A k \in x + 1 .. x + n : m_logs'[k] = logs[k - x]
        BY <1>3, <1>4, <3>1, <3>2
      <3>4. ASSUME NEW k \in 1 .. x + n PROVE m_logs'[k].id \in 1 .. requests + 1
        <4>1. CASE k <= x
          <5>1. k \in 1 .. x
            BY <4>1
          <5>2. m_logs'[k] = m_logs[k] /\ m_logs[k].id \in 1 .. requests
            BY <2>1, <3>2, <3>3, <5>1
          <5>3. QED
            BY <2>1, <5>2
        <4>2. CASE k > x
          <5>1. k - x \in 1 .. n /\ k \in x + 1 .. x + n
            BY <4>2
          <5>2. m_logs'[k].id = requests + 1
            BY <1>3, <3>3, <5>1
          <5>3. QED
            BY <2>1, <5>2
        <4>3. QED
          BY <4>1, <4>2
      <3>5. QED
        BY <3>3, <3>4
    <2>5. outcome' \in Seq({"none", "stable", "failed"}) /\ Len(outcome') = requests + 1
      <3>1. outcome \in Seq({"none", "stable", "failed"}) /\ Len(outcome) = requests
        BY <1>2 DEF TypeInv
      <3>2. QED
        BY <1>4, <3>1
    <2>6. /\ requests' \in Nat /\ written' = written
          /\ \A k \in 1 .. Len(written) : written[k].id \in 1 .. requests + 1
      BY <1>4, <2>1
    <2>7. QED
      BY <1>2, <1>4, <2>1, <2>2, <2>3, <2>4, <2>5, <2>6 DEF TypeInv, walVars, segmentVars, raftVars
  <1>6. MutexesHeld'
    BY <1>4 DEF WalInv, MutexesHeld, walVars, raftVars
  <1>7. FilesInv' /\ ContentsInv' /\ OpenInv'
    <2>1. walPc' = walPc /\ raftPc' = raftPc /\ compacted' = compacted /\ snapshot_index' = snapshot_index
      BY <1>4 DEF walVars, raftVars
    <2>2. /\ walPc \in {"full", "rename"} => files[log_fd] # <<>>
          /\ walPc = "rename" => synced[log_fd] = Len(files[log_fd])
      BY DEF WalInv, OpenInv
    <2>3. UNCHANGED <<fileVars, segmentVars, written>>
      BY <1>4
    <2>4. FilesInv /\ ContentsInv /\ OpenInv
      BY DEF WalInv
    <2>5. QED
      BY <2>1, <2>2, <2>3, <2>4, SameDisk
  <1>8. QED
    BY <1>5, <1>6, <1>7 DEF WalInv

\* What requests are told, and what is left of raft's log.
LEMMA ToldFacts ==
    ASSUME TypeInv, NEW told, NEW ok \in BOOLEAN, Told(told, ok)
    PROVE  /\ outcome' \in Seq({"none", "stable", "failed"}) /\ Len(outcome') = requests
           /\ \A id \in 1 .. requests :
                  outcome'[id] = IF \E r \in told : id = r.logs[1].id THEN (IF ok THEN "stable" ELSE "failed")
                                 ELSE outcome[id]
           /\ m_logs' \in Seq(Entry) /\ Len(m_logs') \in Nat /\ Len(m_logs') <= Len(m_logs)
           /\ ok => m_logs' = m_logs
           /\ \A k \in 1 .. Len(m_logs') : m_logs'[k] = m_logs[k] /\ m_logs'[k].id \in 1 .. requests
           /\ ~ok => \A k \in 1 .. Len(m_logs'), r \in told : m_logs'[k].index < r.logs[1].index
  <1>1. /\ requests \in Nat /\ m_logs \in Seq(Entry)
        /\ outcome \in Seq({"none", "stable", "failed"}) /\ Len(outcome) = requests
        /\ \A k \in 1 .. Len(m_logs) : m_logs[k].id \in 1 .. requests
    BY DEF TypeInv
  <1>2. DOMAIN outcome = 1 .. requests
    BY <1>1
  <1>3. outcome' = [id \in 1 .. requests |->
                      IF \E r \in told : id = r.logs[1].id THEN (IF ok THEN "stable" ELSE "failed")
                      ELSE outcome[id]]
    BY <1>2 DEF Told
  <1>4. outcome' \in Seq({"none", "stable", "failed"}) /\ Len(outcome') = requests
    BY <1>1, <1>2, <1>3
  <1>5. CASE ok
    <2>1. m_logs' = m_logs
      BY <1>5 DEF Told
    <2>2. QED
      BY <1>1, <1>3, <1>4, <1>5, <2>1
  <1>6. CASE ~ok
    <2>1. m_logs' = WithoutFailed(told)
      BY <1>6 DEF Told
    <2>2. PICK n \in 0 .. Len(m_logs) :
              /\ m_logs' = SubSeq(m_logs, 1, n)
              /\ \A k \in 1 .. n, r \in told : m_logs[k].index < r.logs[1].index
      BY <1>1, <2>1, LeftOfLog
    <2>3. Len(m_logs) \in Nat /\ n \in Nat /\ n <= Len(m_logs)
      BY <1>1, <2>2
    <2>4. m_logs' \in Seq(Entry) /\ Len(m_logs') = n /\ \A k \in 1 .. n : m_logs'[k] = m_logs[k]
      BY <1>1, <2>2, <2>3
    <2>5. \A k \in 1 .. n : m_logs[k].id \in 1 .. requests
      BY <1>1, <2>3
    <2>6. QED
      BY <1>3, <1>4, <1>6, <2>2, <2>3, <2>4, <2>5
  <1>7. QED
    BY <1>5, <1>6

\* A step of the WAL thread that leaves the files, raft's log and the requests alone, and keeps the
\* batches.
LEMMA QuietStep ==
    ASSUME WalInv,
           m_queue_log' \in Seq(Request(requests)), batches' \in Seq(Request(requests)),
           UNCHANGED <<waiters, callbacks, fileVars, segmentVars, raftVars, clientVars, outcome, written>>,
           walPc' \in {"pop", "write", "sync", "notify"}, walPc # "open", sync_ok' \in BOOLEAN, failures' \in Nat
    PROVE  TypeInv' /\ FilesInv' /\ ContentsInv' /\ OpenInv'
  <1>1. TypeInv /\ FilesInv /\ ContentsInv /\ OpenInv
    BY DEF WalInv
  <1>2. TypeInv'
    BY <1>1 DEF TypeInv, segmentVars, raftVars, clientVars
  <1>3. raftPc' = raftPc /\ compacted' = compacted /\ snapshot_index' = snapshot_index
    BY DEF raftVars
  <1>4. UNCHANGED <<fileVars, segmentVars, written>>
    OBVIOUS
  <1>5. FilesInv' /\ ContentsInv' /\ OpenInv'
    BY <1>1, <1>3, <1>4, SameDisk
  <1>6. QED
    BY <1>2, <1>5

\* timeOutPop leaves the files alone.
LEMMA WalPopWal ==
    ASSUME WalInv, WalPop PROVE WalInv'
  <1>1. batches' \in Seq(Request(requests)) /\ m_queue_log' \in Seq(Request(requests))
    <2>1. PICK S : S = Request(requests)
      OBVIOUS
    <2>2. m_queue_log \in Seq(S)
      BY <2>1 DEF WalInv, TypeInv
    <2>3. Take(m_queue_log, 1) \in Seq(S) /\ Drop(m_queue_log, 1) \in Seq(S)
      BY <2>2, TakeAndDrop
    <2>4. QED
      BY <2>1, <2>3 DEF WalPop
  <1>2. /\ walPc = "pop" /\ walPc' = "write" /\ sync_ok' \in BOOLEAN /\ failures' \in Nat
        /\ UNCHANGED <<waiters, callbacks, fileVars, segmentVars, raftVars, clientVars, outcome, written>>
        /\ UNCHANGED m_mtx
    BY DEF WalPop, WalInv, TypeInv
  <1>3. TypeInv' /\ FilesInv' /\ ContentsInv' /\ OpenInv'
    BY <1>1, <1>2, QuietStep
  <1>4. MutexesHeld'
    BY <1>2 DEF WalInv, MutexesHeld, raftVars
  <1>5. QED
    BY <1>3, <1>4 DEF WalInv

\* So does the end of the interval.
LEMMA WalTimeoutWal ==
    ASSUME WalInv, WalTimeout PROVE WalInv'
  <1>1. /\ walPc = "write" /\ walPc' = "sync" /\ m_mtx = Free /\ m_mtx' = "wal"
        /\ sync_ok' \in BOOLEAN /\ failures' \in Nat
        /\ batches' \in Seq(Request(requests)) /\ m_queue_log' \in Seq(Request(requests))
        /\ UNCHANGED <<waiters, callbacks, fileVars, segmentVars, raftVars, clientVars, outcome, written>>
    BY DEF WalTimeout, WalInv, TypeInv
  <1>2. TypeInv' /\ FilesInv' /\ ContentsInv' /\ OpenInv'
    BY <1>1, QuietStep
  <1>3. MutexesHeld'
    BY <1>1 DEF WalInv, MutexesHeld, raftVars, Free
  <1>4. QED
    BY <1>2, <1>3 DEF WalInv

\* So does the end of a round, which gives the mutex back.
LEMMA WalUnlockWal ==
    ASSUME WalInv, WalUnlock PROVE WalInv'
  <1>1. /\ walPc = "notify" /\ walPc' = "pop" /\ m_mtx' = Free
        /\ sync_ok' \in BOOLEAN /\ failures' \in Nat
        /\ batches' \in Seq(Request(requests)) /\ m_queue_log' \in Seq(Request(requests))
        /\ UNCHANGED <<waiters, callbacks, fileVars, segmentVars, raftVars, clientVars, outcome, written>>
    BY DEF WalUnlock, WalInv, TypeInv
  <1>2. TypeInv' /\ FilesInv' /\ ContentsInv' /\ OpenInv'
    BY <1>1, QuietStep
  <1>3. MutexesHeld'
    BY <1>1 DEF WalInv, MutexesHeld, raftVars, Free
  <1>4. QED
    BY <1>2, <1>3 DEF WalInv

\* A step of the WAL thread that tells requests how they went.
LEMMA ToldWal ==
    ASSUME WalInv, walPc = "notify", NEW told, Told(told, sync_ok),
           waiters' \in Seq(Request(requests)), callbacks' \in Seq(Request(requests)),
           UNCHANGED <<m_queue_log, walPc, batches, sync_ok, fileVars, segmentVars, m_mtx, raftVars, requests,
                       failures, written>>
    PROVE  WalInv'
  <1>1. TypeInv /\ FilesInv /\ ContentsInv /\ OpenInv
    BY DEF WalInv
  <1>2. TypeInv'
    <2>1. /\ outcome' \in Seq({"none", "stable", "failed"}) /\ Len(outcome') = requests
          /\ m_logs' \in Seq(Entry) /\ \A k \in 1 .. Len(m_logs') : m_logs'[k].id \in 1 .. requests
      <3>1. sync_ok \in BOOLEAN
        BY <1>1 DEF TypeInv
      <3>2. QED
        BY <1>1, <3>1, ToldFacts
    <2>2. QED
      BY <1>1, <2>1 DEF TypeInv, segmentVars, raftVars
  <1>3. FilesInv' /\ ContentsInv' /\ OpenInv'
    <2>1. raftPc' = raftPc /\ compacted' = compacted /\ snapshot_index' = snapshot_index
      BY DEF raftVars
    <2>2. UNCHANGED <<fileVars, segmentVars, written>>
      OBVIOUS
    <2>3. QED
      BY <1>1, <2>1, <2>2, SameDisk
  <1>4. MutexesHeld'
    BY DEF WalInv, MutexesHeld, raftVars
  <1>5. QED
    BY <1>2, <1>3, <1>4 DEF WalInv

\* AppendLogAndWaitStable returns.
LEMMA NotifyWaitersWal ==
    ASSUME WalInv, NotifyWaiters PROVE WalInv'
  <1>1. waiters' \in Seq(Request(requests)) /\ callbacks' \in Seq(Request(requests))
    <2>1. waiters' = <<>> /\ callbacks' = callbacks
      BY DEF NotifyWaiters
    <2>2. callbacks \in Seq(Request(requests))
      BY DEF WalInv, TypeInv
    <2>3. QED
      BY <2>1, <2>2
  <1>2. /\ walPc = "notify" /\ Told(ToSet(waiters), sync_ok)
        /\ UNCHANGED <<m_queue_log, walPc, batches, sync_ok, fileVars, segmentVars, m_mtx, raftVars, requests,
                       failures, written>>
    BY DEF NotifyWaiters
  <1>3. QED
    BY <1>1, <1>2, ToldWal

\* onLogStable is called.
LEMMA NotifyCallbacksWal ==
    ASSUME WalInv, NotifyCallbacks PROVE WalInv'
  <1>1. waiters' \in Seq(Request(requests)) /\ callbacks' \in Seq(Request(requests))
    <2>1. PICK S : S = Request(requests)
      OBVIOUS
    <2>2. callbacks \in Seq(S) /\ callbacks # <<>> /\ callbacks' = Tail(callbacks)
          /\ waiters \in Seq(S) /\ waiters' = waiters
      BY <2>1 DEF NotifyCallbacks, WalInv, TypeInv
    <2>3. QED
      BY <2>1, <2>2
  <1>2. /\ walPc = "notify" /\ Told({Head(callbacks)}, sync_ok)
        /\ UNCHANGED <<m_queue_log, walPc, batches, sync_ok, fileVars, segmentVars, m_mtx, raftVars, requests,
                       failures, written>>
    BY DEF NotifyCallbacks
  <1>3. QED
    BY <1>1, <1>2, ToldWal

\* The log that is left above a new snapshot.
LEMMA Truncated ==
    ASSUME TypeInv, NEW s \in SnapshotAt, SaveRaftState(s)
    PROVE  /\ s \in Nat /\ s >= snapshot_index /\ m_logs' \in Seq(Entry) /\ Len(m_logs') \in Nat
           /\ \A k \in 1 .. Len(m_logs') : /\ k + (s - snapshot_index) \in 1 .. Len(m_logs)
                                           /\ m_logs'[k] = m_logs[k + (s - snapshot_index)]
           /\ Len(m_logs') = IF s - snapshot_index <= Len(m_logs) THEN Len(m_logs) - (s - snapshot_index) ELSE 0
  <1>1. /\ s \in Nat /\ s >= snapshot_index /\ snapshot_index \in Nat /\ m_logs \in Seq(Entry)
    BY PersisterAssumption DEF SaveRaftState, TypeInv
  <1>2. PICK d \in Nat, m \in Nat : d = s - snapshot_index /\ m = Len(m_logs)
    <2>1. s - snapshot_index \in Nat /\ Len(m_logs) \in Nat
      BY <1>1
    <2>2. QED
      BY <2>1, Zenon
  <1>3. m_logs' = SubSeq(m_logs, d + 1, m)
    BY <1>1, <1>2 DEF SaveRaftState
  <1>4. /\ m_logs' \in Seq(Entry)
        /\ Len(m_logs') = IF d + 1 <= m THEN m - (d + 1) + 1 ELSE 0
        /\ \A k \in 1 .. Len(m_logs') : m_logs'[k] = m_logs[(d + 1) + k - 1]
    <2>1. d + 1 \in Int /\ m \in Int /\ d + 1 >= 1 /\ m <= Len(m_logs)
      BY <1>2
    <2>2. PICK x \in Int : x = d + 1
      BY <2>1
    <2>3. /\ SubSeq(m_logs, x, m) \in Seq(Entry)
          /\ Len(SubSeq(m_logs, x, m)) = IF x <= m THEN m - x + 1 ELSE 0
          /\ \A k \in 1 .. Len(SubSeq(m_logs, x, m)) : SubSeq(m_logs, x, m)[k] = m_logs[x + k - 1]
      BY <1>1, <2>1, <2>2, SubSeqFacts
    <2>4. QED
      BY <1>3, <2>2, <2>3
  <1>5. PICK l \in Nat : l = Len(m_logs') /\ l = IF d <= m THEN m - d ELSE 0
    BY <1>2, <1>4
  <1>6. ASSUME NEW k \in 1 .. l PROVE k + d \in 1 .. m /\ m_logs'[k] = m_logs[k + d]
    <2>1. (d + 1) + k - 1 = k + d /\ k + d \in 1 .. m
      BY <1>5
    <2>2. QED
      BY <1>4, <1>5, <2>1
  <1>7. QED
    BY <1>1, <1>2, <1>4, <1>5, <1>6

\* A new snapshot: raft has the mutex and asks for the compaction.
LEMMA SaveRaftStateWal ==
    ASSUME WalInv, NEW s \in SnapshotAt, SaveRaftState(s) PROVE WalInv'
  <1>1. TypeInv /\ FilesInv /\ ContentsInv /\ OpenInv
    BY DEF WalInv
  <1>2. /\ raft_mtx = Free /\ raft_mtx' = "raft" /\ raftPc' = "compact" /\ snapshot_index' = s
        /\ UNCHANGED <<m_queue_log, walVars, fileVars, segmentVars, m_mtx, requests, failures, outcome, written>>
    BY DEF SaveRaftState
  <1>3. raftPc = "idle"
    BY <1>2 DEF WalInv, MutexesHeld, Free
  <1>4. TypeInv'
    <2>1. /\ s \in Nat /\ m_logs' \in Seq(Entry)
          /\ \A k \in 1 .. Len(m_logs') : /\ k + (s - snapshot_index) \in 1 .. Len(m_logs)
                                          /\ m_logs'[k] = m_logs[k + (s - snapshot_index)]
      BY <1>1, Truncated
    <2>2. \A k \in 1 .. Len(m_logs') : m_logs'[k].id \in 1 .. requests
      BY <1>1, <2>1 DEF TypeInv
    <2>3. QED
      BY <1>1, <1>2, <2>1, <2>2 DEF TypeInv, walVars, segmentVars
  <1>5. MutexesHeld'
    BY <1>2, <1>3 DEF WalInv, MutexesHeld, walVars
  <1>6. FilesInv' /\ ContentsInv' /\ OpenInv'
    <2>1. UNCHANGED <<fileVars, segmentVars, written>> /\ walPc' = walPc
      BY <1>2 DEF walVars
    <2>2. /\ walPc \in {"full", "rename"} => files[log_fd] # <<>>
          /\ walPc = "rename" => synced[log_fd] = Len(files[log_fd])
      BY <1>1 DEF OpenInv
    <2>3. QED
      BY <1>1, <1>2, <1>3, <2>1, <2>2, SameDisk
  <1>7. QED
    BY <1>4, <1>5, <1>6 DEF WalInv

\* The last segment, and what comes before it.
LEMMA OpenSegmentFacts ==
    ASSUME WalInv, log_fd # NoFile
    PROVE  /\ raftPc # "rewrite" /\ walPc # "open"
           /\ log_fd \in DOMAIN files /\ files[log_fd] \in Seq(Entry) /\ log_fd \in Segment
           /\ BeforeLast(files, ListSegments(files)) \in Seq(Entry)
           /\ written = BeforeLast(files, ListSegments(files)) \o files[log_fd]
           /\ written \in Seq(Entry)
           /\ files \in [DOMAIN files -> Seq(Entry)] /\ synced \in [DOMAIN files -> Nat]
           /\ synced[log_fd] \in Nat /\ synced[log_fd] <= Len(files[log_fd])
           /\ offset \in Nat /\ offset <= Len(files[log_fd]) /\ Len(files[log_fd]) \in Nat
           /\ m_segmentEntryCount = Len(files[log_fd])
           /\ files[log_fd] # <<>> => m_segmentLastIndex = Last(files[log_fd]).index
  <1>1. TypeInv /\ FilesInv /\ ContentsInv /\ OpenInv
    BY DEF WalInv
  <1>2. raftPc # "rewrite" /\ walPc # "open"
    BY <1>1 DEF FilesInv
  <1>3. PICK names : names = ListSegments(files)
    OBVIOUS
  <1>4. /\ BeforeLast(files, names) \in Seq(Entry)
        /\ log_fd \in DOMAIN files /\ files[log_fd] \in Seq(Entry)
        /\ written = BeforeLast(files, names) \o files[log_fd]
    BY <1>1, <1>2, <1>3, DiskFacts
  <1>5. /\ files \in [DOMAIN files -> Seq(Entry)] /\ synced \in [DOMAIN files -> Nat]
    BY <1>1 DEF FilesInv
  <1>6. /\ offset \in Nat /\ written \in Seq(Entry) /\ log_fd \in Segment
    BY <1>1 DEF TypeInv
  <1>7. /\ synced[log_fd] <= Len(files[log_fd]) /\ offset <= Len(files[log_fd])
        /\ m_segmentEntryCount = Len(files[log_fd])
        /\ files[log_fd] # <<>> => m_segmentLastIndex = Last(files[log_fd]).index
    BY <1>1 DEF OpenInv, CountersFitSegment
  <1>8. synced[log_fd] \in Nat /\ Len(files[log_fd]) \in Nat
    BY <1>4, <1>5
  <1>9. QED
    BY <1>2, <1>3, <1>4, <1>5, <1>6, <1>7, <1>8, Zenon

\* The last entry of a list that ends with another.
LEMMA LastOf ==
    ASSUME NEW a \in Seq(Entry), NEW b \in Seq(Entry), Len(b) >= 1
    PROVE  a \o b \in Seq(Entry) /\ a \o b # <<>> /\ Last(a \o b) = Last(b)
  <1>1. /\ a \o b \in Seq(Entry) /\ Len(a \o b) = Len(a) + Len(b)
        /\ \A k \in 1 .. Len(b) : (a \o b)[Len(a) + k] = b[k]
    BY ConcatFacts
  <1>2. Len(a) \in Nat /\ Len(b) \in 1 .. Len(b)
    OBVIOUS
  <1>3. (a \o b)[Len(a \o b)] = b[Len(b)]
    BY <1>1, <1>2
  <1>4. a \o b # <<>>
    BY <1>1, <1>2
  <1>5. QED
    BY <1>1, <1>3, <1>4 DEF Last

\* The WAL thread has a segment whenever it may write.
LEMMA HasSegment ==
    ASSUME WalInv, walPc # "open", m_mtx = Free \/ walPc \notin {"pop", "write"}
    PROVE  log_fd # NoFile
  <1>1. raftPc # "rewrite"
    BY DEF WalInv, MutexesHeld, Free
  <1>2. QED
    BY <1>1 DEF WalInv, FilesInv

\* The entries of a bulk are written behind the others, in the open segment.
LEMMA WalWriteWal ==
    ASSUME WalInv, WalWrite PROVE WalInv'
  <1>1. TypeInv /\ FilesInv /\ ContentsInv /\ OpenInv
    BY DEF WalInv
  <1>2. PICK logs : logs = Logs(Bulk)
    OBVIOUS
  <1>3. /\ walPc = "write" /\ batches # <<>> /\ m_mtx = Free
        /\ files' = [files EXCEPT ![log_fd] = files[log_fd] \o logs]
        /\ offset' = Len(files[log_fd] \o logs)
        /\ m_segmentLastIndex' = Last(logs).index
        /\ m_segmentEntryCount' = m_segmentEntryCount + Len(logs)
        /\ written' = written \o logs
        /\ m_queue_log' = Rest /\ batches' = <<>>
        /\ JoinWaiting(Bulk)
        /\ \/ walPc' \in {"sync", "full"} /\ m_mtx' = "wal"
           \/ walPc' = "pop" /\ m_mtx' = m_mtx
        /\ UNCHANGED <<sync_ok, synced, log_fd, raftVars, clientVars, failures, crashes, outcome>>
    BY <1>2, Zenon DEF WalWrite
  <1>4. /\ Bulk \in Seq(Request(requests)) /\ Rest \in Seq(Request(requests)) /\ Len(Bulk) >= 1
    BY <1>1, <1>3, BulkAndRest
  <1>5. requests \in Nat
    BY <1>1 DEF TypeInv
  <1>6. /\ logs \in Seq(Entry) /\ Len(logs) \in Nat /\ Len(logs) >= 1
        /\ \A p \in 1 .. Len(logs) : logs[p].id \in 1 .. requests
    <2>1. PICK b \in Seq(Request(requests)) : b = Bulk
      BY <1>4
    <2>2. Logs(b) \in Seq(Entry) /\ Len(Logs(b)) >= 1 /\ \A p \in 1 .. Len(Logs(b)) : Logs(b)[p].id \in 1 .. requests
      BY <1>4, <1>5, <2>1, LogsFacts
    <2>3. QED
      BY <1>2, <2>1, <2>2
  <1>7. /\ log_fd # NoFile
    BY <1>3, HasSegment
  <1>8. PICK old : old = files[log_fd]
    OBVIOUS
  <1>9. PICK front : front = BeforeLast(files, ListSegments(files))
    OBVIOUS
  <1>10. /\ raftPc # "rewrite" /\ log_fd \in DOMAIN files /\ old \in Seq(Entry) /\ front \in Seq(Entry)
         /\ written = front \o old /\ written \in Seq(Entry)
         /\ files \in [DOMAIN files -> Seq(Entry)] /\ synced \in [DOMAIN files -> Nat]
         /\ synced[log_fd] \in Nat /\ synced[log_fd] <= Len(old) /\ Len(old) \in Nat
         /\ m_segmentEntryCount = Len(old)
    BY <1>7, <1>8, <1>9, OpenSegmentFacts
  <1>11. PICK now \in Seq(Entry) : /\ now = old \o logs /\ Len(now) = Len(old) + Len(logs)
                                   /\ now # <<>> /\ Last(now) = Last(logs)
    <2>1. old \o logs \in Seq(Entry) /\ Len(old \o logs) = Len(old) + Len(logs)
      BY <1>6, <1>10, ConcatFacts
    <2>2. old \o logs # <<>> /\ Last(old \o logs) = Last(logs)
      BY <1>6, <1>10, LastOf
    <2>3. QED
      BY <2>1, <2>2, Zenon
  <1>12. files' = [files EXCEPT ![log_fd] = now]
    BY <1>3, <1>8, <1>11
  <1>13. /\ files' \in [DOMAIN files -> Seq(Entry)] /\ files'[log_fd] = now
         /\ \A f \in DOMAIN files : f # log_fd => files'[f] = files[f]
    <2>1. PICK V : V = Seq(Entry)
      OBVIOUS
    <2>2. files \in [DOMAIN files -> V] /\ now \in V
      BY <1>10, <1>11, <2>1
    <2>3. files' \in [DOMAIN files -> V]
      BY <1>12, <2>2
    <2>4. QED
      BY <1>10, <1>12, <2>1, <2>3
  <1>14. raftPc' = raftPc /\ log_fd' = log_fd /\ synced' = synced
    BY <1>3 DEF raftVars
  <1>15. FilesInv' /\ WalContents(files') = front \o now
    <2>1. \A f \in DOMAIN files : f # log_fd => files'[f] = files[f] /\ synced'[f] = synced[f]
      BY <1>13, <1>14
    <2>2. synced' \in [DOMAIN files -> Nat] /\ walPc' # "open" /\ raftPc' # "rewrite"
      BY <1>3, <1>10, <1>14
    <2>3. FilesInv' /\ WalContents(files') = BeforeLast(files, ListSegments(files)) \o files'[log_fd]
      BY <1>1, <1>7, <1>10, <1>13, <1>14, <2>1, <2>2, LastReplaced
    <2>4. QED
      BY <1>9, <1>13, <2>3
  <1>16. ContentsInv'
    <2>1. written' = (front \o old) \o logs
      BY <1>3, <1>10
    <2>2. (front \o old) \o logs = front \o (old \o logs)
      <3>1. front \in Seq(Entry) /\ old \in Seq(Entry) /\ logs \in Seq(Entry)
        BY <1>6, <1>10
      <3>2. QED
        BY <3>1, ConcatAssoc
    <2>3. WalContents(files') = written'
      BY <1>11, <1>15, <2>1, <2>2
    <2>4. QED
      BY <1>10, <1>14, <2>3 DEF ContentsInv
  <1>17. OpenInv'
    <2>1. /\ m_segmentEntryCount' = Len(now) /\ offset' = Len(now) /\ m_segmentLastIndex' = Last(now).index
      BY <1>3, <1>8, <1>10, <1>11
    <2>2. walPc' # "rename" /\ synced'[log_fd] <= Len(now)
      BY <1>3, <1>6, <1>10, <1>11, <1>14
    <2>3. files'[log_fd'] = now /\ log_fd' = log_fd /\ synced' = synced
      BY <1>13, <1>14
    <2>4. CountersFitSegment'
      BY <2>1, <2>3 DEF CountersFitSegment
    <2>5. synced'[log_fd'] <= Len(files'[log_fd']) /\ offset' <= Len(files'[log_fd'])
      <3>1. Len(now) \in Nat
        BY <1>11
      <3>2. QED
        BY <2>1, <2>2, <2>3, <3>1
    <2>6. files'[log_fd'] # <<>>
      BY <1>11, <2>3
    <2>7. QED
      BY <2>2, <2>4, <2>5, <2>6 DEF OpenInv
  <1>18. TypeInv'
    <2>1. waiters' \in Seq(Request(requests)) /\ callbacks' \in Seq(Request(requests))
      <3>1. waiters \in Seq(Request(requests)) /\ callbacks \in Seq(Request(requests))
        BY <1>1 DEF TypeInv
      <3>2. QED
        BY <1>3, <1>4, <1>5, <3>1, JoinFacts
    <2>2. /\ written' \in Seq(Entry) /\ \A k \in 1 .. Len(written') : written'[k].id \in 1 .. requests
      <3>1. \A k \in 1 .. Len(written) : written[k].id \in 1 .. requests
        BY <1>1 DEF TypeInv
      <3>2. /\ written \o logs \in Seq(Entry) /\ Len(written \o logs) = Len(written) + Len(logs)
            /\ \A k \in 1 .. Len(written) : (written \o logs)[k] = written[k]
            /\ \A k \in Len(written) + 1 .. Len(written) + Len(logs) : (written \o logs)[k] = logs[k - Len(written)]
        BY <1>6, <1>10, ConcatFacts
      <3>3. PICK x \in Nat, y \in Nat : x = Len(written) /\ y = Len(logs)
        <4>1. Len(written) \in Nat /\ Len(logs) \in Nat
          BY <1>6, <1>10
        <4>2. QED
          BY <4>1, Zenon
      <3>4. /\ written' \in Seq(Entry) /\ Len(written') = x + y
            /\ \A k \in 1 .. x : written'[k] = written[k]
            /\ \A k \in x + 1 .. x + y : written'[k] = logs[k - x]
        BY <1>3, <3>2, <3>3
      <3>5. ASSUME NEW k \in 1 .. x + y PROVE written'[k].id \in 1 .. requests
        <4>1. CASE k <= x
          <5>1. k \in 1 .. x
            BY <4>1
          <5>2. QED
            BY <3>1, <3>3, <3>4, <5>1
        <4>2. CASE k > x
          <5>1. k - x \in 1 .. y /\ k \in x + 1 .. x + y
            BY <4>2
          <5>2. QED
            BY <1>6, <3>3, <3>4, <5>1
        <4>3. QED
          BY <4>1, <4>2
      <3>6. QED
        BY <3>4, <3>5
    <2>3. m_segmentLastIndex' \in Int
      <3>1. Len(logs) \in 1 .. Len(logs)
        BY <1>6
      <3>2. logs[Len(logs)] \in Entry
        BY <1>6, <3>1
      <3>3. logs[Len(logs)].index \in Nat
        BY <3>2 DEF Entry
      <3>4. QED
        BY <1>3, <3>3 DEF Last
    <2>4. /\ offset' \in Nat /\ m_segmentEntryCount' \in Nat
      BY <1>3, <1>6, <1>8, <1>10, <1>11
    <2>5. m_queue_log' \in Seq(Request(requests)) /\ batches' \in Seq(Request(requests))
      BY <1>3, <1>4
    <2>6. /\ walPc' \in {"pop", "sync", "full"} /\ sync_ok' = sync_ok /\ log_fd' = log_fd /\ raftPc' = raftPc
          /\ snapshot_index' = snapshot_index /\ m_logs' = m_logs /\ requests' = requests
          /\ failures' = failures /\ outcome' = outcome
      BY <1>3 DEF raftVars, clientVars
    <2>7. QED
      BY <1>1, <2>1, <2>2, <2>3, <2>4, <2>5, <2>6 DEF TypeInv
  <1>19. MutexesHeld'
    <2>1. MutexesHeld /\ raftPc' = raftPc /\ raft_mtx' = raft_mtx
      BY <1>3 DEF raftVars, WalInv
    <2>2. QED
      BY <1>3, <1>10, <2>1 DEF MutexesHeld, Free
  <1>20. QED
    BY <1>15, <1>16, <1>17, <1>18, <1>19 DEF WalInv

\* While nothing of Fault is explored, the descriptor stands at the end of the file when a write fails.
LEMMA FailsAtEnd ==
    ASSUME WalInv, NoFaults, WalWriteFails
    PROVE  /\ files' = files /\ synced' = [synced EXCEPT ![log_fd] = Len(files[log_fd])]
           /\ log_fd # NoFile /\ offset = Len(files[log_fd]) /\ m_mtx = Free
  <1>1. /\ walPc = "write" /\ m_mtx = Free
        /\ offset < Len(files[log_fd]) => "write fails after reopen" \in Faults
        /\ files' = [files EXCEPT ![log_fd] = SubSeq(files[log_fd], 1, offset)]
        /\ synced' = [synced EXCEPT ![log_fd] = offset]
    BY DEF WalWriteFails
  <1>2. log_fd # NoFile
    BY <1>1, HasSegment
  <1>3. PICK old : old = files[log_fd]
    OBVIOUS
  <1>4. /\ log_fd \in DOMAIN files /\ old \in Seq(Entry) /\ Len(old) \in Nat
        /\ files \in [DOMAIN files -> Seq(Entry)]
        /\ offset \in Nat /\ offset <= Len(old)
    BY <1>2, <1>3, OpenSegmentFacts
  <1>5. offset = Len(old)
    BY <1>1, <1>3, <1>4 DEF NoFaults
  <1>6. SubSeq(old, 1, Len(old)) = old
    BY <1>4, HeadsOf
  <1>7. files' = files
    <2>1. files' = [files EXCEPT ![log_fd] = old]
      BY <1>1, <1>3, <1>5, <1>6
    <2>2. PICK V : V = Seq(Entry)
      OBVIOUS
    <2>3. files \in [DOMAIN files -> V]
      BY <1>4, <2>2
    <2>4. QED
      BY <1>3, <2>1, <2>3
  <1>8. QED
    BY <1>1, <1>2, <1>3, <1>5, <1>7

\* A step that writes nothing, and forces the open segment out to the disk.
LEMMA ForcedOutDisk ==
    ASSUME WalInv, log_fd # NoFile, files' = files,
           synced' = [synced EXCEPT ![log_fd] = Len(files[log_fd])],
           UNCHANGED <<segmentVars, raftPc, written>>, walPc' \notin {"open", "full"},
           walPc' = "rename" => files[log_fd] # <<>>
    PROVE  FilesInv' /\ ContentsInv' /\ OpenInv'
  <1>1. TypeInv /\ FilesInv /\ ContentsInv /\ OpenInv
    BY DEF WalInv
  <1>2. PICK old : old = files[log_fd]
    OBVIOUS
  <1>3. /\ raftPc # "rewrite" /\ log_fd \in DOMAIN files /\ old \in Seq(Entry) /\ Len(old) \in Nat
        /\ files \in [DOMAIN files -> Seq(Entry)] /\ synced \in [DOMAIN files -> Nat]
        /\ written = BeforeLast(files, ListSegments(files)) \o old
    BY <1>2, OpenSegmentFacts
  <1>4. /\ synced' \in [DOMAIN files -> Nat] /\ synced'[log_fd] = Len(old)
        /\ \A f \in DOMAIN files : f # log_fd => files'[f] = files[f] /\ synced'[f] = synced[f]
    BY <1>2, <1>3
  <1>5. log_fd' = log_fd /\ raftPc' = raftPc /\ written' = written
    BY DEF segmentVars
  <1>6. files' \in [DOMAIN files -> Seq(Entry)] /\ raftPc' # "rewrite"
    BY <1>3, <1>5
  <1>7. FilesInv' /\ WalContents(files') = BeforeLast(files, ListSegments(files)) \o files'[log_fd]
    BY <1>1, <1>3, <1>4, <1>5, <1>6, LastReplaced
  <1>8. ContentsInv'
    BY <1>2, <1>3, <1>5, <1>7 DEF ContentsInv
  <1>9. OpenInv'
    BY <1>1, <1>2, <1>4, <1>5 DEF OpenInv, CountersFitSegment, segmentVars
  <1>10. QED
    BY <1>7, <1>8, <1>9

\* A failed write leaves the open segment as it was before the write.
LEMMA WalWriteFailsWal ==
    ASSUME WalInv, NoFaults, WalWriteFails PROVE WalInv'
  <1>1. TypeInv
    BY DEF WalInv
  <1>2. /\ files' = files /\ synced' = [synced EXCEPT ![log_fd] = Len(files[log_fd])]
        /\ log_fd # NoFile /\ m_mtx = Free
    BY FailsAtEnd
  <1>3. /\ walPc = "write" /\ batches # <<>>
        /\ failures' = failures + 1 /\ m_segmentEntryCount' = m_segmentEntryCount
        /\ m_queue_log' = Rest /\ batches' = <<>>
        /\ \E b \in DOMAIN Bulk : JoinWaiting(SubSeq(Bulk, 1, b))
        /\ sync_ok' = FALSE /\ walPc' = "notify" /\ m_mtx' = "wal"
        /\ UNCHANGED <<log_fd, offset, m_segmentLastIndex, raftVars, clientVars, crashes, outcome, written>>
    BY DEF WalWriteFails, CountRestored
  <1>4. FilesInv' /\ ContentsInv' /\ OpenInv'
    <2>1. UNCHANGED <<segmentVars, raftPc, written>> /\ walPc' \notin {"open", "full", "rename"}
      BY <1>3 DEF segmentVars, raftVars
    <2>2. QED
      BY <1>2, <2>1, ForcedOutDisk
  <1>5. TypeInv'
    <2>1. PICK S : S = Request(requests)
      OBVIOUS
    <2>2. requests \in Nat /\ Bulk \in Seq(S) /\ Rest \in Seq(S)
      BY <1>1, <2>1, BulkAndRest DEF TypeInv
    <2>3. PICK b \in DOMAIN Bulk : JoinWaiting(SubSeq(Bulk, 1, b))
      BY <1>3
    <2>4. SubSeq(Bulk, 1, b) \in Seq(S)
      BY <2>2
    <2>5. waiters' \in Seq(Request(requests)) /\ callbacks' \in Seq(Request(requests))
      <3>1. waiters \in Seq(Request(requests)) /\ callbacks \in Seq(Request(requests))
        BY <1>1 DEF TypeInv
      <3>2. SubSeq(Bulk, 1, b) \in Seq(Request(requests))
        BY <2>1, <2>4
      <3>3. QED
        BY <2>2, <2>3, <3>1, <3>2, JoinFacts
    <2>6. m_queue_log' \in Seq(Request(requests)) /\ batches' \in Seq(Request(requests))
      BY <1>3, <2>1, <2>2
    <2>7. failures' \in Nat /\ walPc' = "notify" /\ sync_ok' = FALSE
      BY <1>1, <1>3 DEF TypeInv
    <2>8. UNCHANGED <<m_segmentEntryCount, log_fd, offset, m_segmentLastIndex, raftVars, clientVars, outcome, written>>
      BY <1>3
    <2>9. QED
      BY <1>1, <2>5, <2>6, <2>7, <2>8 DEF TypeInv, raftVars, clientVars
  <1>6. MutexesHeld'
    BY <1>2, <1>3 DEF WalInv, MutexesHeld, raftVars, Free
  <1>7. QED
    BY <1>4, <1>5, <1>6 DEF WalInv

\* The open segment is forced out, or not.
LEMMA WalSyncWal ==
    ASSUME WalInv, WalSync PROVE WalInv'
  <1>1. /\ walPc \in {"sync", "full"} /\ walPc' \in {"rename", "notify"} /\ sync_ok' \in BOOLEAN
        /\ UNCHANGED <<m_queue_log, batches, waiters, callbacks, files, segmentVars, m_mtx, raftVars,
                       clientVars, crashes, outcome, written>>
        /\ failures' \in Nat
    <2>1. failures \in Nat
      BY DEF WalInv, TypeInv
    <2>2. walPc' \in {"rename", "notify"} /\ sync_ok' \in BOOLEAN /\ (failures' = failures \/ failures' = failures + 1)
      BY DEF WalSync
    <2>3. QED
      BY <2>1, <2>2 DEF WalSync
  <1>2. log_fd # NoFile
    BY <1>1, HasSegment
  <1>3. TypeInv'
    BY <1>1 DEF WalInv, TypeInv, segmentVars, raftVars, clientVars
  <1>4. MutexesHeld'
    BY <1>1 DEF WalInv, MutexesHeld, raftVars
  <1>5. CASE synced' = ForcedOut /\ walPc' = IF walPc = "full" THEN "rename" ELSE "notify"
    <2>1. walPc' = "rename" => files[log_fd] # <<>>
      BY <1>5 DEF WalInv, OpenInv
    <2>2. UNCHANGED <<segmentVars, raftPc, written>> /\ walPc' \notin {"open", "full"} /\ files' = files
      BY <1>1 DEF raftVars
    <2>3. synced' = [synced EXCEPT ![log_fd] = Len(files[log_fd])]
      BY <1>5 DEF ForcedOut
    <2>4. FilesInv' /\ ContentsInv' /\ OpenInv'
      BY <1>2, <2>1, <2>2, <2>3, ForcedOutDisk
    <2>5. QED
      BY <1>3, <1>4, <2>4 DEF WalInv
  <1>6. CASE synced' = synced /\ walPc' = "notify"
    <2>1. FilesInv' /\ ContentsInv' /\ OpenInv'
      <3>1. UNCHANGED <<fileVars, segmentVars, written>>
        BY <1>1, <1>6 DEF fileVars
      <3>2. raftPc' = raftPc /\ compacted' = compacted /\ snapshot_index' = snapshot_index
        BY <1>1 DEF raftVars
      <3>3. QED
        BY <1>1, <1>6, <3>1, <3>2, SameDisk DEF WalInv
    <2>2. QED
      BY <1>3, <1>4, <2>1 DEF WalInv
  <1>7. QED
    BY <1>5, <1>6 DEF WalSync

\* The open segment gets the name of a closed one: it is not empty, and its last entry is not below its
\* first index.
LEMMA RollSegmentWal ==
    ASSUME WalInv, WithinSegment, RollSegment PROVE WalInv'
  <1>1. TypeInv /\ FilesInv /\ ContentsInv /\ OpenInv
    BY DEF WalInv
  <1>2. PICK new : new = closedSegmentName(log_fd.first, m_segmentLastIndex)
    OBVIOUS
  <1>3. /\ walPc = "rename" /\ walPc' = "open" /\ log_fd' = NoFile
        /\ files' = Renamed(files, new) /\ synced' = Renamed(synced, new)
        /\ UNCHANGED <<m_queue_log, batches, waiters, callbacks, pending_count, sync_ok, offset,
                       m_segmentLastIndex, m_segmentEntryCount, m_mtx, raftVars, clientVars, failures,
                       outcome, written>>
    BY <1>2 DEF RollSegment
  <1>4. log_fd # NoFile
    BY <1>3, HasSegment
  <1>5. PICK names : names = ListSegments(files)
    OBVIOUS
  <1>6. PICK n \in Nat : n = Len(names) /\ n >= 1
    BY <1>1, <1>4, <1>5, DiskFacts, OpenSegmentFacts
  <1>7. /\ raftPc # "rewrite" /\ names # <<>> /\ Listed(names, files) /\ log_fd = names[n]
        /\ \A f \in DOMAIN files : files[f] \in Seq(Entry)
    <2>1. raftPc # "rewrite"
      BY <1>4, OpenSegmentFacts
    <2>2. QED
      BY <1>1, <1>4, <1>5, <1>6, <2>1, DiskFacts
  <1>8. /\ names \in Seq(Segment) /\ DOMAIN files = {names[k] : k \in 1 .. n}
        /\ \A i, j \in 1 .. n : i < j => names[i].first < names[j].first
        /\ \A k \in 1 .. n : names[k] \in Segment /\ names[k] \in DOMAIN files
    BY <1>6, <1>7 DEF Listed
  <1>9. \A k \in 1 .. n : names[k].first \in Nat /\ names[k].first >= 1
    BY <1>8 DEF Segment
  <1>10. log_fd.inprogress /\ log_fd \in Segment /\ log_fd.first \in Nat /\ log_fd.first >= 1
    <2>1. log_fd.inprogress
      BY <1>1, <1>4 DEF FilesInv
    <2>2. n \in 1 .. n
      BY <1>6
    <2>3. QED
      BY <1>7, <1>8, <1>9, <2>1, <2>2
  <1>11. /\ log_fd \in DOMAIN files /\ files[log_fd] \in Seq(Entry) /\ files[log_fd] # <<>>
         /\ m_segmentLastIndex = Last(files[log_fd]).index /\ m_segmentLastIndex \in Int
         /\ synced[log_fd] = Len(files[log_fd]) /\ synced \in [DOMAIN files -> Nat]
    <2>1. files[log_fd] # <<>> /\ synced[log_fd] = Len(files[log_fd])
      BY <1>1, <1>3 DEF OpenInv
    <2>2. m_segmentLastIndex \in Int
      BY <1>1 DEF TypeInv
    <2>3. QED
      BY <1>4, <2>1, <2>2, OpenSegmentFacts
  <1>12. log_fd.first <= m_segmentLastIndex
    <2>1. PICK last \in 1 .. Len(files[log_fd]) : Last(files[log_fd]) = files[log_fd][last]
      <3>1. Len(files[log_fd]) \in 1 .. Len(files[log_fd])
        BY <1>11
      <3>2. QED
        BY <3>1 DEF Last
    <2>2. last \in DOMAIN files[log_fd]
      BY <1>11, <2>1
    <2>3. files[log_fd][last].index >= log_fd.first
      BY <1>11, <2>2 DEF WithinSegment
    <2>4. QED
      BY <1>10, <1>11, <2>1, <2>3
  <1>13. /\ new \in Segment /\ new.first = log_fd.first /\ new.last = m_segmentLastIndex /\ ~new.inprogress
         /\ new # log_fd
    BY <1>2, <1>10, <1>11 DEF Segment, closedSegmentName
  <1>14. PICK more : more = [names EXCEPT ![n] = new]
    OBVIOUS
  <1>15. /\ new \notin DOMAIN files /\ Listed(more, files') /\ ListSegments(files') = more
         /\ WalContents(files') = WalContents(files)
    <2>1. log_fd = names[Len(names)] /\ more = [names EXCEPT ![Len(names)] = new]
      BY <1>6, <1>7, <1>14
    <2>2. QED
      BY <1>3, <1>7, <1>13, <2>1, Rolled
  <1>16. /\ Len(more) = n /\ more # <<>> /\ more[n] = new
         /\ \A k \in 1 .. n - 1 : more[k] = names[k] /\ names[k] # log_fd
    <2>1. Len(more) = n /\ more[n] = new /\ \A k \in 1 .. n - 1 : more[k] = names[k]
      BY <1>6, <1>8, <1>13, <1>14
    <2>2. \A k \in 1 .. n - 1 : names[k] # log_fd
      <3>1. \A k \in 1 .. n - 1 : k \in 1 .. n /\ n \in 1 .. n /\ k < n
        BY <1>6
      <3>2. \A k \in 1 .. n - 1 : names[k].first < names[n].first
        BY <1>8, <3>1
      <3>3. QED
        BY <1>6, <1>7, <1>9, <3>1, <3>2
    <2>3. QED
      BY <1>6, <2>1, <2>2
  <1>17. /\ DOMAIN files' = (DOMAIN files \ {log_fd}) \cup {new} /\ files'[new] = files[log_fd]
         /\ \A f \in DOMAIN files : f # log_fd => files'[f] = files[f]
         /\ DOMAIN synced' = DOMAIN files' /\ synced'[new] = synced[log_fd]
         /\ \A f \in DOMAIN files : f # log_fd => synced'[f] = synced[f]
    BY <1>3, <1>11, <1>15 DEF Renamed
  <1>18. files' \in [DOMAIN files' -> Seq(Entry)] /\ synced' \in [DOMAIN files' -> Nat]
    <2>1. PICK V : V = Seq(Entry)
      OBVIOUS
    <2>2. \A f \in DOMAIN files : files[f] \in V /\ synced[f] \in Nat
      BY <1>7, <1>11, <2>1
    <2>3. \A f \in DOMAIN files' : files'[f] \in V /\ synced'[f] \in Nat
      BY <1>11, <1>17, <2>2
    <2>4. files' = [f \in DOMAIN files' |-> files'[f]] /\ synced' = [f \in DOMAIN files' |-> synced'[f]]
      BY <1>3, <1>17 DEF Renamed
    <2>5. files' \in [DOMAIN files' -> V] /\ synced' \in [DOMAIN files' -> Nat]
      BY <2>3, <2>4
    <2>6. QED
      BY <2>1, <2>5
  <1>19. ASSUME NEW k \in 1 .. n
         PROVE  /\ ~more[k].inprogress /\ more[k].first <= more[k].last
                /\ synced'[more[k]] = Len(files'[more[k]])
    <2>1. CASE k = n
      BY <1>11, <1>12, <1>13, <1>16, <1>17, <2>1
    <2>2. CASE k # n
      <3>1. k \in 1 .. n - 1
        BY <1>6, <2>2
      <3>2. more[k] = names[k] /\ names[k] # log_fd /\ names[k] \in DOMAIN files
        BY <1>8, <1>16, <3>1
      <3>3. ~names[k].inprogress /\ names[k].first <= names[k].last /\ synced[names[k]] = Len(files[names[k]])
        BY <1>1, <1>5, <1>6, <3>2 DEF FilesInv
      <3>4. QED
        BY <1>17, <3>2, <3>3
    <2>3. QED
      BY <2>1, <2>2
  <1>20. raftPc' = raftPc /\ m_segmentLastIndex' = m_segmentLastIndex /\ written' = written
    BY <1>3 DEF raftVars
  <1>21. FilesInv'
    BY <1>3, <1>7, <1>13, <1>15, <1>16, <1>18, <1>19, <1>20 DEF FilesInv
  <1>22. ContentsInv'
    BY <1>1, <1>7, <1>15, <1>20 DEF ContentsInv
  <1>23. OpenInv'
    BY <1>3 DEF OpenInv, CountersFitSegment
  <1>24. TypeInv'
    BY <1>1, <1>3 DEF TypeInv, raftVars, clientVars
  <1>25. MutexesHeld'
    BY <1>3 DEF WalInv, MutexesHeld, raftVars
  <1>26. QED
    BY <1>21, <1>22, <1>23, <1>24, <1>25 DEF WalInv

\* The next segment is opened behind the one just closed.
LEMMA RollOpensWal ==
    ASSUME WalInv, RollOpens PROVE WalInv'
  <1>1. TypeInv /\ FilesInv /\ ContentsInv /\ OpenInv
    BY DEF WalInv
  <1>2. /\ walPc = "open" /\ walPc' = "notify"
        /\ OpenSegment(files, synced, m_segmentLastIndex + 1)
        /\ UNCHANGED <<m_queue_log, batches, waiters, callbacks, pending_count, sync_ok, m_mtx, raftVars,
                       clientVars, failures, crashes, outcome, written>>
    BY DEF RollOpens
  <1>3. raftPc # "rewrite"
    BY <1>2 DEF WalInv, MutexesHeld
  <1>4. PICK names : names = ListSegments(files)
    OBVIOUS
  <1>5. log_fd = NoFile /\ names[Len(names)].last = m_segmentLastIndex
    BY <1>1, <1>2, <1>4 DEF FilesInv
  <1>6. raftPc' = raftPc
    BY <1>2 DEF raftVars
  <1>7. FilesInv' /\ WalContents(files') = written /\ OpenInv'
    BY <1>1, <1>2, <1>3, <1>4, <1>5, <1>6, OpenedBehind
  <1>8. ContentsInv'
    BY <1>2, <1>3, <1>6, <1>7 DEF ContentsInv
  <1>9. TypeInv'
    <2>1. /\ log_fd' = openSegmentName(m_segmentLastIndex + 1) /\ offset' = 0
          /\ m_segmentLastIndex' = (m_segmentLastIndex + 1) - 1 /\ m_segmentEntryCount' = 0
      BY <1>2, Zenon DEF OpenSegment
    <2>2. m_segmentLastIndex \in Int /\ m_segmentLastIndex + 1 \in Nat \ {0}
      <3>1. m_segmentLastIndex \in Int
        BY <1>1 DEF TypeInv
      <3>2. PICK n \in Nat : n = Len(names) /\ n >= 1
        BY <1>1, <1>3, <1>4, DiskFacts
      <3>3. names \in Seq(Segment)
        BY <1>1, <1>4 DEF FilesInv, Listed
      <3>4. names[n] \in Segment
        BY <3>2, <3>3
      <3>5. names[n].first \in Nat /\ names[n].first >= 1 /\ names[n] # NoFile
        BY <3>4 DEF Segment, NoFile
      <3>6. names[n].first <= names[n].last
        BY <1>1, <1>4, <1>5, <3>2, <3>5 DEF FilesInv
      <3>7. QED
        BY <1>5, <3>1, <3>2, <3>5, <3>6
    <2>3. log_fd' \in Segment
      BY <2>1, <2>2 DEF openSegmentName, Segment
    <2>4. m_segmentLastIndex' \in Int /\ offset' \in Nat /\ m_segmentEntryCount' \in Nat
      BY <2>1, <2>2
    <2>5. QED
      BY <1>1, <1>2, <2>3, <2>4 DEF TypeInv, raftVars, clientVars
  <1>10. MutexesHeld'
    BY <1>2 DEF WalInv, MutexesHeld, raftVars
  <1>11. QED
    BY <1>7, <1>8, <1>9, <1>10 DEF WalInv

\* No file.
LEMMA NoFiles ==
    ListSegments(<<>>) = <<>> /\ Listed(<<>>, <<>>)
  <1>1. PICK none : none = <<>>
    OBVIOUS
  <1>2. none \in Seq(Segment) /\ Len(none) = 0 /\ DOMAIN none = {}
    BY <1>1
  <1>3. Listed(none, none)
    BY <1>2 DEF Listed
  <1>4. ListSegments(none) = none
    BY <1>3, ListedIs
  <1>5. QED
    BY <1>1, <1>3, <1>4

\* CompactWal removes the segments and has what is left of them in memory.
LEMMA CompactWalWal ==
    ASSUME WalInv, CompactWal PROVE WalInv'
  <1>1. TypeInv /\ FilesInv /\ ContentsInv /\ OpenInv /\ MutexesHeld
    BY DEF WalInv
  <1>2. /\ raftPc = "compact" /\ raftPc' = "rewrite" /\ m_mtx = Free /\ m_mtx' = "raft"
        /\ compacted' = ReadPersistedLogs(WalContents(files), snapshot_index)
        /\ files' = <<>> /\ synced' = <<>> /\ log_fd' = NoFile
        /\ UNCHANGED <<m_queue_log, walVars, offset, m_segmentLastIndex, m_segmentEntryCount, raft_mtx,
                       snapshot_index, m_compactedSnapshotIndex, clientVars, failures, crashes, outcome,
                       written>>
    BY DEF CompactWal
  <1>3. walPc' = walPc /\ walPc \in {"pop", "write"}
    BY <1>1, <1>2 DEF walVars, MutexesHeld, Free, TypeInv
  <1>4. TypeInv'
    BY <1>1, <1>2 DEF TypeInv, walVars, clientVars
  <1>5. MutexesHeld'
    BY <1>1, <1>2, <1>3 DEF MutexesHeld, Free
  <1>6. FilesInv'
    <2>1. ListSegments(files') = <<>> /\ Listed(<<>>, files')
      BY <1>2, NoFiles
    <2>2. files' \in [DOMAIN files' -> Seq(Entry)] /\ synced' \in [DOMAIN files' -> Nat]
      BY <1>2
    <2>3. Len(<<>>) = 0
      OBVIOUS
    <2>4. QED
      BY <1>2, <1>3, <2>1, <2>2, <2>3 DEF FilesInv
  <1>7. ContentsInv'
    BY <1>1, <1>2 DEF ContentsInv
  <1>8. OpenInv'
    BY <1>2, <1>3 DEF OpenInv, CountersFitSegment
  <1>9. QED
    BY <1>4, <1>5, <1>6, <1>7, <1>8 DEF WalInv

\* The rewrite puts what is left into one segment, which starts behind the snapshot.
LEMMA RewriteWal ==
    ASSUME WalInv, NoFaults, RewriteWalFrom PROVE WalInv'
  <1>1. TypeInv /\ FilesInv /\ ContentsInv /\ OpenInv /\ MutexesHeld
    BY DEF WalInv
  <1>2. PICK name : name = openSegmentName(snapshot_index + 1)
    OBVIOUS
  <1>3. PICK c : c = compacted
    OBVIOUS
  <1>4. /\ raftPc = "rewrite" /\ raftPc' = "idle" /\ m_mtx' = Free /\ raft_mtx' = Free
        /\ files' = [f \in {name} |-> SubSeq(c, 1, Len(c))]
        /\ synced' = [f \in {name} |-> Len(c)]
        /\ offset' = Len(c) /\ m_segmentLastIndex' = snapshot_index + Len(c) /\ m_segmentEntryCount' = Len(c)
        /\ log_fd' = name
        /\ written' = ReadPersistedLogs(written, snapshot_index)
        /\ UNCHANGED <<m_queue_log, walVars, snapshot_index, clientVars, failures, crashes, outcome>>
    BY <1>2, <1>3 DEF RewriteWalFrom, NoFaults
  <1>5. snapshot_index \in Nat /\ written \in Seq(Entry) /\ requests \in Nat
        /\ \A k \in 1 .. Len(written) : written[k].id \in 1 .. requests
    BY <1>1 DEF TypeInv
  <1>6. c = ReadPersistedLogs(written, snapshot_index)
    BY <1>1, <1>3, <1>4 DEF ContentsInv
  <1>7. /\ c \in Seq(Entry) /\ Len(c) \in Nat
        /\ \A k \in 1 .. Len(c) : c[k].index = snapshot_index + k /\ c[k].id \in 1 .. requests
    <2>1. PICK w \in Seq(Entry), s \in Nat, n \in Nat : w = written /\ s = snapshot_index /\ n = requests
      BY <1>5
    <2>2. \A k \in 1 .. Len(w) : w[k].id \in 1 .. n
      BY <1>5, <2>1
    <2>3. /\ ReadPersistedLogs(w, s) \in Seq(Entry)
          /\ \A k \in 1 .. Len(ReadPersistedLogs(w, s)) :
                 ReadPersistedLogs(w, s)[k].index = s + k /\ ReadPersistedLogs(w, s)[k].id \in 1 .. n
      BY <2>2, ReplayEntries
    <2>4. c = ReadPersistedLogs(w, s)
      BY <1>6, <2>1
    <2>5. QED
      BY <2>1, <2>3, <2>4
  <1>8. SubSeq(c, 1, Len(c)) = c
    BY <1>7, HeadsOf
  <1>9. files' = [f \in {name} |-> c] /\ written' = c
    BY <1>4, <1>6, <1>8
  <1>10. name \in Segment /\ name.inprogress /\ name # NoFile
    BY <1>2, <1>5 DEF Segment, openSegmentName, NoFile
  <1>11. Listed(<<name>>, files') /\ ListSegments(files') = <<name>> /\ WalContents(files') = c
    BY <1>7, <1>9, <1>10, Single
  <1>12. walPc' = walPc /\ walPc \in {"pop", "write"}
    BY <1>1, <1>4 DEF walVars, MutexesHeld
  <1>13. FilesInv'
    <2>1. PICK names : names = <<name>>
      OBVIOUS
    <2>2. Len(names) = 1 /\ names # <<>> /\ \A k \in 1 .. 1 : names[k] = name
      BY <2>1
    <2>3. ListSegments(files') = names /\ Listed(names, files')
      BY <1>11, <2>1
    <2>4. files' \in [DOMAIN files' -> Seq(Entry)] /\ synced' \in [DOMAIN files' -> Nat]
      <3>1. PICK V : V = Seq(Entry)
        OBVIOUS
      <3>2. files' \in [DOMAIN files' -> V] /\ synced' \in [DOMAIN files' -> Nat]
        BY <1>4, <1>7, <1>9, <3>1
      <3>3. QED
        BY <3>1, <3>2
    <2>5. QED
      BY <1>4, <1>10, <1>12, <2>2, <2>3, <2>4 DEF FilesInv
  <1>14. ContentsInv'
    BY <1>4, <1>9, <1>11 DEF ContentsInv
  <1>15. OpenInv'
    <2>1. files'[log_fd'] = c /\ synced'[log_fd'] = Len(c)
      BY <1>4, <1>9
    <2>2. c # <<>> => m_segmentLastIndex' = Last(c).index
      <3>1. ASSUME c # <<>> PROVE Len(c) \in 1 .. Len(c)
        BY <1>7, <3>1
      <3>2. QED
        BY <1>4, <1>7, <3>1 DEF Last
    <2>3. QED
      <3>1. CountersFitSegment'
        BY <1>4, <2>1, <2>2 DEF CountersFitSegment
      <3>2. synced'[log_fd'] <= Len(files'[log_fd']) /\ offset' <= Len(files'[log_fd'])
            /\ walPc' \notin {"full", "rename"}
        BY <1>4, <1>7, <1>12, <2>1
      <3>3. QED
        BY <3>1, <3>2 DEF OpenInv
  <1>16. TypeInv'
    <2>1. /\ log_fd' \in Segment /\ offset' \in Nat /\ m_segmentLastIndex' \in Int /\ m_segmentEntryCount' \in Nat
          /\ raftPc' \in {"idle", "compact", "rewrite"}
      BY <1>4, <1>5, <1>7, <1>10
    <2>2. written' \in Seq(Entry) /\ \A k \in 1 .. Len(written') : written'[k].id \in 1 .. requests
      BY <1>7, <1>9
    <2>3. QED
      BY <1>1, <1>4, <2>1, <2>2 DEF TypeInv, walVars, clientVars
  <1>17. MutexesHeld'
    BY <1>4, <1>12 DEF MutexesHeld
  <1>18. QED
    BY <1>13, <1>14, <1>15, <1>16, <1>17 DEF WalInv

\* Of two lists, the second loses its end.
LEMMA CutEnd ==
    ASSUME NEW a \in Seq(Entry), NEW b \in Seq(Entry), NEW keep \in 0 .. Len(b)
    PROVE  /\ SubSeq(b, 1, keep) \in Seq(Entry) /\ Len(SubSeq(b, 1, keep)) = keep
           /\ SubSeq(a \o b, 1, Len(a \o b) - (Len(b) - keep)) = a \o SubSeq(b, 1, keep)
  <1>1. PICK x \in Nat, y \in Nat : x = Len(a) /\ y = Len(b)
    OBVIOUS
  <1>2. PICK c \in Seq(Entry) : /\ c = a \o b /\ Len(c) = x + y
                                /\ \A k \in 1 .. x : c[k] = a[k]
                                /\ \A k \in x + 1 .. x + y : c[k] = b[k - x]
    <2>1. /\ a \o b \in Seq(Entry) /\ Len(a \o b) = Len(a) + Len(b)
          /\ \A k \in 1 .. Len(a) : (a \o b)[k] = a[k]
          /\ \A k \in Len(a) + 1 .. Len(a) + Len(b) : (a \o b)[k] = b[k - Len(a)]
      BY ConcatFacts
    <2>2. QED
      BY <1>1, <2>1
  <1>3. PICK d \in Seq(Entry) : d = SubSeq(b, 1, keep) /\ Len(d) = keep /\ \A k \in 1 .. keep : d[k] = b[k]
    <2>1. SubSeq(b, 1, keep) \in Seq(Entry) /\ Len(SubSeq(b, 1, keep)) = keep
          /\ \A k \in 1 .. keep : SubSeq(b, 1, keep)[k] = b[k]
      OBVIOUS
    <2>2. QED
      BY <2>1
  <1>4. /\ a \o d \in Seq(Entry) /\ Len(a \o d) = x + keep
        /\ \A k \in 1 .. x : (a \o d)[k] = a[k]
        /\ \A k \in x + 1 .. x + keep : (a \o d)[k] = d[k - x]
    <2>1. /\ a \o d \in Seq(Entry) /\ Len(a \o d) = Len(a) + Len(d)
          /\ \A k \in 1 .. Len(a) : (a \o d)[k] = a[k]
          /\ \A k \in Len(a) + 1 .. Len(a) + Len(d) : (a \o d)[k] = d[k - Len(a)]
      BY ConcatFacts
    <2>2. QED
      BY <1>1, <1>3, <2>1
  <1>5. PICK m \in Nat : m = x + keep /\ m <= x + y /\ m = Len(c) - (y - keep)
    BY <1>1, <1>2
  <1>6. SubSeq(c, 1, m) \in Seq(Entry) /\ Len(SubSeq(c, 1, m)) = m /\ \A k \in 1 .. m : SubSeq(c, 1, m)[k] = c[k]
    BY <1>2, <1>5
  <1>7. ASSUME NEW k \in 1 .. m PROVE SubSeq(c, 1, m)[k] = (a \o d)[k]
    <2>1. CASE k <= x
      <3>1. k \in 1 .. x
        BY <2>1
      <3>2. QED
        BY <1>2, <1>4, <1>6, <3>1
    <2>2. CASE k > x
      <3>1. PICK i \in 1 .. keep : i = k - x
        BY <1>5, <2>2
      <3>2. k \in x + 1 .. x + keep /\ k \in x + 1 .. x + y
        BY <1>5, <2>2
      <3>3. c[k] = b[i] /\ (a \o d)[k] = d[i] /\ d[i] = b[i]
        BY <1>2, <1>3, <1>4, <3>1, <3>2
      <3>4. QED
        BY <1>6, <3>3
    <2>3. k <= x \/ k > x
      OBVIOUS
    <2>4. QED
      BY <2>1, <2>2, <2>3, Zenon
  <1>8. SubSeq(c, 1, m) = a \o d
    <2>1. Len(SubSeq(c, 1, m)) = Len(a \o d)
      BY <1>4, <1>5, <1>6
    <2>2. \A k \in 1 .. Len(SubSeq(c, 1, m)) : SubSeq(c, 1, m)[k] = (a \o d)[k]
      BY <1>6, <1>7
    <2>3. QED
      BY <1>4, <1>6, <2>1, <2>2, SameSeq
  <1>9. QED
    BY <1>1, <1>2, <1>3, <1>5, <1>8

\* The node starts again when no segment is open: the next one is opened.
LEMMA RestartOpens ==
    ASSUME WalInv, NoFaults, Restart, log_fd = NoFile
    PROVE  /\ FilesInv' /\ OpenInv' /\ WalContents(files') = written /\ written' = written
           /\ m_logs' = ReadPersistedLogs(written, snapshot_index)
           /\ log_fd' \in Segment /\ m_segmentLastIndex' \in Nat /\ m_segmentEntryCount' = 0 /\ offset' = 0
           /\ synced'[log_fd'] = Len(files'[log_fd'])
  <1>1. TypeInv /\ FilesInv /\ ContentsInv /\ OpenInv
    BY DEF WalInv
  <1>2. /\ raftPc # "rewrite" /\ walPc' = "pop" /\ raftPc' = "idle"
        /\ ReopenLatestSegment(files, synced)
        /\ \E keep \in 0 .. 0 : written' = SubSeq(written, 1, Len(written) - (0 - keep))
        /\ m_logs' = ReadPersistedLogs(WalContents(files), snapshot_index)
    BY DEF Restart, NoFaults
  <1>3. written' = written
    <2>1. written \in Seq(Entry)
      BY <1>1 DEF TypeInv
    <2>2. SubSeq(written, 1, Len(written)) = written
      BY <2>1, HeadsOf
    <2>3. PICK keep \in 0 .. 0 : written' = SubSeq(written, 1, Len(written) - (0 - keep))
      BY <1>2
    <2>4. Len(written) - (0 - keep) = Len(written)
      BY <2>1
    <2>5. QED
      BY <2>2, <2>3, <2>4
  <1>4. WalContents(files) = written
    BY <1>1, <1>2 DEF ContentsInv
  <1>5. PICK names : names = ListSegments(files)
    OBVIOUS
  <1>6. PICK n \in Nat : n = Len(names) /\ n >= 1
    BY <1>1, <1>2, <1>5, DiskFacts
  <1>7. names # <<>> /\ Listed(names, files)
    BY <1>1, <1>2, <1>5, DiskFacts
  <1>8. names[n] \in Segment
    BY <1>6, <1>7 DEF Listed
  <1>9. names[n].first \in Nat /\ names[n].first >= 1 /\ names[n].last \in Int /\ names[n] # NoFile
    BY <1>8 DEF Segment, NoFile
  <1>10. ~names[n].inprogress /\ names[n].first <= names[n].last
    BY <1>1, <1>5, <1>6, <1>9 DEF FilesInv
  <1>11. OpenSegment(files, synced, names[Len(names)].last + 1)
    BY <1>2, <1>5, <1>6, <1>7, <1>10 DEF ReopenLatestSegment
  <1>12. FilesInv' /\ WalContents(files') = written /\ OpenInv'
    BY <1>1, <1>2, <1>5, <1>11, OpenedBehind
  <1>13. PICK first \in Nat : first = names[Len(names)].last + 1 /\ first >= 1
    <2>1. names[Len(names)].last + 1 \in Nat /\ names[Len(names)].last + 1 >= 1
      BY <1>6, <1>9, <1>10
    <2>2. QED
      BY <2>1
  <1>14. /\ log_fd' = openSegmentName(first) /\ m_segmentLastIndex' = first - 1
         /\ m_segmentEntryCount' = 0 /\ offset' = 0
    BY <1>11, <1>13, Zenon DEF OpenSegment
  <1>15. log_fd' \in Segment /\ log_fd' # NoFile
    BY <1>13, <1>14 DEF openSegmentName, Segment, NoFile
  <1>16. synced'[log_fd'] = Len(files'[log_fd'])
    <2>1. synced'[log_fd'] <= Len(files'[log_fd']) /\ m_segmentEntryCount' = Len(files'[log_fd'])
      BY <1>12, <1>15 DEF OpenInv, CountersFitSegment
    <2>2. synced'[log_fd'] \in Nat
      BY <1>12, <1>15 DEF FilesInv, Listed
    <2>3. QED
      BY <1>14, <2>1, <2>2
  <1>17. QED
    BY <1>2, <1>3, <1>4, <1>12, <1>13, <1>14, <1>15, <1>16

\* The node starts again and goes on with the segment that is open, of which the end may be lost.
LEMMA RestartReopens ==
    ASSUME WalInv, NoFaults, Restart, log_fd # NoFile
    PROVE  /\ FilesInv' /\ OpenInv' /\ WalContents(files') = written'
           /\ \E keep \in synced[log_fd] .. Len(files[log_fd]) :
                  written' = SubSeq(written, 1, Len(written) - (Len(files[log_fd]) - keep))
           /\ written' \in Seq(Entry) /\ m_logs' = ReadPersistedLogs(written', snapshot_index)
           /\ log_fd' \in Segment /\ m_segmentLastIndex' \in Int /\ m_segmentEntryCount' \in Nat /\ offset' = 0
           /\ synced'[log_fd'] = Len(files'[log_fd'])
  <1>1. TypeInv /\ FilesInv /\ ContentsInv /\ OpenInv
    BY DEF WalInv
  <1>2. PICK old, names, front : old = files[log_fd] /\ names = ListSegments(files) /\ front = BeforeLast(files, names)
    OBVIOUS
  <1>3. PICK keep \in synced[log_fd] .. Len(old) :
            /\ ReopenLatestSegment([files EXCEPT ![log_fd] = SubSeq(@, 1, keep)], [synced EXCEPT ![log_fd] = keep])
            /\ written' = SubSeq(written, 1, Len(written) - (Len(old) - keep))
            /\ m_logs' = ReadPersistedLogs(WalContents([files EXCEPT ![log_fd] = SubSeq(@, 1, keep)]), snapshot_index)
    BY <1>2 DEF Restart
  <1>4. walPc' = "pop" /\ raftPc' = "idle"
    BY DEF Restart
  <1>5. /\ raftPc # "rewrite"
        /\ log_fd \in DOMAIN files /\ old \in Seq(Entry) /\ log_fd \in Segment
        /\ front \in Seq(Entry) /\ written = front \o old
        /\ files \in [DOMAIN files -> Seq(Entry)] /\ synced \in [DOMAIN files -> Nat]
        /\ synced[log_fd] \in Nat /\ Len(old) \in Nat
    BY <1>2, OpenSegmentFacts
  <1>6. keep \in 0 .. Len(old) /\ keep \in Nat
    BY <1>5
  <1>7. PICK kept \in Seq(Entry) : kept = SubSeq(old, 1, keep) /\ Len(kept) = keep /\ written' = front \o kept
    <2>1. /\ SubSeq(old, 1, keep) \in Seq(Entry) /\ Len(SubSeq(old, 1, keep)) = keep
          /\ SubSeq(front \o old, 1, Len(front \o old) - (Len(old) - keep)) = front \o SubSeq(old, 1, keep)
      BY <1>5, <1>6, CutEnd
    <2>2. written' = front \o SubSeq(old, 1, keep)
      BY <1>3, <1>5, <2>1
    <2>3. QED
      BY <2>1, <2>2, Zenon
  <1>8. PICK cut, sync : cut = [files EXCEPT ![log_fd] = SubSeq(@, 1, keep)] /\ sync = [synced EXCEPT ![log_fd] = keep]
    OBVIOUS
  <1>9. /\ DOMAIN cut = DOMAIN files /\ cut[log_fd] = kept /\ cut \in [DOMAIN files -> Seq(Entry)]
        /\ \A f \in DOMAIN files : f # log_fd => cut[f] = files[f]
    <2>1. cut = [files EXCEPT ![log_fd] = kept]
      BY <1>2, <1>7, <1>8
    <2>2. PICK V : V = Seq(Entry)
      OBVIOUS
    <2>3. files \in [DOMAIN files -> V] /\ kept \in V
      BY <1>5, <2>2
    <2>4. cut \in [DOMAIN files -> V]
      BY <2>1, <2>3
    <2>5. QED
      BY <1>5, <2>1, <2>2, <2>4
  <1>10. /\ sync \in [DOMAIN files -> Nat] /\ sync[log_fd] = keep
         /\ \A f \in DOMAIN files : f # log_fd => sync[f] = synced[f]
    BY <1>5, <1>6, <1>8
  <1>11. names # <<>> /\ Listed(names, files) /\ log_fd = names[Len(names)]
    BY <1>1, <1>2, <1>5, DiskFacts
  <1>12. ListSegments(cut) = names
    <2>1. \A f \in DOMAIN cut : cut[f] \in Seq(Entry)
      BY <1>9
    <2>2. \A f \in DOMAIN files : f # names[Len(names)] => cut[f] = files[f]
      BY <1>9, <1>11
    <2>3. QED
      BY <1>9, <1>11, <2>1, <2>2, Replaced, Zenon
  <1>13. log_fd.inprogress
    BY <1>1 DEF FilesInv
  <1>14. ReopenLatestSegment(cut, sync)
    BY <1>3, <1>8, Zenon
  <1>15. /\ files' = cut /\ synced' = sync /\ log_fd' = log_fd /\ offset' = 0
         /\ m_segmentLastIndex' = (IF cut[log_fd] = <<>> THEN log_fd.first - 1 ELSE Last(cut[log_fd]).index)
         /\ m_segmentEntryCount' = Len(cut[log_fd])
    BY <1>11, <1>12, <1>13, <1>14 DEF ReopenLatestSegment
  <1>16. FilesInv' /\ WalContents(files') = front \o kept
    <2>1. /\ files' \in [DOMAIN files -> Seq(Entry)] /\ synced' \in [DOMAIN files -> Nat]
          /\ \A f \in DOMAIN files : f # log_fd => files'[f] = files[f] /\ synced'[f] = synced[f]
      BY <1>9, <1>10, <1>15
    <2>2. walPc' # "open" /\ raftPc' # "rewrite"
      BY <1>4
    <2>3. FilesInv' /\ WalContents(files') = BeforeLast(files, ListSegments(files)) \o files'[log_fd]
      BY <1>1, <1>5, <1>15, <2>1, <2>2, LastReplaced
    <2>4. QED
      BY <1>2, <1>9, <1>15, <2>3
  <1>17. WalContents(files') = written'
    BY <1>7, <1>16
  <1>18. m_logs' = ReadPersistedLogs(written', snapshot_index)
    BY <1>3, <1>8, <1>15, <1>17
  <1>19. written' \in Seq(Entry)
    BY <1>5, <1>7, ConcatFacts
  <1>20. synced'[log_fd'] = Len(files'[log_fd'])
    BY <1>7, <1>9, <1>10, <1>15
  <1>21. OpenInv'
    <2>1. files'[log_fd'] = kept /\ Len(kept) \in Nat /\ offset' = 0 /\ walPc' \notin {"full", "rename"}
      BY <1>4, <1>9, <1>15
    <2>2. CountersFitSegment'
      BY <1>9, <1>15, <2>1 DEF CountersFitSegment
    <2>3. QED
      BY <1>20, <2>1, <2>2 DEF OpenInv
  <1>22. m_segmentLastIndex' \in Int
    <2>1. log_fd.first \in Nat
      BY <1>5 DEF Segment
    <2>2. CASE kept = <<>>
      BY <1>9, <1>15, <2>1, <2>2
    <2>3. CASE kept # <<>>
      <3>1. Len(kept) \in 1 .. Len(kept)
        BY <2>3
      <3>2. kept[Len(kept)] \in Entry
        BY <3>1
      <3>3. kept[Len(kept)].index \in Nat
        BY <3>2 DEF Entry
      <3>4. QED
        BY <1>9, <1>15, <2>3, <3>3 DEF Last
    <2>4. QED
      BY <2>2, <2>3
  <1>23. m_segmentEntryCount' \in Nat
    BY <1>9, <1>15
  <1>24. \E k \in synced[log_fd] .. Len(files[log_fd]) :
             written' = SubSeq(written, 1, Len(written) - (Len(files[log_fd]) - k))
    BY <1>2, <1>3
  <1>25. QED
    BY <1>5, <1>15, <1>16, <1>17, <1>18, <1>19, <1>20, <1>21, <1>22, <1>23, <1>24

\* What a restart leaves of what was written: a beginning, which has all that is durable.
LEMMA RestartFacts ==
    ASSUME WalInv, NoFaults, Restart
    PROVE  /\ FilesInv' /\ OpenInv' /\ WalContents(files') = written'
           /\ \E n \in Nat : /\ Durable <= n /\ n <= Len(written) /\ written' = SubSeq(written, 1, n)
                             /\ Len(written') = n
           /\ written' \in Seq(Entry) /\ \A k \in 1 .. Len(written') : written'[k] = written[k]
           /\ m_logs' = ReadPersistedLogs(written', snapshot_index)
           /\ log_fd' \in Segment /\ m_segmentLastIndex' \in Int /\ m_segmentEntryCount' \in Nat /\ offset' = 0
           /\ synced'[log_fd'] = Len(files'[log_fd'])
  <1>1. written \in Seq(Entry)
    BY DEF WalInv, TypeInv
  <1>2. CASE log_fd = NoFile
    <2>1. /\ FilesInv' /\ OpenInv' /\ WalContents(files') = written /\ written' = written
          /\ m_logs' = ReadPersistedLogs(written, snapshot_index)
          /\ log_fd' \in Segment /\ m_segmentLastIndex' \in Nat /\ m_segmentEntryCount' = 0 /\ offset' = 0
          /\ synced'[log_fd'] = Len(files'[log_fd'])
      BY <1>2, RestartOpens
    <2>2. Durable = Len(written) - 0
      BY <1>2 DEF Durable
    <2>3. Len(written) \in Nat /\ SubSeq(written, 1, Len(written)) = written
      BY <1>1, HeadsOf
    <2>4. QED
      BY <1>1, <2>1, <2>2, <2>3
  <1>3. CASE log_fd # NoFile
    <2>1. /\ FilesInv' /\ OpenInv' /\ WalContents(files') = written'
          /\ \E keep \in synced[log_fd] .. Len(files[log_fd]) :
                 written' = SubSeq(written, 1, Len(written) - (Len(files[log_fd]) - keep))
          /\ written' \in Seq(Entry) /\ m_logs' = ReadPersistedLogs(written', snapshot_index)
          /\ log_fd' \in Segment /\ m_segmentLastIndex' \in Int /\ m_segmentEntryCount' \in Nat /\ offset' = 0
          /\ synced'[log_fd'] = Len(files'[log_fd'])
      BY <1>3, RestartReopens
    <2>2. PICK keep \in synced[log_fd] .. Len(files[log_fd]) :
              written' = SubSeq(written, 1, Len(written) - (Len(files[log_fd]) - keep))
      BY <2>1
    <2>3. PICK x \in Nat, y \in Nat, z \in Nat : x = Len(written) /\ y = Len(files[log_fd]) /\ z = synced[log_fd]
                                                 /\ y <= x
      <3>1. PICK a \in Seq(Entry), b \in Seq(Entry) : b = files[log_fd] /\ written = a \o b
        BY <1>3, OpenSegmentFacts
      <3>2. Len(written) = Len(a) + Len(b) /\ Len(a) \in Nat /\ Len(b) \in Nat
        BY <3>1, ConcatFacts
      <3>3. synced[log_fd] \in Nat
        BY <1>3, OpenSegmentFacts
      <3>4. QED
        BY <3>1, <3>2, <3>3
    <2>4. Durable = x - (y - z)
      BY <1>3, <2>3 DEF Durable
    <2>5. PICK n \in Nat : n = x - (y - keep) /\ x - (y - z) <= n /\ n <= x
      <3>1. keep \in z .. y
        BY <2>3
      <3>2. PICK k \in Nat : k = keep /\ z <= k /\ k <= y
        BY <3>1
      <3>3. x - (y - k) \in Nat /\ x - (y - z) <= x - (y - k) /\ x - (y - k) <= x
        <4>1. \A a, b, c, d \in Nat : b <= a /\ c <= d /\ d <= b =>
                  a - (b - d) \in Nat /\ a - (b - c) <= a - (b - d) /\ a - (b - d) <= a
          OBVIOUS
        <4>2. y <= x
          BY <2>3
        <4>3. QED
          BY <3>2, <4>1, <4>2, Zenon
      <3>4. QED
        BY <3>2, <3>3
    <2>6. written' = SubSeq(written, 1, n)
      BY <2>2, <2>3, <2>5
    <2>7. Len(written') = n /\ \A k \in 1 .. n : written'[k] = written[k]
      <3>1. n <= Len(written) /\ n \in Nat
        BY <2>3, <2>5
      <3>2. Len(SubSeq(written, 1, n)) = n /\ \A k \in 1 .. n : SubSeq(written, 1, n)[k] = written[k]
        BY <1>1, <3>1
      <3>3. QED
        BY <2>6, <3>2
    <2>8. QED
      BY <2>1, <2>3, <2>4, <2>5, <2>6, <2>7
  <1>4. QED
    BY <1>2, <1>3

\* The node starts again.
LEMMA RestartWal ==
    ASSUME WalInv, NoFaults, Restart PROVE WalInv'
  <1>1. TypeInv
    BY DEF WalInv
  <1>2. /\ FilesInv' /\ OpenInv' /\ WalContents(files') = written'
        /\ Len(written') <= Len(written)
        /\ written' \in Seq(Entry) /\ \A k \in 1 .. Len(written') : written'[k] = written[k]
        /\ m_logs' = ReadPersistedLogs(written', snapshot_index)
        /\ log_fd' \in Segment /\ m_segmentLastIndex' \in Int /\ m_segmentEntryCount' \in Nat /\ offset' = 0
    BY RestartFacts
  <1>3. /\ m_queue_log' = <<>> /\ batches' = <<>> /\ waiters' = <<>> /\ callbacks' = <<>>
        /\ walPc' = "pop" /\ sync_ok' = TRUE /\ m_mtx' = Free /\ raft_mtx' = Free /\ raftPc' = "idle"
        /\ UNCHANGED <<snapshot_index, requests, failures, outcome>>
    BY DEF Restart
  <1>4. /\ snapshot_index \in Nat /\ requests \in Nat /\ written \in Seq(Entry)
        /\ \A k \in 1 .. Len(written) : written[k].id \in 1 .. requests
    BY <1>1 DEF TypeInv
  <1>5. \A k \in 1 .. Len(written') : written'[k].id \in 1 .. requests
    <2>1. PICK x \in Nat, y \in Nat : x = Len(written') /\ y = Len(written) /\ x <= y
      BY <1>2, <1>4
    <2>2. QED
      BY <1>2, <1>4, <2>1
  <1>6. m_logs' \in Seq(Entry) /\ \A k \in 1 .. Len(m_logs') : m_logs'[k].id \in 1 .. requests
    <2>1. PICK w \in Seq(Entry), s \in Nat, n \in Nat : w = written' /\ s = snapshot_index /\ n = requests
      BY <1>2, <1>4
    <2>2. \A k \in 1 .. Len(w) : w[k].id \in 1 .. n
      BY <1>5, <2>1
    <2>3. /\ ReadPersistedLogs(w, s) \in Seq(Entry)
          /\ \A k \in 1 .. Len(ReadPersistedLogs(w, s)) : ReadPersistedLogs(w, s)[k].id \in 1 .. n
      BY <2>2, ReplayEntries
    <2>4. m_logs' = ReadPersistedLogs(w, s)
      BY <1>2, <2>1
    <2>5. QED
      BY <2>1, <2>3, <2>4
  <1>7. TypeInv'
    <2>1. <<>> \in Seq(Request(requests))
      OBVIOUS
    <2>2. QED
      BY <1>1, <1>2, <1>3, <1>5, <1>6, <2>1 DEF TypeInv
  <1>8. MutexesHeld'
    BY <1>3 DEF MutexesHeld
  <1>9. ContentsInv'
    BY <1>2, <1>3 DEF ContentsInv
  <1>10. QED
    BY <1>2, <1>7, <1>8, <1>9 DEF WalInv

\* No step ends what WalInv says.
LEMMA WalStep ==
    ASSUME WalInv, NoFaults, WithinSegment, [Next]_vars PROVE WalInv'
  <1>1. CASE Next
    BY <1>1, AppendLogWal, WalPopWal, WalWriteWal, WalTimeoutWal, WalSyncWal, RollSegmentWal, RollOpensWal,
       NotifyWaitersWal, NotifyCallbacksWal, WalUnlockWal, WalWriteFailsWal, SaveRaftStateWal, CompactWalWal,
       RewriteWal, RestartWal DEF Next, WalThread
  <1>2. CASE UNCHANGED vars
    <2>1. UNCHANGED <<m_queue_log, walVars, fileVars, segmentVars, m_mtx, raftVars, clientVars,
                      failures, crashes, outcome, written>>
      BY <1>2 DEF vars
    <2>2. TypeInv' /\ MutexesHeld'
      BY <2>1 DEF WalInv, TypeInv, MutexesHeld, walVars, segmentVars, raftVars, clientVars
    <2>3. FilesInv' /\ ContentsInv' /\ OpenInv'
      BY <2>1 DEF WalInv, FilesInv, ContentsInv, OpenInv, CountersFitSegment, walVars, fileVars, segmentVars, raftVars
    <2>4. QED
      BY <2>2, <2>3 DEF WalInv
  <1>3. QED
    BY <1>1, <1>2

----------------------------------------------------------------------------

\* At every moment the segment files hold, in the order in which ListSegments has the restart and CompactWal
\* read them, exactly the entries that the WAL thread has written, every file but the open one is closed
\* and on the disk, and the two mutexes are where the threads are.
THEOREM WalInvariant ==
    ASSUME NoFaults
    PROVE  Spec /\ []WithinSegment => []WalInv
  <1>1. Init => WalInv
    BY InitWal
  <1>2. WalInv /\ WithinSegment /\ [Next]_vars => WalInv'
    BY WalStep
  <1>3. QED
    BY <1>1, <1>2, PTL DEF Spec

\* What ReadPersistedLogs makes of the segment files is what it makes of one list of all that was written:
\* what module Raft takes the WAL for, through rolls, failed writes, compactions and restarts.
THEOREM SegmentsAreTheLogHolds ==
    ASSUME NoFaults
    PROVE  Spec /\ []WithinSegment => []SegmentsAreTheLog
  <1>1. WalInv => SegmentsAreTheLog
    BY DEF WalInv, ContentsInv, SegmentsAreTheLog
  <1>2. QED
    BY <1>1, WalInvariant, PTL

\* The entry count and the last index, by which RollSegment decides when a segment is closed and how it is
\* called, are those of the open file, after failed writes, restarts and rewrites too.
THEOREM CountersFitSegmentHolds ==
    ASSUME NoFaults
    PROVE  Spec /\ []WithinSegment => []CountersFitSegment
  <1>1. WalInv => CountersFitSegment
    BY DEF WalInv, OpenInv
  <1>2. QED
    BY <1>1, WalInvariant, PTL
=============================================================================
