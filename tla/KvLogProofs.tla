----------------------------- MODULE KvLogProofs -----------------------------
(***************************************************************************)
(* Every replica is a copy of the log's writes: proof that KvServer         *)
(* implements ReplicatedMap (ReplicaIsLog).  The table of a store covers    *)
(* exactly what the store reflects, so that ifRequestDuplicate holds of an  *)
(* entry if and only if the log has it twice, and the messages on their way *)
(* to the store miss no entry.  (list and map are the variables of the      *)
(* skip list alone, which this does not use.)                               *)
(***************************************************************************)
EXTENDS KvLogInv, KvProofs, SkipListProofs

----------------------------------------------------------------------------
\* A log that grows.

\* Log m has the entries of l first.
Extends(l, m) ==
    /\ l \in Seq(Operation) /\ m \in Seq(Operation) /\ Len(l) <= Len(m)
    /\ \A i \in 1..Len(l) : m[i] = l[i]

LEMMA LogGrows ==
    ASSUME CommitInv, log' = log \/ Commit
    PROVE  Extends(log, log')
  <1>1. log \in Seq(Operation) /\ pending \in Seq(Operation)
    BY DEF CommitInv, LogInv
  <1>2. CASE log' = log
    BY <1>1, <1>2 DEF Extends
  <1>3. CASE Commit
    <2>1. PICK o : o = Head(pending)
      OBVIOUS
    <2>2. log' = Append(log, o) /\ o \in Operation
      BY <1>1, <1>3, <2>1 DEF Commit
    <2>3. QED
      BY <1>1, <2>2 DEF Extends
  <1>4. QED
    BY <1>2, <1>3

LEMMA WrittenMore ==
    ASSUME NEW l, NEW m, Extends(l, m)
    PROVE  /\ \A n \in Nat : n <= Len(l) => WrittenBy(m, n) = WrittenBy(l, n)
           /\ WrittenBy(l, Len(l)) \subseteq WrittenBy(m, Len(m))
  <1>1. Len(l) \in Nat /\ Len(m) \in Nat /\ Len(l) <= Len(m) /\ \A i \in 1..Len(l) : m[i] = l[i]
    BY DEF Extends
  <1>2. ASSUME NEW n \in Nat, n <= Len(l) PROVE WrittenBy(m, n) = WrittenBy(l, n)
    <2>1. \A i \in 1..n : m[i] = l[i]
      BY <1>1, <1>2
    <2>2. QED
      BY <2>1 DEF WrittenBy
  <1>3. 1..Len(l) \subseteq 1..Len(m)
    BY <1>1
  <1>4. WrittenBy(m, Len(l)) \subseteq WrittenBy(m, Len(m))
    BY <1>3 DEF WrittenBy
  <1>5. QED
    BY <1>1, <1>2, <1>4

LEMMA HasKeysMore ==
    ASSUME NEW l, NEW m, Extends(l, m), NEW K, NEW n \in Nat, HasKeys(l, K, n)
    PROVE  HasKeys(m, K, n)
  <1>1. n <= Len(l) /\ Len(l) <= Len(m) /\ Len(l) \in Nat /\ Len(m) \in Nat
    BY DEF HasKeys, Extends
  <1>2. QED
    BY <1>1, WrittenMore DEF HasKeys

LEMMA CoversMore ==
    ASSUME NEW l, NEW m, Extends(l, m), NEW last, NEW n \in Nat, n <= Len(l), CoversAll(l, last, n)
    PROVE  CoversAll(m, last, n)
  <1>1. ASSUME NEW i \in DOMAIN m, i <= n PROVE i \in DOMAIN l /\ m[i] = l[i]
    BY <1>1 DEF Extends
  <1>2. QED
    BY <1>1 DEF CoversAll

LEMMA StoreHoldsMore ==
    ASSUME NEW l, NEW m, Extends(l, m), NEW sl, NEW last, NEW n \in Nat, StoreHolds(l, sl, last, n)
    PROVE  StoreHolds(m, sl, last, n)
  <1>1. n <= Len(l)
    BY DEF StoreHolds, HasKeys
  <1>2. QED
    BY <1>1, HasKeysMore, CoversMore DEF StoreHolds

LEMMA SnapshotHoldsMore ==
    ASSUME NEW l, NEW m, Extends(l, m), NEW snapshot, SnapshotHolds(l, snapshot)
    PROVE  SnapshotHolds(m, snapshot)
  <1>1. snapshot.at \in Nat /\ snapshot.at <= Len(l)
    BY DEF SnapshotHolds, Snapshot, HasKeys
  <1>2. QED
    BY <1>1, HasKeysMore, CoversMore DEF SnapshotHolds

----------------------------------------------------------------------------
\* What a server keeps.

LEMMA ReplicaOf ==
    ASSUME ReplicaInv, NEW s \in Server
    PROVE  ReplicaAt(s) /\ DOMAIN m_skipList = Server
  BY DEF ReplicaInv

\* A step leaves alone what ReplicaAt says of server t.
ReplicaSame(t) ==
    /\ m_skipList'[t] = m_skipList[t] /\ m_last_RequestId'[t] = m_last_RequestId[t]
    /\ reflected'[t] = reflected[t]
    /\ m_lastSnapShotRaftLogIndex'[t] = m_lastSnapShotRaftLogIndex[t]
    /\ snapshotFile'[t] = snapshotFile[t] /\ (HasSnapshot(t)' => HasSnapshot(t))
    /\ applyChan'[t] = applyChan[t] /\ hand'[t] = hand[t] /\ lastApplied'[t] = lastApplied[t]

LEMMA ReplicaSameHolds ==
    ASSUME CommitInv, ReplicaInv, log' = log \/ Commit, NEW t \in Server, ReplicaSame(t)
    PROVE  ReplicaAt(t)'
  <1>1. Extends(log, log') /\ ReplicaAt(t) /\ reflected[t] \in Nat
    BY LogGrows, ReplicaOf, ServerTypes
  <1>2. PICK l, m : l = log /\ m = log'
    OBVIOUS
  <1>3. PICK sl, last, n : sl = m_skipList[t] /\ last = m_last_RequestId[t] /\ n = reflected[t]
    OBVIOUS
  <1>4. StoreHolds(m, sl, last, n)
    BY <1>1, <1>2, <1>3, StoreHoldsMore DEF ReplicaAt
  <1>5. \A snapshot : SnapshotHolds(l, snapshot) => SnapshotHolds(m, snapshot)
    BY <1>1, <1>2, SnapshotHoldsMore
  <1>6. SnapshotsAt(t)'
    BY <1>1, <1>2, <1>5 DEF ReplicaAt, SnapshotsAt, ReplicaSame
  <1>7. Coming(t)' = Coming(t)
    BY DEF Coming, ReplicaSame
  <1>8. QED
    BY <1>1, <1>2, <1>3, <1>4, <1>6, <1>7 DEF ReplicaAt, ReplicaSame

\* A step that changes one server.
LEMMA ReplicaStep ==
    ASSUME CommitInv, ReplicaInv, log' = log, NEW s \in Server, DOMAIN m_skipList' = Server,
           \A t \in Server : t # s => ReplicaSame(t), ReplicaAt(s)'
    PROVE  ReplicaInv'
  <1>1. \A t \in Server : ReplicaAt(t)'
    BY ReplicaSameHolds
  <1>2. QED
    BY <1>1 DEF ReplicaInv

\* A step that leaves what the stores are made from alone.
LEMMA ReplicaKept ==
    ASSUME CommitInv, ReplicaInv, log' = log \/ Commit,
           UNCHANGED <<nodeVars, snapshotFile, applyChan, storeVars, loop>>
    PROVE  ReplicaInv'
  <1>1. \A t \in Server : ReplicaSame(t)
    BY DEF ReplicaSame, HasSnapshot, nodeVars, storeVars
  <1>2. DOMAIN m_skipList' = Server
    BY DEF ReplicaInv, storeVars
  <1>3. QED
    BY <1>1, <1>2, ReplicaSameHolds DEF ReplicaInv

----------------------------------------------------------------------------
\* The messages on their way.

\* A sequence of messages, each with a number.
Messages(q) == IsSeq(q) /\ \A a \in 1..Len(q) : q[a].index \in Nat

LEMMA SeqFacts ==
    ASSUME NEW q, IsSeq(q)
    PROVE  /\ Len(q) \in Nat /\ DOMAIN q = 1..Len(q)
           /\ \A a \in 1..Len(q) : q[a] \in Range(q)
  <1>1. q \in Seq(Range(q))
    BY DEF IsSeq
  <1>2. QED
    BY <1>1 DEF Range

LEMMA ConcatFacts ==
    ASSUME NEW q, NEW r, IsSeq(q), IsSeq(r)
    PROVE  /\ Len(q \o r) = Len(q) + Len(r)
           /\ \A a \in 1..Len(q) : (q \o r)[a] = q[a]
           /\ \A a \in 1..Len(r) : (q \o r)[Len(q) + a] = r[a]
  <1>1. q \in Seq(Range(q) \cup Range(r)) /\ r \in Seq(Range(q) \cup Range(r))
    BY SeqWiden DEF IsSeq
  <1>2. QED
    BY <1>1

LEMMA ComingFacts ==
    ASSUME CommitInv, RecentInv, NEW s \in Server, NEW q, q = Coming(s)
    PROVE  /\ Messages(q) /\ Len(q) \in Nat
           /\ IsSeq(applyChan[s]) /\ IsSeq(hand[s])
           /\ \A a \in 1..Len(q) : q[a].index <= lastApplied[s]
           /\ \A a, b \in 1..Len(q) : a < b /\ q[b].op = None => q[a].index < q[b].index
  <1>1. PICK x, y : x = applyChan[s] /\ y = hand[s]
    OBVIOUS
  <1>2. IsSeq(x) /\ IsSeq(y) /\ \A m \in Range(y) : EntryInv(m)
    BY <1>1, DeliveryOf DEF CommitInv, DeliveryAt
  <1>3. \A m \in Range(x) \cup Range(y) : m.index \in Nat
    BY <1>1, DeliveryOf DEF CommitInv, DeliveryAt, EntryInv
  <1>4. \A m \in Range(y) : m.op # None
    BY <1>2, NoneAssumption DEF EntryInv
  <1>5. q = x \o y
    BY <1>1 DEF Coming
  <1>6. IsSeq(q) /\ Range(q) = Range(x) \cup Range(y)
    BY <1>2, <1>5, IsSeqConcat
  <1>7. /\ Len(x) \in Nat /\ Len(y) \in Nat /\ Len(q) = Len(x) + Len(y)
        /\ DOMAIN x = 1..Len(x)
        /\ \A a \in 1..Len(x) : q[a] = x[a]
        /\ \A a \in 1..Len(y) : q[Len(x) + a] = y[a] /\ y[a] \in Range(y)
    BY <1>2, <1>5, SeqFacts, ConcatFacts
  <1>8. \A a \in 1..Len(q) : q[a] \in Range(q)
    BY <1>6, SeqFacts
  <1>9. \A a \in 1..Len(q) : q[a].index <= lastApplied[s]
    BY <1>1, <1>6, <1>8, RecentOf DEF ChannelAt
  <1>10. ASSUME NEW a \in 1..Len(q), NEW b \in 1..Len(q), a < b, q[b].op = None
         PROVE  q[a].index < q[b].index
    <2>1. b <= Len(x)
      <3>1. SUFFICES ASSUME b > Len(x) PROVE FALSE
        BY <1>7
      <3>2. PICK k \in 1..Len(y) : b = Len(x) + k
        <4>1. b - Len(x) \in 1..Len(y) /\ b = Len(x) + (b - Len(x))
          BY <1>7, <3>1
        <4>2. QED
          BY <4>1
      <3>3. q[b] \in Range(y)
        BY <1>7, <3>2
      <3>4. QED
        BY <1>4, <1>10, <3>3
    <2>2. a \in DOMAIN x /\ b \in DOMAIN x /\ q[a] = x[a] /\ q[b] = x[b]
      BY <1>7, <1>10, <2>1
    <2>3. QED
      BY <1>1, <1>10, <2>2, RecentOf DEF ChannelAt
  <1>11. \A a \in 1..Len(q) : q[a].index \in Nat
    BY <1>3, <1>6, <1>8
  <1>12. Messages(q)
    BY <1>6, <1>11 DEF Messages
  <1>13. Len(q) \in Nat
    BY <1>6, SeqFacts
  <1>14. IsSeq(applyChan[s]) /\ IsSeq(hand[s])
    BY <1>1, <1>2
  <1>15. QED
    BY <1>9, <1>10, <1>12, <1>13, <1>14

\* The store gets the first message.
LEMMA NoGapPop ==
    ASSUME NEW q, Messages(q), q # << >>, NEW n \in Nat, NEW new \in Nat, NEW applied \in Nat,
           NoGap(n, q, applied), new >= q[1].index, q[1].op # None => new >= n,
           \A b \in 1..Len(q) : 1 < b /\ q[b].op = None => q[1].index < q[b].index
    PROVE  NoGap(new, Tail(q), applied)
  <1>1. PICK p, len : p = Tail(q) /\ len = Len(q)
    OBVIOUS
  <1>2. q \in Seq(Range(q)) /\ len \in Nat \ {0}
    BY <1>1 DEF Messages, IsSeq
  <1>3. Len(p) = len - 1 /\ \A b \in 1..(len - 1) : p[b] = q[b + 1]
    BY <1>1, <1>2
  <1>4. \A b \in 1..len : q[b].index \in Nat
    BY <1>1 DEF Messages
  <1>5. ASSUME NEW a \in 2..(len + 1), NEW i \in Int, Ready(n, q, a, i)
        PROVE  Ready(new, p, a - 1, i)
    <2>1. \A c \in 1..(a - 2) : p[c] = q[c + 1] /\ c + 1 \in 1..len /\ 1 < c + 1
      <3>1. len \in Nat /\ a \in Int /\ a - 2 <= len - 1
        BY <1>2
      <3>2. \A c \in 1..(a - 2) : c \in 1..(len - 1) /\ c + 1 \in 1..len /\ 1 < c + 1
        BY <3>1
      <3>3. QED
        BY <1>3, <3>2
    <2>2. CASE \E b \in 1..(a - 1) : b # 1 /\ q[b].index >= i
      <3>1. PICK b \in 1..(a - 1) : b # 1 /\ q[b].index >= i
        BY <2>2
      <3>2. PICK c : c = b - 1
        OBVIOUS
      <3>3. c \in 1..(a - 2) /\ b = c + 1
        BY <1>5, <3>1, <3>2
      <3>4. p[c].index >= i
        BY <2>1, <3>1, <3>3
      <3>5. c \in 1..((a - 1) - 1)
        BY <1>5, <3>3
      <3>6. QED
        BY <3>4, <3>5 DEF Ready
    <2>3. CASE q[1].index >= i \/ (i <= n /\ \A b \in 1..(a - 1) : q[b].op # None)
      <3>1. i <= new
        <4>1. 1 \in 1..(a - 1) /\ q[1].index \in Nat
          BY <1>2, <1>4, <1>5
        <4>2. QED
          BY <2>3, <4>1
      <3>2. CASE \E c \in 1..(a - 2) : p[c].op = None
        <4>1. PICK c \in 1..(a - 2) : p[c].op = None
          BY <3>2
        <4>2. q[c + 1].op = None /\ q[1].index < q[c + 1].index
          BY <1>1, <2>1, <4>1
        <4>3. q[1].index >= i
          <5>1. c + 1 \in 1..(a - 1)
            BY <1>5, <4>1
          <5>2. QED
            BY <2>3, <4>2, <5>1
        <4>8. PICK x, y : x = q[1].index /\ y = q[c + 1].index
          OBVIOUS
        <4>9. 1 \in 1..len /\ c + 1 \in 1..len
          BY <1>2, <2>1, <4>1
        <4>4. x \in Nat /\ y \in Nat
          BY <1>4, <4>8, <4>9
        <4>10. y >= i
          BY <4>2, <4>3, <4>4, <4>8
        <4>5. p[c].index >= i
          BY <2>1, <4>1, <4>8, <4>10
        <4>6. c \in 1..((a - 1) - 1)
          BY <1>5, <4>1
        <4>7. QED
          BY <4>5, <4>6 DEF Ready
      <3>3. CASE \A c \in 1..(a - 2) : p[c].op # None
        <4>1. (a - 1) - 1 = a - 2
          BY <1>5
        <4>2. QED
          BY <3>1, <3>3, <4>1 DEF Ready
      <3>4. QED
        BY <3>2, <3>3
    <2>4. QED
      BY <1>5, <2>2, <2>3 DEF Ready
  <1>6. ASSUME NEW a \in 1..Len(p), p[a].op # None PROVE Ready(new, p, a, p[a].index - 1)
    <2>5. len \in Nat /\ a \in 1..(len - 1)
      BY <1>2, <1>3
    <2>6. p[a] = q[a + 1]
      BY <1>3, <2>5
    <2>7. a + 1 \in 2..(len + 1) /\ a + 1 \in 1..len /\ (a + 1) - 1 = a
      BY <2>5
    <2>1. a + 1 \in 2..(len + 1) /\ a + 1 \in 1..len /\ p[a] = q[a + 1] /\ (a + 1) - 1 = a
      BY <2>6, <2>7
    <2>2. q[a + 1].index - 1 \in Int
      BY <1>4, <2>1
    <2>3. Ready(n, q, a + 1, q[a + 1].index - 1)
      BY <1>1, <1>6, <2>1 DEF NoGap
    <2>4. QED
      BY <1>5, <2>1, <2>2, <2>3
  <1>7. Ready(new, p, Len(p) + 1, applied)
    <2>1. len + 1 \in 2..(len + 1) /\ (len + 1) - 1 = Len(p) + 1 /\ applied \in Int
      BY <1>2, <1>3
    <2>2. QED
      BY <1>1, <1>5, <2>1 DEF NoGap
  <1>8. QED
    BY <1>1, <1>6, <1>7 DEF NoGap

\* The entries after those on their way are copied.
LEMMA NoGapCopy ==
    ASSUME NEW q, Messages(q), NEW r, IsSeq(r), Len(r) > 0, NEW n \in Nat, NEW applied \in Nat,
           NoGap(n, q, applied),
           \A k \in 1..Len(r) : r[k].index = applied + k
    PROVE  NoGap(n, q \o r, applied + Len(r))
  <1>1. PICK p, x, y : p = q \o r /\ x = Len(q) /\ y = Len(r)
    OBVIOUS
  <1>2. IsSeq(q)
    BY DEF Messages
  <1>3. /\ x \in Nat /\ y \in Nat /\ y > 0 /\ Len(p) = x + y
        /\ \A a \in 1..x : p[a] = q[a]
        /\ \A k \in 1..y : p[x + k] = r[k]
    BY <1>1, <1>2, SeqFacts, ConcatFacts
  <1>4. ASSUME NEW a \in 1..(x + 1), NEW i, Ready(n, q, a, i) PROVE Ready(n, p, a, i)
    <2>1. \A b \in 1..(a - 1) : p[b] = q[b]
      BY <1>3
    <2>2. QED
      BY <1>4, <2>1 DEF Ready
  <1>5. ASSUME NEW k \in 1..y PROVE Ready(n, p, x + k + 1, applied + k)
    <2>1. x + k \in 1..((x + k + 1) - 1)
      BY <1>3
    <2>2. p[x + k].index >= applied + k
      BY <1>1, <1>3
    <2>3. QED
      BY <2>1, <2>2 DEF Ready
  <1>6. ASSUME NEW a \in 1..Len(p), p[a].op # None PROVE Ready(n, p, a, p[a].index - 1)
    <2>1. CASE a <= x
      <3>1. a \in 1..x /\ a \in 1..(x + 1) /\ p[a] = q[a]
        BY <1>3, <2>1
      <3>2. QED
        BY <1>1, <1>4, <1>6, <3>1 DEF NoGap
    <2>2. CASE a = x + 1
      <3>1. 1 \in 1..y /\ p[a] = r[1]
        BY <1>3, <2>2
      <3>4. r[1].index = applied + 1
        BY <1>1, <3>1
      <3>5. p[a].index - 1 = applied
        BY <3>1, <3>4
      <3>2. Ready(n, q, x + 1, applied) /\ x + 1 \in 1..(x + 1)
        BY <1>1, <1>3 DEF NoGap
      <3>3. QED
        BY <1>4, <2>2, <3>2, <3>5
    <2>3. CASE a > x + 1
      <3>1. PICK k : k = a - x - 1
        OBVIOUS
      <3>2. k \in 1..y /\ k + 1 \in 1..y /\ a = x + k + 1 /\ a = x + (k + 1)
        BY <1>3, <2>3, <3>1
      <3>3. p[a].index = applied + (k + 1)
        BY <1>1, <1>3, <3>2
      <3>4. p[a].index - 1 = applied + k
        BY <3>2, <3>3
      <3>5. QED
        BY <1>5, <3>2, <3>4
    <2>4. QED
      BY <1>3, <2>1, <2>2, <2>3
  <1>7. Ready(n, p, Len(p) + 1, applied + y)
    <2>1. y \in 1..y /\ x + y + 1 = Len(p) + 1
      BY <1>3
    <2>2. QED
      BY <1>5, <2>1
  <1>8. QED
    BY <1>1, <1>6, <1>7 DEF NoGap

\* A snapshot that is newer than all messages, of which r are pushed after it.
LEMMA NoGapInstall ==
    ASSUME NEW q, NEW r, IsSeq(q), IsSeq(r), Messages(q \o r), NEW n \in Nat, NEW applied \in Nat,
           NoGap(n, q \o r, applied), NEW m, m.op = None, m.index \in Nat,
           \A a \in 1..Len(q \o r) : (q \o r)[a].index < m.index
    PROVE  NoGap(n, Append(q, m) \o r, m.index)
  <1>1. PICK w, p, x, y : w = q \o r /\ p = Append(q, m) \o r /\ x = Len(q) /\ y = Len(r)
    OBVIOUS
  <1>2. IsSeq(Append(q, m))
    BY IsSeqFacts
  <1>3. Len(Append(q, m)) = x + 1 /\ Append(q, m)[x + 1] = m
        /\ \A a \in 1..x : Append(q, m)[a] = q[a]
    <2>1. q \in Seq(Range(q) \cup {m})
      BY SeqWiden DEF IsSeq
    <2>2. QED
      BY <1>1, <2>1
  <1>4. /\ x \in Nat /\ y \in Nat /\ Len(w) = x + y /\ Len(p) = x + 1 + y
        /\ \A a \in 1..x : w[a] = q[a]
        /\ \A k \in 1..y : w[x + k] = r[k]
    BY <1>1, <1>2, <1>3, SeqFacts, ConcatFacts
  <1>5. /\ \A a \in 1..(x + 1) : p[a] = Append(q, m)[a]
        /\ \A k \in 1..y : p[x + 1 + k] = r[k]
    <2>1. PICK z : z = Append(q, m)
      OBVIOUS
    <2>2. IsSeq(z) /\ Len(z) = x + 1 /\ p = z \o r
      BY <1>1, <1>2, <1>3, <2>1
    <2>3. IsSeq(z) /\ IsSeq(r)
      BY <2>2
    <2>4. \A a \in 1..Len(z) : (z \o r)[a] = z[a]
      BY <2>3, ConcatFacts
    <2>5. \A k \in 1..Len(r) : (z \o r)[Len(z) + k] = r[k]
      BY <2>3, ConcatFacts
    <2>6. QED
      BY <1>1, <2>1, <2>2, <2>4, <2>5
  <1>6. p[x + 1] = m /\ \A a \in 1..x : p[a] = w[a]
    BY <1>3, <1>4, <1>5
  <1>7. ASSUME NEW a \in (x + 2)..(x + y + 2), NEW i \in Int, i <= m.index
        PROVE  Ready(n, p, a, i)
    <2>1. x + 1 \in 1..(a - 1)
      BY <1>4, <1>7
    <2>2. p[x + 1].index >= i
      BY <1>6, <1>7
    <2>3. QED
      BY <2>1, <2>2 DEF Ready
  <1>8. ASSUME NEW a \in 1..Len(p), p[a].op # None PROVE Ready(n, p, a, p[a].index - 1)
    <2>1. CASE a <= x
      <3>1. a \in 1..x /\ a \in 1..Len(w) /\ p[a] = w[a] /\ \A b \in 1..(a - 1) : p[b] = w[b]
        BY <1>4, <1>6, <2>1
      <3>2. Ready(n, w, a, p[a].index - 1)
        BY <1>1, <1>8, <3>1 DEF NoGap
      <3>3. QED
        BY <3>1, <3>2 DEF Ready
    <2>2. CASE a = x + 1
      BY <1>6, <1>8, <2>2
    <2>3. CASE a > x + 1
      <3>1. PICK k : k = a - x - 1
        OBVIOUS
      <3>2. a \in Int /\ a <= x + 1 + y
        BY <1>4
      <3>3. k \in 1..y /\ a = x + 1 + k /\ x + k \in 1..Len(w) /\ a \in (x + 2)..(x + y + 2)
        BY <1>4, <2>3, <3>1, <3>2
      <3>4. p[a] = w[x + k]
        BY <1>4, <1>5, <3>3
      <3>5. w[x + k].index \in Nat /\ w[x + k].index < m.index
        BY <1>1, <3>3 DEF Messages
      <3>6. QED
        BY <1>7, <3>3, <3>4, <3>5
    <2>4. QED
      BY <1>4, <2>1, <2>2, <2>3
  <1>9. Ready(n, p, Len(p) + 1, m.index)
    <2>1. Len(p) + 1 \in (x + 2)..(x + y + 2) /\ m.index \in Int /\ m.index <= m.index
      BY <1>4
    <2>2. QED
      BY <1>7, <2>1
  <1>10. QED
    BY <1>1, <1>8, <1>9 DEF NoGap

----------------------------------------------------------------------------
\* A store and an entry of the log.

LEMMA WriteFacts ==
    ASSUME NEW o \in Operation
    PROVE  /\ DOMAIN WriteOf(o) = IF IsGet(o) THEN {} ELSE {What(o).key}
           /\ ~IsGet(o) => WriteOf(o)[What(o).key] = What(o).value
           /\ What(o).key \in Key /\ What(o).value \in Value
  <1>1. o[1] \in Clerk /\ o[2] \in 1..Len(Script[o[1]])
    BY OperationFact
  <1>2. Script[o[1]] \in Seq([op : {"Put", "Append", "Get"}, key : Key, value : Value])
    BY <1>1, ServiceAssumption
  <1>3. What(o) \in [op : {"Put", "Append", "Get"}, key : Key, value : Value]
    <2>1. PICK R : R = [op : {"Put", "Append", "Get"}, key : Key, value : Value]
      OBVIOUS
    <2>2. PICK q, i : q = Script[o[1]] /\ i = o[2]
      OBVIOUS
    <2>3. q \in Seq(R) /\ i \in 1..Len(q)
      BY <1>1, <1>2, <2>1, <2>2
    <2>4. q[i] \in R
      BY <2>3
    <2>5. QED
      BY <2>1, <2>2, <2>4 DEF What
  <1>4. QED
    BY <1>3 DEF WriteOf

LEMMA WrittenFacts ==
    ASSUME NEW l
    PROVE  /\ WrittenBy(l, 0) = {}
           /\ \A n \in Nat : WrittenBy(l, n + 1) = WrittenBy(l, n) \cup DOMAIN WriteOf(l[n + 1])
           /\ \A n, m \in Nat : n <= m => WrittenBy(l, n) \subseteq WrittenBy(l, m)
           /\ \A n \in Nat : \A i \in 1..n : DOMAIN WriteOf(l[i]) \subseteq WrittenBy(l, n)
  <1>1. ASSUME NEW n \in Nat
        PROVE  WrittenBy(l, n + 1) = WrittenBy(l, n) \cup DOMAIN WriteOf(l[n + 1])
    <2>1. 1..(n + 1) = 1..n \cup {n + 1}
      OBVIOUS
    <2>2. QED
      BY <2>1 DEF WrittenBy
  <1>2. ASSUME NEW n \in Nat, NEW m \in Nat, n <= m PROVE WrittenBy(l, n) \subseteq WrittenBy(l, m)
    <2>1. 1..n \subseteq 1..m
      BY <1>2
    <2>2. QED
      BY <2>1 DEF WrittenBy
  <1>3. WrittenBy(l, 0) = {}
    BY DEF WrittenBy
  <1>4. \A n \in Nat : \A i \in 1..n : DOMAIN WriteOf(l[i]) \subseteq WrittenBy(l, n)
    BY DEF WrittenBy
  <1>5. QED
    BY <1>1, <1>2, <1>3, <1>4

\* A table covers only what the first n entries of a log hold.
CoveredIn(l, last, n) ==
    \A c \in Clerk : \A r \in 1..last[c] : \E i \in DOMAIN l : i <= n /\ l[i] = <<c, r>>

\* Entry i of a log is among the first n entries.
IsAmong(l, i, n) == \E j \in 1..Len(l) : j <= n /\ l[j] = l[i]

\* A write is taken for a duplicate if and only if it is in the log before.
LEMMA DuplicateIsRetry ==
    ASSUME NEW l \in Seq(Operation), NEW last \in [Clerk -> Nat], NEW n \in Nat,
           CoversAll(l, last, n), CoveredIn(l, last, n), NEW i \in 1..Len(l), ~IsGet(l[i])
    PROVE  /\ l[i][2] <= last[l[i][1]] <=> IsAmong(l, i, n)
           /\ i <= n => l[i][2] <= last[l[i][1]]
  <1>1. PICK o \in Operation : o = l[i]
    OBVIOUS
  <1>2. o[1] \in Clerk /\ o[2] \in Nat /\ o[2] >= 1 /\ o = <<o[1], o[2]>> /\ last[o[1]] \in Nat
    BY <1>1, OperationFact
  <1>3. DOMAIN l = 1..Len(l) /\ Len(l) \in Nat
    OBVIOUS
  <1>4. ASSUME o[2] <= last[o[1]] PROVE \E j \in 1..Len(l) : j <= n /\ l[j] = o
    <2>1. o[2] \in 1..last[o[1]]
      BY <1>2, <1>4
    <2>2. PICK j \in DOMAIN l : j <= n /\ l[j] = <<o[1], o[2]>>
      BY <1>2, <2>1 DEF CoveredIn
    <2>3. QED
      BY <1>2, <1>3, <2>2
  <1>5. ASSUME NEW j \in 1..Len(l), j <= n, l[j] = o PROVE o[2] <= last[o[1]]
    BY <1>1, <1>3, <1>5 DEF CoversAll
  <1>6. QED
    BY <1>1, <1>4, <1>5 DEF IsAmong

\* An entry that writes nothing, or has been executed.
LEMMA EntrySkipped ==
    ASSUME NEW l \in Seq(Operation), NEW sl, NEW last \in [Clerk -> Nat], NEW n \in Nat,
           StoreHolds(l, sl, last, n), CoveredIn(l, last, n),
           NEW i \in 1..Len(l), i = n + 1, IsGet(l[i]) \/ l[i][2] <= last[l[i][1]]
    PROVE  StoreHolds(l, sl, last, i)
  <1>1. CoversAll(l, last, n) /\ HasKeys(l, DOMAIN sl.value, n) /\ n + 1 <= Len(l)
    BY DEF StoreHolds
  <1>2. l[i] \in Operation
    OBVIOUS
  <1>3. DOMAIN WriteOf(l[i]) \subseteq WrittenBy(l, n)
    <2>1. CASE IsGet(l[i])
      BY <1>2, <2>1, WriteFacts
    <2>2. CASE ~IsGet(l[i])
      <3>1. PICK j \in 1..Len(l) : j <= n /\ l[j] = l[i]
        BY <1>1, <2>2, DuplicateIsRetry DEF IsAmong
      <3>2. j \in 1..n
        BY <3>1
      <3>3. DOMAIN WriteOf(l[j]) \subseteq WrittenBy(l, n)
        BY <3>2, WrittenFacts
      <3>4. QED
        BY <3>1, <3>3
    <2>3. QED
      BY <2>1, <2>2
  <1>4. WrittenBy(l, n + 1) = WrittenBy(l, n)
    <2>1. WrittenBy(l, n + 1) = WrittenBy(l, n) \cup DOMAIN WriteOf(l[n + 1])
      BY WrittenFacts
    <2>2. QED
      BY <1>3, <2>1
  <1>5. HasKeys(l, DOMAIN sl.value, n + 1)
    BY <1>1, <1>4 DEF HasKeys
  <1>6. CoversAll(l, last, n + 1)
    <2>1. ASSUME NEW k \in DOMAIN l, k <= n + 1, ~IsGet(l[k]) PROVE l[k][2] <= last[l[k][1]]
      <3>1. CASE k <= n
        BY <1>1, <2>1, <3>1 DEF CoversAll
      <3>2. CASE k = n + 1
        BY <2>1, <3>2
      <3>3. QED
        BY <2>1, <3>1, <3>2
    <2>2. QED
      BY <2>1 DEF CoversAll
  <1>7. QED
    BY <1>5, <1>6 DEF StoreHolds

\* A write that the store (sl, last) does not have turns it into (new, t).
Executes(l, sl, last, n, o, new, t) ==
    /\ l \in Seq(Operation) /\ last \in [Clerk -> Nat] /\ n \in Nat
    /\ StoreHolds(l, sl, last, n) /\ CoveredIn(l, last, n)
    /\ n + 1 \in 1..Len(l) /\ o = l[n + 1] /\ ~IsGet(o) /\ ~(o[2] <= last[o[1]])
    /\ \E level \in Levels : new = insert_set_element(sl, What(o).key, What(o).value, level)
    /\ t = [last EXCEPT ![o[1]] = o[2]]

LEMMA EntryExecuted ==
    ASSUME NEW l, NEW sl, NEW last, NEW n, NEW o, NEW new, NEW t, Executes(l, sl, last, n, o, new, t)
    PROVE  /\ StoreHolds(l, new, t, n + 1)
           /\ new.value = With(sl.value, What(o).key, What(o).value)
  <1> USE DEF Executes
  <1>15. PICK level \in Levels : new = insert_set_element(sl, What(o).key, What(o).value, level)
    OBVIOUS
  <1>1. CoversAll(l, last, n) /\ HasKeys(l, DOMAIN sl.value, n) /\ n + 1 <= Len(l) /\ ListOK(sl)
    BY DEF StoreHolds
  <1>2. o \in Operation /\ level \in get_random_level
    BY <1>15, ServiceAssumption
  <1>3. PICK k, v : k = What(o).key /\ v = What(o).value
    OBVIOUS
  <1>4. k \in Key /\ v \in Value /\ DOMAIN WriteOf(o) = {k}
    BY <1>2, <1>3, WriteFacts
  <1>6. ListOK(new) /\ new.value = With(sl.value, k, v)
    BY <1>1, <1>2, <1>3, <1>4, <1>15, SetOK
  <1>7. /\ DOMAIN new.value = DOMAIN sl.value \cup {k}
        /\ \A x \in DOMAIN new.value : new.value[x] = IF x = k THEN v ELSE sl.value[x]
    BY <1>6 DEF With
  <1>8. \A x \in DOMAIN new.value : new.value[x] \in Value \cup Key
    BY <1>4, <1>7 DEF StoreHolds
  <1>9. HasKeys(l, DOMAIN new.value, n + 1)
    <2>1. WrittenBy(l, n + 1) = WrittenBy(l, n) \cup {k}
      BY <1>4, WrittenFacts
    <2>2. WrittenBy(l, n + 1) \subseteq WrittenBy(l, Len(l))
      <3>1. n + 1 \in Nat /\ Len(l) \in Nat
        OBVIOUS
      <3>2. QED
        BY <1>1, <3>1, WrittenFacts
    <2>3. QED
      BY <1>1, <1>7, <2>1, <2>2 DEF HasKeys
  <1>11. o[1] \in Clerk /\ o[2] \in Nat
    BY <1>2, OperationFact
  <1>12. t[o[1]] = o[2] /\ \A c \in Clerk : last[c] \in Nat /\ t[c] \in Nat /\ last[c] <= t[c]
    BY <1>11
  <1>13. CoversAll(l, t, n + 1)
    <2>1. ASSUME NEW j \in DOMAIN l, j <= n + 1, ~IsGet(l[j]) PROVE l[j][2] <= t[l[j][1]]
      <3>1. l[j] \in Operation /\ l[j][1] \in Clerk /\ l[j][2] \in Nat
        BY OperationFact
      <3>2. CASE j <= n
        <4>1. l[j][2] <= last[l[j][1]]
          BY <1>1, <2>1, <3>2 DEF CoversAll
        <4>2. QED
          BY <1>12, <3>1, <4>1
      <3>3. CASE j = n + 1
        <4>1. l[j] = o
          BY <3>3
        <4>2. QED
          BY <1>11, <1>12, <4>1
      <3>4. QED
        BY <2>1, <3>2, <3>3
    <2>2. QED
      BY <2>1 DEF CoversAll
  <1>14. StoreHolds(l, new, t, n + 1)
    BY <1>6, <1>8, <1>9, <1>13 DEF StoreHolds
  <1>16. QED
    BY <1>3, <1>6, <1>14

\* A list that takes a snapshot over becomes new.
TakesOver(l, sl, snapshot, new) ==
    /\ l \in Seq(Operation) /\ ListOK(sl)
    /\ \A k \in DOMAIN sl.value : sl.value[k] \in Value \cup Key
    /\ DOMAIN sl.value \subseteq WrittenBy(l, Len(l))
    /\ SnapshotHolds(l, snapshot)
    /\ \E levels \in LevelsFor(snapshot.dump, Levels) : new = load_file(sl, snapshot.dump, levels)

LEMMA SnapshotLoaded ==
    ASSUME NEW l, NEW sl, NEW snapshot, NEW new, TakesOver(l, sl, snapshot, new)
    PROVE  StoreHolds(l, new, snapshot.last, snapshot.at)
  <1> USE DEF TakesOver
  <1>1. PICK keys : keys = snapshot.dump.keyDumpVt_
    OBVIOUS
  <1>10. PICK levels \in LevelsFor(snapshot.dump, Levels) : new = load_file(sl, snapshot.dump, levels)
    OBVIOUS
  <1>2. /\ snapshot \in Snapshot /\ HasKeys(l, Range(keys), snapshot.at)
        /\ CoversAll(l, snapshot.last, snapshot.at)
    BY <1>1 DEF SnapshotHolds
  <1>3. keys \in Seq(Key)
    BY <1>1, <1>2 DEF Snapshot
  <1>4. levels \in LevelsFor(snapshot.dump, get_random_level)
    <2>1. PICK D : D = DOMAIN snapshot.dump.keyDumpVt_
      OBVIOUS
    <2>2. levels \in [D -> Levels]
      BY <1>10, <2>1 DEF LevelsFor
    <2>3. levels \in [D -> get_random_level]
      BY <2>2, ServiceAssumption
    <2>4. QED
      BY <2>1, <2>3 DEF LevelsFor
  <1>5. /\ ListOK(new) /\ DOMAIN new.value = DOMAIN sl.value \cup Range(keys)
        /\ \A k \in DOMAIN new.value : new.value[k] = IF k \in DOMAIN sl.value THEN sl.value[k] ELSE k
    BY <1>1, <1>3, <1>4, <1>10, LoadOK
  <1>6. Range(keys) \subseteq Key
    BY <1>3, RangeFacts
  <1>7. \A k \in DOMAIN new.value : new.value[k] \in Value \cup Key
    BY <1>5, <1>6
  <1>8. HasKeys(l, DOMAIN new.value, snapshot.at)
    BY <1>2, <1>5 DEF HasKeys
  <1>9. QED
    BY <1>1, <1>2, <1>5, <1>7, <1>8 DEF StoreHolds

----------------------------------------------------------------------------
\* The apply loop.

LEMMA CoveredOf ==
    ASSUME CommitInv, RecentInv, NEW s \in Server
    PROVE  /\ log \in Seq(Operation) /\ m_last_RequestId[s] \in [Clerk -> Nat]
           /\ CoveredIn(log, m_last_RequestId[s], reflected[s])
           /\ reflected[s] \in Nat
  <1>1. log \in Seq(Operation)
    BY DEF CommitInv, LogInv
  <1>2. m_last_RequestId[s] \in [Clerk -> Nat]
    BY DeliveryOf DEF CommitInv, DeliveryAt, TableInv
  <1>3. CoveredIn(log, m_last_RequestId[s], reflected[s])
    BY RecentOf DEF StoreAt, CoveredBy, CoveredIn
  <1>4. QED
    BY <1>1, <1>2, <1>3, ServerTypes

LEMMA HeadFacts ==
    ASSUME CommitInv, RecentInv, ReplicaInv, NEW s \in Server, applyChan[s] # << >>,
           NEW m, m = Head(applyChan[s])
    PROVE  /\ m \in Range(applyChan[s]) /\ m.index \in Nat
           /\ m.op # None => /\ m.op \in Operation /\ m.index \in 1..Len(log) /\ log[m.index] = m.op
                             /\ m.index <= reflected[s] + 1
           /\ \A new \in Nat : new >= m.index /\ (m.op # None => new >= reflected[s])
                  => NoGap(new, Tail(applyChan[s]) \o hand[s], lastApplied[s])
  <1>1. PICK x, y, q : x = applyChan[s] /\ y = hand[s] /\ q = Coming(s)
    OBVIOUS
  <1>2. q = x \o y
    BY <1>1 DEF Coming
  <1>3. /\ Messages(q) /\ Len(q) \in Nat /\ IsSeq(x) /\ IsSeq(y)
        /\ \A a, b \in 1..Len(q) : a < b /\ q[b].op = None => q[a].index < q[b].index
    BY <1>1, ComingFacts
  <1>4. /\ m \in Range(x) /\ (m.op = None => m.index \in Nat) /\ (m.op # None => EntryInv(m))
    BY <1>1, ChannelHead DEF CommitInv
  <1>5. m.index \in Nat
    BY <1>4 DEF EntryInv
  <1>6. x \in Seq(Range(x) \cup Range(y)) /\ y \in Seq(Range(x) \cup Range(y)) /\ x # << >>
    BY <1>1, <1>3, SeqWiden DEF IsSeq
  <1>7. q # << >> /\ q[1] = m /\ 1 \in 1..Len(q)
    <2>1. Len(x) > 0 /\ m = x[1]
      BY <1>1, <1>6
    <2>2. QED
      BY <1>2, <1>6, <2>1
  <1>8. Tail(q) = Tail(x) \o y
    BY <1>2, <1>6
  <1>9. NoGap(reflected[s], q, lastApplied[s]) /\ reflected[s] \in Nat /\ lastApplied[s] \in Nat
    BY <1>1, ReplicaOf, ServerTypes DEF ReplicaAt
  <1>10. ASSUME m.op # None
         PROVE  m.op \in Operation /\ m.index \in 1..Len(log) /\ log[m.index] = m.op
    BY <1>4, <1>10, LogTypes DEF EntryInv, IsEntry
  <1>11. ASSUME m.op # None PROVE m.index <= reflected[s] + 1
    <2>1. Ready(reflected[s], q, 1, m.index - 1)
      BY <1>7, <1>9, <1>11 DEF NoGap
    <2>2. \A b : b \notin 1..(1 - 1)
      OBVIOUS
    <2>3. m.index - 1 <= reflected[s]
      BY <2>1, <2>2 DEF Ready
    <2>4. QED
      BY <1>5, <1>9, <2>3
  <1>12. \A b \in 1..Len(q) : 1 < b /\ q[b].op = None => q[1].index < q[b].index
    BY <1>3, <1>7
  <1>13. ASSUME NEW new \in Nat, new >= m.index, m.op # None => new >= reflected[s]
         PROVE  NoGap(new, Tail(q), lastApplied[s])
    <2>1. PICK n, applied : n = reflected[s] /\ applied = lastApplied[s]
      OBVIOUS
    <2>2. n \in Nat /\ applied \in Nat /\ NoGap(n, q, applied)
      BY <1>9, <2>1
    <2>3. new >= q[1].index /\ (q[1].op # None => new >= n)
      BY <1>7, <1>13, <2>1
    <2>4. QED
      BY <1>3, <1>7, <1>12, <2>1, <2>2, <2>3, NoGapPop
  <1>14. QED
    BY <1>1, <1>4, <1>5, <1>8, <1>10, <1>11, <1>13

\* The store gets an entry: it is there already, or the next one.
LEMMA GetCommandReplica ==
    ASSUME CommitInv, RecentInv, ReplicaInv, NEW s \in Server, ReadRaftApplyCommandLoop(s),
           NEW m, m = Head(applyChan[s]), m.op # None
    PROVE  /\ StoreHolds(log, m_skipList'[s], m_last_RequestId'[s], reflected'[s])
           /\ reflected'[s] \in Nat /\ reflected'[s] >= reflected[s] /\ reflected'[s] >= m.index
           /\ UNCHANGED m_lastSnapShotRaftLogIndex
           /\ DOMAIN m_skipList' = Server
           /\ \A t \in Server : t # s => /\ m_skipList'[t] = m_skipList[t]
                                         /\ m_last_RequestId'[t] = m_last_RequestId[t]
                                         /\ reflected'[t] = reflected[t]
           /\ \/ UNCHANGED <<m_skipList, reflected>>
              \/ /\ m.index = reflected[s] + 1 /\ m.index \in 1..Len(log) /\ log[m.index] = m.op
                 /\ reflected' = [reflected EXCEPT ![s] = m.index]
                 /\ \/ /\ IsGet(m.op) \/ m.op[2] <= m_last_RequestId[s][m.op[1]]
                       /\ UNCHANGED m_skipList
                    \/ /\ ~IsGet(m.op) /\ ~(m.op[2] <= m_last_RequestId[s][m.op[1]])
                       /\ m_skipList'[s].value = With(m_skipList[s].value, What(m.op).key, What(m.op).value)
  <1>1. applyChan[s] # << >> /\ GetCommandFromRaft(s, m)
    BY DEF ReadRaftApplyCommandLoop
  <1>2. PICK l, sl, last, n, i, o : l = log /\ sl = m_skipList[s] /\ last = m_last_RequestId[s]
            /\ n = reflected[s] /\ i = m.index /\ o = m.op
    OBVIOUS
  <1>3. l \in Seq(Operation) /\ last \in [Clerk -> Nat] /\ CoveredIn(l, last, n) /\ n \in Nat
    BY <1>2, CoveredOf
  <1>4. i \in Nat /\ o \in Operation /\ i \in 1..Len(l) /\ l[i] = o /\ i <= n + 1
    BY <1>1, <1>2, HeadFacts
  <1>5. /\ StoreHolds(l, sl, last, n) /\ DOMAIN m_skipList = Server
        /\ m_lastSnapShotRaftLogIndex[s] <= n
    BY <1>2, ReplicaOf DEF ReplicaAt
  <1>6. DOMAIN m_last_RequestId = Server /\ DOMAIN reflected = Server /\ m_lastSnapShotRaftLogIndex[s] \in Nat
    BY ServerTypes
  <1>7. UNCHANGED m_lastSnapShotRaftLogIndex
    BY <1>1 DEF GetCommandFromRaft
  <1>8. CASE i <= m_lastSnapShotRaftLogIndex[s]
    <2>1. UNCHANGED <<m_skipList, m_last_RequestId, reflected>>
      BY <1>1, <1>2, <1>8 DEF GetCommandFromRaft
    <2>2. n >= i
      BY <1>3, <1>4, <1>5, <1>6, <1>8
    <2>3. QED
      BY <1>2, <1>3, <1>5, <1>7, <2>1, <2>2
  <1>9. CASE ~(i <= m_lastSnapShotRaftLogIndex[s])
    <2>1. /\ reflected' = [reflected EXCEPT ![s] = IF i > n THEN i ELSE n]
          /\ IF IsGet(o) \/ o[2] <= last[o[1]] THEN UNCHANGED <<m_skipList, m_last_RequestId>>
             ELSE \E level \in Levels : ExecutePutOpOnKVDB(s, o, level)
      BY <1>1, <1>2, <1>9 DEF GetCommandFromRaft, ifRequestDuplicate
    <2>2. CASE i <= n
      <3>1. IsGet(o) \/ o[2] <= last[o[1]]
        <4>1. CoversAll(l, last, n)
          BY <1>5 DEF StoreHolds
        <4>2. QED
          BY <1>3, <1>4, <2>2, <4>1, DuplicateIsRetry
      <3>2. UNCHANGED <<m_skipList, m_last_RequestId>>
        BY <2>1, <3>1
      <3>3. reflected' = [reflected EXCEPT ![s] = n]
        <4>1. (IF i > n THEN i ELSE n) = n
          BY <1>3, <1>4, <2>2
        <4>2. QED
          BY <2>1, <4>1
      <3>4. reflected'[s] = n /\ \A t \in Server : t # s => reflected'[t] = reflected[t]
        BY <1>6, <3>3
      <3>5. UNCHANGED reflected
        <4>1. reflected \in [Server -> Nat]
          BY DEF CommitInv, DeliveryInv, DeliveryTypes
        <4>2. QED
          BY <1>2, <3>3, <4>1
      <3>6. QED
        BY <1>2, <1>3, <1>4, <1>5, <1>7, <2>2, <3>2, <3>4, <3>5
    <2>3. CASE i > n
      <3>1. i = n + 1
        BY <1>3, <1>4, <2>3
      <3>2. reflected' = [reflected EXCEPT ![s] = i]
        BY <2>1, <2>3
      <3>3. reflected'[s] = i /\ \A t \in Server : t # s => reflected'[t] = reflected[t]
        BY <1>6, <3>2
      <3>4. i \in Nat /\ i >= n /\ i >= i
        BY <1>3, <1>4, <3>1
      <3>5. CASE IsGet(o) \/ o[2] <= last[o[1]]
        <4>1. UNCHANGED <<m_skipList, m_last_RequestId>>
          BY <2>1, <3>5
        <4>2. StoreHolds(l, sl, last, i)
          BY <1>3, <1>4, <1>5, <3>1, <3>5, EntrySkipped
        <4>3. QED
          BY <1>2, <1>4, <1>5, <1>7, <3>1, <3>2, <3>3, <3>4, <3>5, <4>1, <4>2
      <3>6. CASE ~IsGet(o) /\ ~(o[2] <= last[o[1]])
        <4>1. PICK level \in Levels : ExecutePutOpOnKVDB(s, o, level)
          BY <2>1, <3>6
        <4>2. PICK new, t : /\ new = insert_set_element(sl, What(o).key, What(o).value, level)
                            /\ t = [last EXCEPT ![o[1]] = o[2]]
          OBVIOUS
        <4>3. /\ m_skipList' = [m_skipList EXCEPT ![s] = new]
              /\ m_last_RequestId' = [m_last_RequestId EXCEPT ![s] = t]
          BY <1>2, <1>5, <1>6, <4>1, <4>2 DEF ExecutePutOpOnKVDB
        <4>4. StoreHolds(l, new, t, i) /\ new.value = With(sl.value, What(o).key, What(o).value)
          <5>1. o = l[n + 1] /\ n + 1 \in 1..Len(l)
            BY <1>4, <3>1
          <5>2. Executes(l, sl, last, n, o, new, t)
            BY <1>3, <1>5, <3>6, <4>1, <4>2, <5>1 DEF Executes
          <5>3. QED
            BY <3>1, <5>2, EntryExecuted
        <4>5. /\ m_skipList'[s] = new /\ m_last_RequestId'[s] = t /\ DOMAIN m_skipList' = Server
              /\ \A u \in Server : u # s => /\ m_skipList'[u] = m_skipList[u]
                                            /\ m_last_RequestId'[u] = m_last_RequestId[u]
          BY <1>5, <1>6, <4>3
        <4>6. QED
          BY <1>2, <1>4, <1>7, <3>1, <3>2, <3>3, <3>4, <3>6, <4>4, <4>5
      <3>7. QED
        BY <3>5, <3>6
    <2>4. QED
      BY <1>3, <1>4, <2>2, <2>3
  <1>10. QED
    BY <1>8, <1>9

\* parseFromString puts a snapshot into a list of server s.
LEMMA ParseReplica ==
    ASSUME CommitInv, DOMAIN m_skipList = Server, NEW s \in Server, NEW sl, ListOK(sl),
           \A k \in DOMAIN sl.value : sl.value[k] \in Value \cup Key,
           DOMAIN sl.value \subseteq WrittenBy(log, Len(log)),
           NEW sn, SnapshotHolds(log, sn), parseFromString(s, sl, sn)
    PROVE  /\ StoreHolds(log, m_skipList'[s], sn.last, sn.at)
           /\ m_last_RequestId'[s] = sn.last /\ reflected'[s] = sn.at
           /\ sn.at \in Nat /\ sn.at <= Len(log)
           /\ DOMAIN m_skipList' = Server
           /\ \A t \in Server : t # s => /\ m_skipList'[t] = m_skipList[t]
                                         /\ m_last_RequestId'[t] = m_last_RequestId[t]
                                         /\ reflected'[t] = reflected[t]
           /\ reflected' = [reflected EXCEPT ![s] = sn.at]
  <1>1. PICK levels \in LevelsFor(sn.dump, Levels) :
            m_skipList' = [m_skipList EXCEPT ![s] = load_file(sl, sn.dump, levels)]
    BY DEF parseFromString
  <1>2. PICK new, l : new = load_file(sl, sn.dump, levels) /\ l = log
    OBVIOUS
  <1>3. l \in Seq(Operation)
    BY <1>2 DEF CommitInv, LogInv
  <1>4. StoreHolds(l, new, sn.last, sn.at)
    <2>1. TakesOver(l, sl, sn, new)
      BY <1>1, <1>2, <1>3 DEF TakesOver
    <2>2. QED
      BY <2>1, SnapshotLoaded
  <1>5. /\ DOMAIN m_last_RequestId = Server /\ DOMAIN reflected = Server
        /\ m_last_RequestId' = [m_last_RequestId EXCEPT ![s] = sn.last]
        /\ reflected' = [reflected EXCEPT ![s] = sn.at]
    BY ServerTypes DEF parseFromString
  <1>6. /\ m_skipList'[s] = new /\ DOMAIN m_skipList' = Server
        /\ \A t \in Server : t # s => m_skipList'[t] = m_skipList[t]
    BY <1>1, <1>2
  <1>7. sn.at \in Nat
    BY DEF SnapshotHolds, Snapshot
  <1>8. HasKeys(log, Range(sn.dump.keyDumpVt_), sn.at)
    BY DEF SnapshotHolds
  <1>9. QED
    BY <1>2, <1>4, <1>5, <1>6, <1>7, <1>8 DEF HasKeys

\* What ReadRaftApplyCommandLoop leaves of server s, whatever the message is.
LEMMA LoopReplica ==
    ASSUME CommitInv, RecentInv, ReplicaInv, NEW s \in Server, ReadRaftApplyCommandLoop(s),
           NEW m, m = Head(applyChan[s]),
           StoreHolds(log, m_skipList'[s], m_last_RequestId'[s], reflected'[s]),
           reflected'[s] \in Nat, reflected'[s] >= m.index, m.op # None => reflected'[s] >= reflected[s],
           m_lastSnapShotRaftLogIndex'[s] <= reflected'[s],
           DOMAIN m_skipList' = Server,
           \A t \in Server : t # s =>
               /\ m_skipList'[t] = m_skipList[t]
               /\ m_last_RequestId'[t] = m_last_RequestId[t]
               /\ reflected'[t] = reflected[t]
               /\ m_lastSnapShotRaftLogIndex'[t] = m_lastSnapShotRaftLogIndex[t]
    PROVE  ReplicaInv'
  <1>1. /\ UNCHANGED <<log, lastApplied, hand, m_lastSnapshotIndex, snapshotFile>>
        /\ applyChan' = [applyChan EXCEPT ![s] = Tail(@)] /\ applyChan[s] # << >> /\ loop[s] = None
    BY DEF ReadRaftApplyCommandLoop, raftVars, nodeVars
  <1>2. \/ UNCHANGED loop
        \/ \E i, o : loop' = [loop EXCEPT ![s] = [op |-> o, index |-> i, pc |-> "executed"]]
    <2>1. GetCommandFromRaft(s, m) \/ GetSnapShotFromRaft(s, m)
      BY DEF ReadRaftApplyCommandLoop
    <2>2. CASE GetCommandFromRaft(s, m)
      BY <2>2 DEF GetCommandFromRaft
    <2>3. CASE GetSnapShotFromRaft(s, m)
      BY <2>3 DEF GetSnapShotFromRaft
    <2>4. QED
      BY <2>1, <2>2, <2>3
  <1>3. /\ DOMAIN applyChan = Server /\ DOMAIN loop = Server
    BY ServerTypes
  <1>4. loop'[s] # None => loop'[s].pc # "saved"
    BY <1>1, <1>2, <1>3
  <1>5. \A t \in Server : t # s => loop'[t] = loop[t] /\ applyChan'[t] = applyChan[t]
    BY <1>1, <1>2, <1>3
  <1>6. \A t \in Server : t # s => ReplicaSame(t)
    BY <1>1, <1>5 DEF ReplicaSame, HasSnapshot
  <1>7. HasSnapshot(s)' => HasSnapshot(s)
    BY <1>1, <1>4 DEF HasSnapshot
  <1>8. applyChan'[s] = Tail(applyChan[s])
    BY <1>1, <1>3
  <1>9. Range(applyChan'[s]) \subseteq Range(applyChan[s])
    BY <1>1, <1>8, ChannelHead DEF CommitInv
  <1>10. SnapshotsAt(s)'
    BY <1>1, <1>7, <1>9, ReplicaOf DEF ReplicaAt, SnapshotsAt
  <1>11. Coming(s)' = Tail(applyChan[s]) \o hand[s]
    BY <1>1, <1>8 DEF Coming
  <1>12. NoGap(reflected'[s], Tail(applyChan[s]) \o hand[s], lastApplied[s])
    BY <1>1, HeadFacts
  <1>13. NoGap(reflected[s], Coming(s), lastApplied[s])'
    BY <1>1, <1>11, <1>12
  <1>14. ReplicaAt(s)'
    BY <1>1, <1>10, <1>13 DEF ReplicaAt
  <1>15. QED
    BY <1>1, <1>6, <1>14, ReplicaStep

LEMMA GetSnapShotReplica ==
    ASSUME CommitInv, RecentInv, ReplicaInv, NEW s \in Server, ReadRaftApplyCommandLoop(s),
           NEW m, m = Head(applyChan[s]), m.op = None
    PROVE  /\ SnapshotHolds(log, m.snapshot) /\ parseFromString(s, m_skipList[s], m.snapshot)
           /\ m.index <= m.snapshot.at
           /\ m_lastSnapShotRaftLogIndex' = [m_lastSnapShotRaftLogIndex EXCEPT ![s] = m.index]
           /\ ListOK(m_skipList[s]) /\ DOMAIN m_skipList = Server
           /\ \A k \in DOMAIN m_skipList[s].value : m_skipList[s].value[k] \in Value \cup Key
           /\ DOMAIN m_skipList[s].value \subseteq WrittenBy(log, Len(log))
  <1>1. applyChan[s] # << >> /\ GetSnapShotFromRaft(s, m)
    BY DEF ReadRaftApplyCommandLoop
  <1>2. m \in Range(applyChan[s])
    BY <1>1, HeadFacts
  <1>3. SnapshotHolds(log, m.snapshot)
    BY <1>2, ReplicaOf DEF ReplicaAt, SnapshotsAt
  <1>4. m.index <= m.snapshot.at
    BY <1>2, RecentOf DEF StoreAt, CoveredFrom
  <1>5. StoreHolds(log, m_skipList[s], m_last_RequestId[s], reflected[s]) /\ DOMAIN m_skipList = Server
    BY ReplicaOf DEF ReplicaAt
  <1>6. QED
    BY <1>1, <1>3, <1>4, <1>5 DEF GetSnapShotFromRaft, StoreHolds, HasKeys

LEMMA ReadLoopReplica ==
    ASSUME CommitInv, RecentInv, ReplicaInv, NEW s \in Server, ReadRaftApplyCommandLoop(s)
    PROVE  ReplicaInv'
  <1>1. PICK m : m = Head(applyChan[s])
    OBVIOUS
  <1>2. applyChan[s] # << >>
    BY DEF ReadRaftApplyCommandLoop
  <1>3. m.index \in Nat
    BY <1>1, <1>2, HeadFacts
  <1>4. CASE m.op # None
    <2>1. m_lastSnapShotRaftLogIndex[s] <= reflected[s] /\ reflected[s] \in Nat
          /\ m_lastSnapShotRaftLogIndex[s] \in Nat
      BY ReplicaOf, ServerTypes DEF ReplicaAt
    <2>2. /\ StoreHolds(log, m_skipList'[s], m_last_RequestId'[s], reflected'[s])
          /\ reflected'[s] \in Nat /\ reflected'[s] >= reflected[s] /\ reflected'[s] >= m.index
          /\ UNCHANGED m_lastSnapShotRaftLogIndex
          /\ DOMAIN m_skipList' = Server
          /\ \A t \in Server : t # s => /\ m_skipList'[t] = m_skipList[t]
                                        /\ m_last_RequestId'[t] = m_last_RequestId[t]
                                        /\ reflected'[t] = reflected[t]
      BY <1>1, <1>4, GetCommandReplica
    <2>3. m_lastSnapShotRaftLogIndex'[s] <= reflected'[s]
      BY <2>1, <2>2
    <2>4. QED
      BY <1>1, <2>2, <2>3, LoopReplica
  <1>5. CASE m.op = None
    <2>1. PICK sn : sn = m.snapshot
      OBVIOUS
    <2>2. /\ SnapshotHolds(log, sn) /\ parseFromString(s, m_skipList[s], sn) /\ m.index <= sn.at
          /\ m_lastSnapShotRaftLogIndex' = [m_lastSnapShotRaftLogIndex EXCEPT ![s] = m.index]
          /\ ListOK(m_skipList[s]) /\ DOMAIN m_skipList = Server
          /\ \A k \in DOMAIN m_skipList[s].value : m_skipList[s].value[k] \in Value \cup Key
          /\ DOMAIN m_skipList[s].value \subseteq WrittenBy(log, Len(log))
      BY <1>1, <1>5, <2>1, GetSnapShotReplica
    <2>3. /\ StoreHolds(log, m_skipList'[s], sn.last, sn.at)
          /\ m_last_RequestId'[s] = sn.last /\ reflected'[s] = sn.at /\ sn.at \in Nat
          /\ DOMAIN m_skipList' = Server
          /\ \A t \in Server : t # s => /\ m_skipList'[t] = m_skipList[t]
                                        /\ m_last_RequestId'[t] = m_last_RequestId[t]
                                        /\ reflected'[t] = reflected[t]
      BY <2>2, ParseReplica
    <2>4. DOMAIN m_lastSnapShotRaftLogIndex = Server
      BY DEF CommitInv, DeliveryInv, DeliveryTypes
    <2>5. /\ m_lastSnapShotRaftLogIndex'[s] = m.index
          /\ \A t \in Server : t # s => m_lastSnapShotRaftLogIndex'[t] = m_lastSnapShotRaftLogIndex[t]
      BY <2>2, <2>4
    <2>6. m_lastSnapShotRaftLogIndex'[s] <= reflected'[s] /\ reflected'[s] >= m.index
      BY <1>3, <2>2, <2>3, <2>5
    <2>7. QED
      BY <1>1, <1>5, <2>3, <2>5, <2>6, LoopReplica
  <1>6. QED
    BY <1>4, <1>5

\* What MakeSnapShot writes is what the store reflects.
LEMMA SnapshotTaken ==
    ASSUME CommitInv, NEW s \in Server, ReplicaAt(s)
    PROVE  SnapshotHolds(log, getSnapShotData(s))
  <1>1. PICK sl, last, n : sl = m_skipList[s] /\ last = m_last_RequestId[s] /\ n = reflected[s]
    OBVIOUS
  <1>2. StoreHolds(log, sl, last, n)
    BY <1>1 DEF ReplicaAt
  <1>3. PICK dump, keys : dump = dump_file(sl) /\ keys = dump.keyDumpVt_
    OBVIOUS
  <1>4. IsChain(keys, DOMAIN sl.value) /\ DOMAIN sl.value \subseteq Key
    BY <1>2, <1>3, DumpFacts DEF StoreHolds, ListOK, HoldsKeys
  <1>5. Range(keys) = DOMAIN sl.value /\ keys \in Seq(DOMAIN sl.value) /\ keys = Chain(sl, 0)
    <2>1. keys \in Seq(DOMAIN sl.value) /\ \A x \in DOMAIN sl.value : \E j \in 1..Len(keys) : keys[j] = x
      BY <1>4 DEF IsChain
    <2>2. DOMAIN keys = 1..Len(keys) /\ \A j \in 1..Len(keys) : keys[j] \in DOMAIN sl.value
      BY <2>1
    <2>3. Range(keys) = DOMAIN sl.value
      BY <2>1, <2>2 DEF Range
    <2>4. QED
      BY <1>3, <2>1, <2>3 DEF dump_file
  <1>6. keys \in Seq(Key)
    BY <1>4, <1>5, SeqWiden
  <1>7. PICK len \in Nat : DOMAIN keys = 1..len
    BY <1>5
  <1>8. dump = [keyDumpVt_ |-> keys, valDumpVt_ |-> [j \in DOMAIN keys |-> sl.value[keys[j]]]]
    BY <1>3, <1>5 DEF dump_file
  <1>9. \A j \in DOMAIN keys : sl.value[keys[j]] \in Value \cup Key
    <2>1. \A j \in DOMAIN keys : keys[j] \in DOMAIN sl.value
      BY <1>5
    <2>2. QED
      BY <1>2, <2>1 DEF StoreHolds
  <1>10. PICK vals : vals = [j \in DOMAIN keys |-> sl.value[keys[j]]]
    OBVIOUS
  <1>11. vals \in Seq(Value \cup Key)
    BY <1>7, <1>9, <1>10
  <1>12. dump \in [keyDumpVt_ : Seq(Key), valDumpVt_ : Seq(Value \cup Key)]
    BY <1>6, <1>8, <1>10, <1>11
  <1>13. last \in [Clerk -> Nat] /\ n \in Nat
    BY <1>1, DeliveryOf, ServerTypes DEF CommitInv, DeliveryAt, TableInv
  <1>14. PICK sn : sn = [dump |-> dump, last |-> last, at |-> n]
    OBVIOUS
  <1>15. sn \in Snapshot
    BY <1>12, <1>13, <1>14 DEF Snapshot
  <1>16. sn.dump = dump /\ sn.last = last /\ sn.at = n
    BY <1>14
  <1>17. HasKeys(log, Range(sn.dump.keyDumpVt_), sn.at) /\ CoversAll(log, sn.last, sn.at)
    BY <1>2, <1>3, <1>5, <1>16 DEF StoreHolds
  <1>18. sn = getSnapShotData(s)
    BY <1>1, <1>3, <1>14 DEF getSnapShotData
  <1>19. QED
    BY <1>15, <1>17, <1>18 DEF SnapshotHolds

LEMMA MakeSnapShotReplica ==
    ASSUME CommitInv, ReplicaInv, NEW s \in Server, MakeSnapShot(s)
    PROVE  ReplicaInv'
  <1>1. PICK sn : sn = getSnapShotData(s)
    OBVIOUS
  <1>2. /\ UNCHANGED <<log, nodeVars, applyChan, storeVars>>
        /\ snapshotFile' = [snapshotFile EXCEPT ![s] = sn]
        /\ loop' = [loop EXCEPT ![s].pc = "saved"]
    BY <1>1 DEF MakeSnapShot, raftVars
  <1>3. DOMAIN snapshotFile = Server /\ DOMAIN loop = Server
    BY ServerTypes
  <1>4. \A t \in Server : t # s => snapshotFile'[t] = snapshotFile[t] /\ loop'[t] = loop[t]
    BY <1>2, <1>3
  <1>5. \A t \in Server : t # s => ReplicaSame(t)
    BY <1>2, <1>4 DEF ReplicaSame, HasSnapshot, storeVars, nodeVars
  <1>6. ReplicaAt(s) /\ SnapshotHolds(log, sn)
    BY <1>1, ReplicaOf, SnapshotTaken
  <1>7. SnapshotHolds(log', snapshotFile'[s])
    BY <1>2, <1>3, <1>6
  <1>8. SnapshotsAt(s)'
    BY <1>2, <1>6, <1>7 DEF ReplicaAt, SnapshotsAt
  <1>9. ReplicaAt(s)'
    BY <1>2, <1>6, <1>8 DEF ReplicaAt, Coming, storeVars, nodeVars
  <1>10. DOMAIN m_skipList' = Server
    BY <1>2 DEF ReplicaInv, storeVars
  <1>11. QED
    BY <1>2, <1>5, <1>9, <1>10, ReplicaStep

LEMMA LoopStepReplica ==
    ASSUME CommitInv, RecentInv, ReplicaInv, LoopStep
    PROVE  ReplicaInv'
  <1>1. PICK s \in Server : \/ ReadRaftApplyCommandLoop(s) \/ MakeSnapShot(s)
                            \/ PersistSnapshotIndex(s) \/ SendMessageToWaitChan(s)
    BY DEF LoopStep
  <1>2. CASE PersistSnapshotIndex(s) \/ SendMessageToWaitChan(s)
    <2>1. /\ UNCHANGED <<log, lastApplied, hand, snapshotFile, applyChan, storeVars>>
      BY <1>2 DEF PersistSnapshotIndex, SendMessageToWaitChan, raftVars, nodeVars
    <2>2. DOMAIN m_lastSnapshotIndex = Server /\ DOMAIN loop = Server
      BY ServerTypes
    <2>3. \A t \in Server : HasSnapshot(t)' => HasSnapshot(t)
      <3>1. CASE PersistSnapshotIndex(s)
        <4>1. /\ loop[s] # None /\ loop[s].pc = "saved"
              /\ m_lastSnapshotIndex' = [m_lastSnapshotIndex EXCEPT ![s] = loop[s].index]
              /\ loop' = [loop EXCEPT ![s].pc = "persisted"]
          BY <3>1 DEF PersistSnapshotIndex
        <4>2. HasSnapshot(s)
          BY <4>1 DEF HasSnapshot
        <4>3. \A t \in Server : t # s => m_lastSnapshotIndex'[t] = m_lastSnapshotIndex[t] /\ loop'[t] = loop[t]
          BY <2>2, <4>1
        <4>4. QED
          BY <2>1, <4>2, <4>3 DEF HasSnapshot
      <3>2. CASE SendMessageToWaitChan(s)
        <4>1. loop' = [loop EXCEPT ![s] = None] /\ UNCHANGED m_lastSnapshotIndex
          BY <3>2 DEF SendMessageToWaitChan, nodeVars
        <4>2. loop'[s] = None /\ \A t \in Server : t # s => loop'[t] = loop[t]
          BY <2>2, <4>1
        <4>3. QED
          BY <2>1, <4>1, <4>2 DEF HasSnapshot
      <3>3. QED
        BY <1>2, <3>1, <3>2
    <2>4. \A t \in Server : ReplicaSame(t)
      BY <2>1, <2>3 DEF ReplicaSame, storeVars
    <2>5. DOMAIN m_skipList' = Server
      BY <2>1 DEF ReplicaInv, storeVars
    <2>6. QED
      BY <2>1, <2>4, <2>5, ReplicaSameHolds DEF ReplicaInv
  <1>3. QED
    BY <1>1, <1>2, ReadLoopReplica, MakeSnapShotReplica

----------------------------------------------------------------------------
\* Raft.

LEMMA CopyLogsReplica ==
    ASSUME CommitInv, RecentInv, ReplicaInv, NEW s \in Server, CopyLogs(s)
    PROVE  ReplicaInv'
  <1>1. PICK n, a, len : n = reflected[s] /\ a = lastApplied[s] /\ len = Len(log)
    OBVIOUS
  <1>2. PICK new : new = [k \in 1..(len - a) |-> [op |-> log[a + k], index |-> a + k]]
    OBVIOUS
  <1>3. /\ UNCHANGED <<log, loop, m_lastSnapshotIndex, snapshotFile, applyChan, storeVars>>
        /\ hand[s] = << >> /\ hand' = [hand EXCEPT ![s] = new]
        /\ lastApplied' = [lastApplied EXCEPT ![s] = len] /\ a < len
    BY <1>1, <1>2 DEF CopyLogs, raftVars
  <1>4. n \in Nat /\ a \in Nat /\ len \in Nat /\ DOMAIN hand = Server /\ DOMAIN lastApplied = Server
    BY <1>1, ServerTypes, LogTypes
  <1>5. hand'[s] = new /\ lastApplied'[s] = len
        /\ \A t \in Server : t # s => hand'[t] = hand[t] /\ lastApplied'[t] = lastApplied[t]
    BY <1>3, <1>4
  <1>6. \A t \in Server : t # s => ReplicaSame(t)
    BY <1>3, <1>5 DEF ReplicaSame, HasSnapshot, storeVars
  <1>7. PICK q : q = applyChan[s]
    OBVIOUS
  <1>8. IsSeq(q)
    BY <1>7, DeliveryOf DEF CommitInv, DeliveryAt
  <1>9. Coming(s) = q
    <2>1. q \in Seq(Range(q))
      BY <1>8 DEF IsSeq
    <2>2. q \o << >> = q
      BY <2>1
    <2>3. QED
      BY <1>3, <1>7, <2>2 DEF Coming
  <1>10. Messages(q) /\ NoGap(n, q, a)
    BY <1>1, <1>9, ComingFacts, ReplicaOf DEF ReplicaAt
  <1>11. /\ len - a \in Nat /\ len - a > 0 /\ new \in Seq(Range(new)) /\ Len(new) = len - a
         /\ \A k \in 1..(len - a) : new[k].index = a + k
    <2>1. len - a \in Nat /\ len - a > 0
      BY <1>3, <1>4
    <2>2. \A k \in 1..(len - a) : new[k] \in Range(new)
      BY <1>2 DEF Range
    <2>3. new \in Seq(Range(new)) /\ Len(new) = len - a
      BY <1>2, <2>1, <2>2
    <2>4. \A k \in 1..(len - a) : new[k].index = a + k
      BY <1>2
    <2>5. QED
      BY <2>1, <2>3, <2>4
  <1>12. IsSeq(new) /\ Len(new) > 0 /\ \A k \in 1..Len(new) : new[k].index = a + k
    BY <1>11 DEF IsSeq
  <1>13. NoGap(n, q \o new, a + Len(new))
    BY <1>4, <1>10, <1>12, NoGapCopy
  <1>14. a + Len(new) = len
    BY <1>4, <1>11
  <1>15. NoGap(reflected[s], Coming(s), lastApplied[s])'
    BY <1>1, <1>3, <1>5, <1>7, <1>13, <1>14 DEF Coming, storeVars
  <1>16. SnapshotsAt(s)'
    BY <1>3, ReplicaOf DEF ReplicaAt, SnapshotsAt, HasSnapshot
  <1>17. ReplicaAt(s)'
    BY <1>3, <1>15, <1>16, ReplicaOf DEF ReplicaAt, storeVars
  <1>18. DOMAIN m_skipList' = Server
    BY <1>3 DEF ReplicaInv, storeVars
  <1>19. QED
    BY <1>3, <1>6, <1>17, <1>18, ReplicaStep

\* The first message of one sequence is moved to the end of another.
LEMMA MoveFirst ==
    ASSUME NEW q, NEW w, IsSeq(q), IsSeq(w), w # << >>
    PROVE  Append(q, Head(w)) \o Tail(w) = q \o w
  <1>1. PICK S : S = Range(q) \cup Range(w)
    OBVIOUS
  <1>2. q \in Seq(S) /\ w \in Seq(S)
    BY <1>1, SeqWiden DEF IsSeq
  <1>3. Head(w) \in S /\ Tail(w) \in Seq(S) /\ Append(q, Head(w)) \in Seq(S)
    BY <1>2
  <1>4. Len(Append(q, Head(w)) \o Tail(w)) = Len(q \o w)
    BY <1>2, <1>3
  <1>5. \A k \in 1..Len(q \o w) : (Append(q, Head(w)) \o Tail(w))[k] = (q \o w)[k]
    BY <1>2, <1>3
  <1>6. q \o w \in Seq(S) /\ Append(q, Head(w)) \o Tail(w) \in Seq(S)
    BY <1>2, <1>3
  <1>7. QED
    BY <1>4, <1>5, <1>6

LEMMA PushLogsReplica ==
    ASSUME CommitInv, RecentInv, ReplicaInv, NEW s \in Server, PushLogs(s)
    PROVE  ReplicaInv'
  <1>1. PICK q, w, m : q = applyChan[s] /\ w = hand[s] /\ m = Head(w)
    OBVIOUS
  <1>2. /\ UNCHANGED <<log, loop, lastApplied, m_lastSnapshotIndex, snapshotFile, storeVars>>
        /\ hand' = [hand EXCEPT ![s] = Tail(w)]
        /\ applyChan' = [applyChan EXCEPT ![s] = Append(q, m)]
        /\ w # << >>
    BY <1>1 DEF PushLogs, raftVars
  <1>3. DOMAIN hand = Server /\ DOMAIN applyChan = Server
    BY ServerTypes
  <1>4. hand'[s] = Tail(w) /\ applyChan'[s] = Append(q, m)
        /\ \A t \in Server : t # s => hand'[t] = hand[t] /\ applyChan'[t] = applyChan[t]
    BY <1>2, <1>3
  <1>5. \A t \in Server : t # s => ReplicaSame(t)
    BY <1>2, <1>4 DEF ReplicaSame, HasSnapshot, storeVars
  <1>6. IsSeq(q) /\ IsSeq(w) /\ \A e \in Range(w) : EntryInv(e)
    BY <1>1, DeliveryOf DEF CommitInv, DeliveryAt
  <1>7. Range(Append(q, m)) = Range(q) \cup {m} /\ m \in Range(w)
    BY <1>1, <1>2, <1>6, IsSeqFacts
  <1>8. m.op # None
    BY <1>6, <1>7, NoneAssumption DEF EntryInv
  <1>9. Coming(s)' = Coming(s)
    <2>1. Append(q, m) \o Tail(w) = q \o w
      BY <1>1, <1>2, <1>6, MoveFirst
    <2>2. QED
      BY <1>1, <1>4, <2>1 DEF Coming
  <1>10. SnapshotsAt(s)'
    BY <1>1, <1>2, <1>4, <1>7, <1>8, ReplicaOf DEF ReplicaAt, SnapshotsAt, HasSnapshot
  <1>11. ReplicaAt(s)'
    BY <1>2, <1>9, <1>10, ReplicaOf DEF ReplicaAt, storeVars
  <1>12. DOMAIN m_skipList' = Server
    BY <1>2 DEF ReplicaInv, storeVars
  <1>13. QED
    BY <1>2, <1>5, <1>11, <1>12, ReplicaStep

\* A snapshot that is newer than what s has applied, and than what is on its way.
LEMMA InstallSnapshotReplica ==
    ASSUME CommitInv, RecentInv, ReplicaInv, ~OldInstall, NEW s \in Server, InstallSnapshot(s)
    PROVE  ReplicaInv'
  <1>1. PICK index, file, n, a : /\ index = m_lastSnapshotIndex[leader] /\ file = snapshotFile[leader]
                                 /\ n = reflected[s] /\ a = lastApplied[s]
    OBVIOUS
  <1>2. PICK m, q, w : /\ m = [op |-> None, index |-> index, snapshot |-> file]
                       /\ q = applyChan[s] /\ w = hand[s]
    OBVIOUS
  <1>3. /\ UNCHANGED <<log, hand, loop, storeVars>>
        /\ lastApplied' = [lastApplied EXCEPT ![s] = IF index > a THEN index ELSE a]
        /\ snapshotFile' = [snapshotFile EXCEPT ![s] = file]
        /\ m_lastSnapshotIndex' = [m_lastSnapshotIndex EXCEPT ![s] = index]
        /\ applyChan' = [applyChan EXCEPT ![s] = Append(q, m)]
        /\ leader # None /\ index > m_lastSnapshotIndex[s] /\ index > a
    BY <1>1, <1>2 DEF InstallSnapshot, Accepts, raftVars
  <1>4. leader \in Server
    BY <1>3 DEF CommitInv, DeliveryInv, DeliveryTypes
  <1>5. /\ index \in Nat /\ index > 0 /\ n \in Nat /\ a \in Nat
        /\ DOMAIN applyChan = Server /\ DOMAIN snapshotFile = Server
        /\ DOMAIN lastApplied = Server /\ DOMAIN m_lastSnapshotIndex = Server
    BY <1>1, <1>3, <1>4, ServerTypes
  <1>6. SnapshotHolds(log, file)
    BY <1>1, <1>4, <1>5, ReplicaOf DEF ReplicaAt, SnapshotsAt, HasSnapshot
  <1>7. lastApplied'[s] = index /\ snapshotFile'[s] = file /\ applyChan'[s] = Append(q, m)
    BY <1>3, <1>5
  <1>8. \A t \in Server : t # s => /\ lastApplied'[t] = lastApplied[t]
                                   /\ snapshotFile'[t] = snapshotFile[t]
                                   /\ applyChan'[t] = applyChan[t]
                                   /\ m_lastSnapshotIndex'[t] = m_lastSnapshotIndex[t]
    BY <1>3, <1>5
  <1>9. \A t \in Server : t # s => ReplicaSame(t)
    BY <1>3, <1>8 DEF ReplicaSame, HasSnapshot, storeVars
  <1>10. m.op = None /\ m.index = index /\ m.snapshot = file
    BY <1>2
  <1>11. PICK c : c = Coming(s)
    OBVIOUS
  <1>12. /\ Messages(c) /\ IsSeq(q) /\ IsSeq(w) /\ c = q \o w
         /\ \A b \in 1..Len(c) : c[b].index <= a
    BY <1>1, <1>2, <1>11, ComingFacts DEF Coming
  <1>13. \A b \in 1..Len(c) : c[b].index < m.index
    <2>1. \A b \in 1..Len(c) : c[b].index \in Nat
      BY <1>12 DEF Messages
    <2>2. QED
      BY <1>3, <1>5, <1>10, <1>12, <2>1
  <1>14. NoGap(n, c, a)
    BY <1>1, <1>11, ReplicaOf DEF ReplicaAt
  <1>15. NoGap(n, Append(q, m) \o w, m.index)
    BY <1>5, <1>10, <1>12, <1>13, <1>14, NoGapInstall
  <1>16. NoGap(reflected[s], Coming(s), lastApplied[s])'
    BY <1>1, <1>2, <1>3, <1>7, <1>10, <1>15 DEF Coming, storeVars
  <1>17. Range(Append(q, m)) = Range(q) \cup {m}
    BY <1>12, IsSeqFacts
  <1>18. SnapshotsAt(s)'
    <2>1. \A k \in Range(q) : k.op = None => SnapshotHolds(log, k.snapshot)
      BY <1>2, ReplicaOf DEF ReplicaAt, SnapshotsAt
    <2>2. QED
      BY <1>3, <1>6, <1>7, <1>10, <1>17, <2>1 DEF SnapshotsAt
  <1>19. ReplicaAt(s)'
    BY <1>3, <1>16, <1>18, ReplicaOf DEF ReplicaAt, storeVars
  <1>20. DOMAIN m_skipList' = Server
    BY <1>3 DEF ReplicaInv, storeVars
  <1>21. QED
    BY <1>3, <1>9, <1>19, <1>20, ReplicaStep

LEMMA EmptyStore ==
    ASSUME NEW l \in Seq(Operation), NEW last, \A c \in Clerk : last[c] = 0
    PROVE  /\ ListOK(EmptyList) /\ DOMAIN EmptyList.value = {}
           /\ \A k \in DOMAIN EmptyList.value : EmptyList.value[k] \in Value \cup Key
           /\ DOMAIN EmptyList.value \subseteq WrittenBy(l, Len(l))
           /\ StoreHolds(l, EmptyList, last, 0)
  <1>1. ListOK(EmptyList) /\ DOMAIN EmptyList.value = {}
    BY EmptyOK DEF EmptyMap
  <1>2. HasKeys(l, {}, 0)
    BY WrittenFacts DEF HasKeys
  <1>3. CoversAll(l, last, 0)
    BY DEF CoversAll
  <1>4. QED
    BY <1>1, <1>2, <1>3 DEF StoreHolds

\* The snapshot file with which s starts again fits the log, and its stored snapshot index.
LEMMA RestartSnapshot ==
    ASSUME CommitInv, RecentInv, ReplicaInv, NEW s \in Server, Restart(s), HasSnapshot(s)'
    PROVE  SnapshotHolds(log, snapshotFile'[s]) /\ m_lastSnapshotIndex[s] <= snapshotFile'[s].at
  <1>1. ASSUME NEW l \in Server, HasSnapshot(l), snapshotFile'[s] = snapshotFile[l],
               m_lastSnapshotIndex[s] <= m_lastSnapshotIndex[l]
        PROVE  SnapshotHolds(log, snapshotFile'[s]) /\ m_lastSnapshotIndex[s] <= snapshotFile'[s].at
    <2>1. SnapshotHolds(log, snapshotFile[l])
      BY <1>1, ReplicaOf DEF ReplicaAt, SnapshotsAt
    <2>2. m_lastSnapshotIndex[l] <= snapshotFile[l].at
      BY <1>1, RecentOf DEF StoreAt, CoveredFrom
    <2>3. m_lastSnapshotIndex[s] \in Nat /\ m_lastSnapshotIndex[l] \in Nat /\ snapshotFile[l].at \in Nat
      BY <2>1, ServerTypes DEF SnapshotHolds, Snapshot
    <2>4. QED
      BY <1>1, <2>1, <2>2, <2>3
  <1>2. CASE snapshotFile'[s] = snapshotFile[s] /\ (HasSnapshot(s)' => HasSnapshot(s))
    BY <1>1, <1>2, ServerTypes
  <1>3. CASE \E l \in Server : /\ HasSnapshot(l) /\ snapshotFile'[s] = snapshotFile[l]
                               /\ m_lastSnapshotIndex[s] < m_lastSnapshotIndex[l]
    <2>1. PICK l \in Server : /\ HasSnapshot(l) /\ snapshotFile'[s] = snapshotFile[l]
                              /\ m_lastSnapshotIndex[s] < m_lastSnapshotIndex[l]
      BY <1>3
    <2>2. m_lastSnapshotIndex[s] <= m_lastSnapshotIndex[l]
      BY <2>1, ServerTypes
    <2>3. QED
      BY <1>1, <2>1, <2>2
  <1>4. QED
    BY <1>2, <1>3, RestartFile

\* What a restart makes of server s, with or without a snapshot file.
LEMMA RestartStore ==
    ASSUME CommitInv, RecentInv, ReplicaInv, NEW s \in Server, Restart(s)
    PROVE  /\ StoreHolds(log, m_skipList'[s], m_last_RequestId'[s], reflected'[s])
           /\ reflected'[s] \in Nat /\ m_lastSnapshotIndex[s] <= reflected'[s]
           /\ DOMAIN m_skipList' = Server
           /\ \A t \in Server : t # s => /\ m_skipList'[t] = m_skipList[t]
                                         /\ m_last_RequestId'[t] = m_last_RequestId[t]
                                         /\ reflected'[t] = reflected[t]
           /\ \E p \in Nat : reflected' = [reflected EXCEPT ![s] = p]
  <1>1. PICK sn, none : sn = snapshotFile'[s] /\ none = [c \in Clerk |-> 0]
    OBVIOUS
  <1>2. DOMAIN m_skipList = Server /\ m_lastSnapshotIndex[s] \in Nat
    BY ReplicaOf, ServerTypes
  <1>8. HasSnapshot(s)' => SnapshotHolds(log, sn) /\ m_lastSnapshotIndex[s] <= sn.at
    BY <1>1, RestartSnapshot
  <1>3. log \in Seq(Operation)
    BY CoveredOf
  <1>4. /\ ListOK(EmptyList) /\ DOMAIN EmptyList.value = {}
        /\ \A k \in DOMAIN EmptyList.value : EmptyList.value[k] \in Value \cup Key
        /\ DOMAIN EmptyList.value \subseteq WrittenBy(log, Len(log))
        /\ StoreHolds(log, EmptyList, none, 0)
    BY <1>1, <1>3, EmptyStore
  <1>5. CASE sn = None
    <2>1. ~HasSnapshot(s)'
      <3>1. HasSnapshot(s)' => sn \in Snapshot
        BY <1>8 DEF SnapshotHolds
      <3>2. QED
        BY <1>5, <3>1, NoneAssumption
    <2>2. m_lastSnapshotIndex[s] = 0
      BY <1>2, <2>1 DEF HasSnapshot, Restart
    <2>3. /\ m_skipList' = [m_skipList EXCEPT ![s] = EmptyList]
          /\ m_last_RequestId' = [m_last_RequestId EXCEPT ![s] = none]
          /\ reflected' = [reflected EXCEPT ![s] = 0]
      BY <1>1, <1>5 DEF Restart
    <2>4. /\ m_skipList'[s] = EmptyList /\ m_last_RequestId'[s] = none /\ reflected'[s] = 0
          /\ DOMAIN m_skipList' = Server
          /\ \A t \in Server : t # s => /\ m_skipList'[t] = m_skipList[t]
                                        /\ m_last_RequestId'[t] = m_last_RequestId[t]
                                        /\ reflected'[t] = reflected[t]
      BY <1>2, <2>3, ServerTypes
    <2>5. \E p \in Nat : reflected' = [reflected EXCEPT ![s] = p]
      BY <2>3
    <2>6. StoreHolds(log, m_skipList'[s], m_last_RequestId'[s], reflected'[s])
      BY <1>4, <2>4
    <2>7. reflected'[s] \in Nat /\ m_lastSnapshotIndex[s] <= reflected'[s]
      <3>1. reflected'[s] = 0
        BY <2>4
      <3>2. QED
        BY <2>2, <3>1
    <2>8. QED
      BY <2>4, <2>5, <2>6, <2>7, Zenon
  <1>6. CASE sn # None
    <2>1. HasSnapshot(s)'
      BY <1>1, <1>6 DEF HasSnapshot
    <2>2. SnapshotHolds(log, sn) /\ m_lastSnapshotIndex[s] <= sn.at
      BY <1>8, <2>1
    <2>3. parseFromString(s, EmptyList, sn)
      BY <1>1, <1>6 DEF Restart
    <2>4. /\ StoreHolds(log, m_skipList'[s], sn.last, sn.at)
          /\ m_last_RequestId'[s] = sn.last /\ reflected'[s] = sn.at /\ sn.at \in Nat
          /\ DOMAIN m_skipList' = Server
          /\ \A t \in Server : t # s => /\ m_skipList'[t] = m_skipList[t]
                                        /\ m_last_RequestId'[t] = m_last_RequestId[t]
                                        /\ reflected'[t] = reflected[t]
          /\ reflected' = [reflected EXCEPT ![s] = sn.at]
      <3>1. PICK e : e = EmptyList
        OBVIOUS
      <3>2. /\ ListOK(e) /\ \A k \in DOMAIN e.value : e.value[k] \in Value \cup Key
            /\ DOMAIN e.value \subseteq WrittenBy(log, Len(log)) /\ parseFromString(s, e, sn)
        BY <1>4, <2>3, <3>1
      <3>3. DOMAIN m_skipList = Server /\ SnapshotHolds(log, sn)
        BY <1>2, <2>2
      <3>4. QED
        BY <3>1, <3>2, <3>3, ParseReplica
    <2>5. QED
      BY <2>2, <2>4
  <1>7. QED
    BY <1>5, <1>6

LEMMA RestartReplica ==
    ASSUME CommitInv, RecentInv, ReplicaInv, NEW s \in Server, Restart(s)
    PROVE  ReplicaInv'
  <1>1. /\ UNCHANGED <<log, m_lastSnapshotIndex>>
        /\ applyChan' = [applyChan EXCEPT ![s] = << >>]
        /\ hand' = [hand EXCEPT ![s] = << >>]
        /\ loop' = [loop EXCEPT ![s] = None]
        /\ lastApplied' = [lastApplied EXCEPT ![s] = m_lastSnapshotIndex[s]]
        /\ m_lastSnapShotRaftLogIndex' = [m_lastSnapShotRaftLogIndex EXCEPT ![s] = 0]
    BY DEF Restart
  <1>2. /\ DOMAIN applyChan = Server /\ DOMAIN hand = Server /\ DOMAIN loop = Server
        /\ DOMAIN lastApplied = Server /\ DOMAIN m_lastSnapShotRaftLogIndex = Server
    BY DEF CommitInv, DeliveryInv, DeliveryTypes
  <1>3. /\ StoreHolds(log, m_skipList'[s], m_last_RequestId'[s], reflected'[s])
        /\ reflected'[s] \in Nat /\ m_lastSnapshotIndex[s] <= reflected'[s]
        /\ DOMAIN m_skipList' = Server
        /\ \A t \in Server : t # s => /\ m_skipList'[t] = m_skipList[t]
                                      /\ m_last_RequestId'[t] = m_last_RequestId[t]
                                      /\ reflected'[t] = reflected[t]
    BY RestartStore
  <1>4. /\ applyChan'[s] = << >> /\ hand'[s] = << >> /\ loop'[s] = None
        /\ lastApplied'[s] = m_lastSnapshotIndex[s] /\ m_lastSnapShotRaftLogIndex'[s] = 0
    BY <1>1, <1>2
  <1>5. \A t \in Server : t # s =>
            /\ applyChan'[t] = applyChan[t] /\ hand'[t] = hand[t] /\ loop'[t] = loop[t]
            /\ lastApplied'[t] = lastApplied[t]
            /\ m_lastSnapShotRaftLogIndex'[t] = m_lastSnapShotRaftLogIndex[t]
    BY <1>1, <1>2
  <1>6. \A t \in Server : t # s => ReplicaSame(t)
    <2>1. \A t \in Server : t # s => snapshotFile'[t] = snapshotFile[t]
      BY RestartFile
    <2>2. QED
      BY <1>1, <1>3, <1>5, <2>1 DEF ReplicaSame, HasSnapshot
  <1>7. PICK n, a, e : n = reflected'[s] /\ a = m_lastSnapshotIndex[s] /\ e = << >>
    OBVIOUS
  <1>8. e \o e = e /\ Len(e) = 0 /\ Range(e) = {}
    BY <1>7 DEF Range
  <1>9. NoGap(n, e, a)
    <2>1. Ready(n, e, 1, a)
      BY <1>3, <1>7 DEF Ready
    <2>2. QED
      BY <1>8, <2>1 DEF NoGap
  <1>10. NoGap(reflected[s], Coming(s), lastApplied[s])'
    BY <1>4, <1>7, <1>8, <1>9 DEF Coming
  <1>11. HasSnapshot(s)' => SnapshotHolds(log, snapshotFile'[s])
    BY RestartSnapshot
  <1>12. SnapshotsAt(s)'
    BY <1>1, <1>4, <1>7, <1>8, <1>11 DEF SnapshotsAt
  <1>13. m_lastSnapShotRaftLogIndex'[s] <= reflected'[s]
    BY <1>3, <1>4
  <1>14. ReplicaAt(s)'
    BY <1>1, <1>3, <1>10, <1>12, <1>13 DEF ReplicaAt
  <1>15. QED
    BY <1>1, <1>3, <1>6, <1>14, ReplicaStep

LEMMA RaftStepReplica ==
    ASSUME CommitInv, RecentInv, ReplicaInv, ~OldInstall, RaftStep
    PROVE  ReplicaInv'
  <1>1. ASSUME Commit \/ \E s \in Server : Elect(s) PROVE ReplicaInv'
    <2>1. UNCHANGED <<nodeVars, snapshotFile, applyChan, storeVars, loop>>
      BY <1>1 DEF Commit, Elect
    <2>2. log' = log \/ Commit
      BY <1>1 DEF Elect
    <2>3. QED
      BY <2>1, <2>2, ReplicaKept
  <1>2. ASSUME NEW s \in Server, CopyLogs(s) \/ PushLogs(s) \/ InstallSnapshot(s) \/ Restart(s)
        PROVE  ReplicaInv'
    BY <1>2, CopyLogsReplica, PushLogsReplica, InstallSnapshotReplica, RestartReplica
  <1>3. QED
    BY <1>1, <1>2 DEF RaftStep

----------------------------------------------------------------------------
\* The handlers.

\* A Get puts the number of its clerk's current request into the table of a store: no request of
\* the log is later.
LEMMA TableReplica ==
    ASSUME CommitInv, ReplicaInv, NEW s \in Server, NEW c \in Clerk,
           m_last_RequestId' = [m_last_RequestId EXCEPT ![s][c] = m_requestId[c]],
           UNCHANGED <<log, nodeVars, snapshotFile, applyChan, m_skipList, m_lastSnapShotRaftLogIndex,
                       reflected, loop>>
    PROVE  ReplicaInv'
  <1>1. PICK last, t, n : last = m_last_RequestId[s] /\ t = [last EXCEPT ![c] = m_requestId[c]]
                          /\ n = reflected[s]
    OBVIOUS
  <1>2. DOMAIN m_last_RequestId = Server /\ last \in [Clerk -> Nat]
    BY <1>1, ServerTypes, DeliveryOf DEF CommitInv, DeliveryAt, TableInv
  <1>3. m_last_RequestId'[s] = t
        /\ \A u \in Server : u # s => m_last_RequestId'[u] = m_last_RequestId[u]
    BY <1>1, <1>2
  <1>4. \A u \in Server : u # s => ReplicaSame(u)
    BY <1>3 DEF ReplicaSame, HasSnapshot, nodeVars
  <1>5. StoreHolds(log, m_skipList[s], last, n)
    BY <1>1, ReplicaOf DEF ReplicaAt
  <1>6. \A d \in Clerk : t[d] = IF d = c THEN m_requestId[c] ELSE last[d]
    BY <1>1, <1>2
  <1>7. CoversAll(log, t, n)
    <2>1. ASSUME NEW i \in DOMAIN log, i <= n, ~IsGet(log[i]) PROVE log[i][2] <= t[log[i][1]]
      <3>1. log[i] \in Operation
        BY LogTypes
      <3>2. log[i][1] \in Clerk
        BY <3>1, OperationFact
      <3>3. Asked(log[i])
        BY DEF CommitInv, LogInv, Range
      <3>4. log[i][2] <= last[log[i][1]]
        BY <1>5, <2>1 DEF StoreHolds, CoversAll
      <3>5. QED
        BY <1>6, <3>2, <3>3, <3>4 DEF Asked
    <2>2. QED
      BY <2>1 DEF CoversAll
  <1>8. StoreHolds(log, m_skipList[s], t, n)
    BY <1>5, <1>7 DEF StoreHolds
  <1>9. ReplicaAt(s)'
    BY <1>1, <1>3, <1>8, ReplicaOf DEF ReplicaAt, SnapshotsAt, HasSnapshot, Coming, nodeVars
  <1>10. DOMAIN m_skipList' = Server
    BY DEF ReplicaInv
  <1>11. QED
    BY <1>4, <1>9, <1>10, ReplicaStep

LEMMA HandlerStepReplica ==
    ASSUME CommitInv, ReplicaInv, ~LateGets, HandlerStep
    PROVE  ReplicaInv'
  <1>1. PICK h \in handler : \/ Start(h) \/ Register(h) \/ Pop(h) \/ PopFreed(h)
                             \/ TimeOut(h) \/ Get(h) \/ AfterTimeOut(h)
    BY DEF HandlerStep
  <1>2. h.server \in Server /\ h.op[1] \in Clerk
    BY HandlerOf, OperationFact
  <1>3. CASE Start(h) \/ Register(h) \/ Pop(h) \/ PopFreed(h) \/ TimeOut(h)
    <2>1. UNCHANGED <<log, nodeVars, snapshotFile, applyChan, storeVars, loop>>
      BY <1>3 DEF Start, Register, Pop, PopFreed, TimeOut, raftVars
    <2>2. QED
      BY <2>1, ReplicaKept
  <1>4. CASE Get(h) \/ AfterTimeOut(h)
    <2>1. UNCHANGED <<log, nodeVars, snapshotFile, applyChan, m_skipList, m_lastSnapShotRaftLogIndex,
                      reflected, restores, loop>>
      BY <1>4 DEF Get, AfterTimeOut, raftVars
    <2>2. ExecuteGetOpOnKVDB(h) \/ UNCHANGED m_last_RequestId
      BY <1>4 DEF Get, AfterTimeOut
    <2>3. CASE ExecuteGetOpOnKVDB(h)
      <3>1. m_last_RequestId' = [m_last_RequestId EXCEPT ![h.server][h.op[1]] = m_requestId[h.op[1]]]
        BY <2>3 DEF ExecuteGetOpOnKVDB
      <3>2. QED
        BY <1>2, <2>1, <3>1, TableReplica
    <2>4. CASE UNCHANGED m_last_RequestId
      BY <2>1, <2>4, ReplicaKept DEF storeVars
    <2>5. QED
      BY <2>2, <2>3, <2>4
  <1>5. QED
    BY <1>1, <1>3, <1>4

LEMMA ClerkStepReplica ==
    ASSUME CommitInv, ReplicaInv, ClerkStep
    PROVE  ReplicaInv'
  <1>1. UNCHANGED <<log, nodeVars, snapshotFile, applyChan, storeVars, loop>>
    BY DEF ClerkStep, Call, Answer, RpcFails, raftVars
  <1>2. QED
    BY <1>1, ReplicaKept

----------------------------------------------------------------------------
LEMMA InitReplica ==
    ASSUME Init
    PROVE  ReplicaInv
  <1>1. DOMAIN m_skipList = Server /\ log = << >>
    BY DEF Init
  <1>2. ASSUME NEW s \in Server PROVE ReplicaAt(s)
    <2>1. /\ m_skipList[s] = EmptyList /\ m_last_RequestId[s] = [c \in Clerk |-> 0]
          /\ reflected[s] = 0 /\ m_lastSnapShotRaftLogIndex[s] = 0 /\ lastApplied[s] = 0
          /\ applyChan[s] = << >> /\ hand[s] = << >> /\ m_lastSnapshotIndex[s] = 0
          /\ loop[s] = None /\ snapshotFile[s] = None
      BY <1>2 DEF Init
    <2>2. PICK e, none : e = << >> /\ none = [c \in Clerk |-> 0]
      OBVIOUS
    <2>3. e \in Seq(Operation) /\ e \o e = e /\ Len(e) = 0 /\ Range(e) = {}
      BY <2>2 DEF Range
    <2>4. StoreHolds(e, EmptyList, none, 0)
      BY <2>2, <2>3, EmptyStore
    <2>5. NoGap(0, e, 0)
      <3>1. Ready(0, e, 1, 0)
        BY DEF Ready
      <3>2. QED
        BY <2>3, <3>1 DEF NoGap
    <2>6. Coming(s) = e
      BY <2>1, <2>2, <2>3 DEF Coming
    <2>7. SnapshotsAt(s)
      BY <2>1, <2>2, <2>3 DEF SnapshotsAt, HasSnapshot
    <2>8. QED
      BY <1>1, <2>1, <2>2, <2>4, <2>5, <2>6, <2>7 DEF ReplicaAt
  <1>3. QED
    BY <1>1, <1>2 DEF ReplicaInv

LEMMA ReplicaNext ==
    ASSUME CommitInv, RecentInv, ReplicaInv, ~LateGets, ~OldInstall, [Next]_vars
    PROVE  ReplicaInv'
  <1>1. CASE UNCHANGED vars
    <2>1. UNCHANGED <<log, nodeVars, snapshotFile, applyChan, storeVars, loop>>
      BY <1>1 DEF vars, raftVars
    <2>2. QED
      BY <2>1, ReplicaKept
  <1>2. CASE Next
    BY <1>2, ClerkStepReplica, HandlerStepReplica, LoopStepReplica, RaftStepReplica DEF Next
  <1>3. QED
    BY <1>1, <1>2

\* While a Get handler does not run on after its clerk has moved to its next call, and while
\* InstallSnapshot brings no old snapshot, the table and the keys of every store, of every snapshot
\* file and of every snapshot on its way fit a part of the log, and no entry is missing on the way
\* to a store (GetCommandFromRaft, GetSnapShotFromRaft, ExecuteGetOpOnKVDB, getSnapShotData,
\* parseFromString, with applierTicker, InstallSnapshot and restarts).
THEOREM ReplicaInvariant == ASSUME ~LateGets, ~OldInstall PROVE Spec => []ReplicaInv
  <1>1. Init => ReplicaInv
    BY InitReplica
  <1>2. CommitInv /\ RecentInv /\ ReplicaInv /\ [Next]_vars => ReplicaInv'
    BY ReplicaNext
  <1>3. Spec => []RecentInv
    BY RecentInvariant
  <1>4. QED
    BY <1>1, <1>2, <1>3, CommitInvariant, PTL DEF Spec

----------------------------------------------------------------------------
\* The refinement: every step of the service is a step of ReplicatedMap, or none.

LEMMA OverFacts ==
    ASSUME NEW g, g = [k \in DOMAIN g |-> g[k]]
    PROVE  /\ \A f : DOMAIN f = {} => Store!Over(f, g) = g
           /\ \A f, x, v : DOMAIN f = {x} /\ f[x] = v => Store!Over(f, g) = With(g, x, v)
  <1>1. ASSUME NEW f, DOMAIN f = {} PROVE Store!Over(f, g) = g
    <2>1. DOMAIN f \cup DOMAIN g = DOMAIN g
      BY <1>1
    <2>2. Store!Over(f, g) = [k \in DOMAIN g |-> g[k]]
      BY <1>1, <2>1 DEF Store!Over
    <2>3. QED
      BY <2>2
  <1>2. ASSUME NEW f, NEW x, NEW v, DOMAIN f = {x}, f[x] = v PROVE Store!Over(f, g) = With(g, x, v)
    <2>1. DOMAIN f \cup DOMAIN g = DOMAIN g \cup {x}
      BY <1>2
    <2>2. \A k \in DOMAIN g \cup {x} :
              (IF k \in DOMAIN f THEN f[k] ELSE g[k]) = (IF k = x THEN v ELSE g[k])
      BY <1>2
    <2>3. QED
      BY <2>1, <2>2 DEF Store!Over, With
  <1>3. QED
    BY <1>1, <1>2

\* The maps of the replicas.
Maps == [s \in Server |-> m_skipList[s].value]

LEMMA MapIsFunction ==
    ASSUME NEW l, NEW sl, NEW last, NEW n, StoreHolds(l, sl, last, n)
    PROVE  sl.value = [k \in DOMAIN sl.value |-> sl.value[k]]
  BY DEF StoreHolds, ListOK, HoldsKeys

LEMMA StutterMap ==
    ASSUME UNCHANGED <<log, m_skipList, reflected, restores>>
    PROVE  [Store!Next]_(Store!vars)
  <1>1. UNCHANGED Store!vars
    BY DEF Store!vars
  <1>2. QED
    BY <1>1

LEMMA CommitMap ==
    ASSUME CommitInv, Commit
    PROVE  [Store!Next]_(Store!vars)
  <1>1. PICK o : o = Head(pending)
    OBVIOUS
  <1>2. pending \in Seq(Operation) /\ pending # << >> /\ log' = Append(log, o)
    BY <1>1 DEF CommitInv, LogInv, Commit
  <1>3. o \in Operation
    BY <1>1, <1>2
  <1>4. UNCHANGED <<m_skipList, reflected, restores>>
    BY DEF Commit, storeVars
  <1>5. Store!Commit
    BY <1>2, <1>3, <1>4 DEF Store!Commit
  <1>6. QED
    BY <1>5 DEF Store!Next

\* The store of s gets the next entry of the log.
LEMMA ExecuteMap ==
    ASSUME CommitInv, RecentInv, ReplicaInv, NEW s \in Server, log' = log,
           NEW i, i = reflected[s] + 1, i \in 1..Len(log), NEW o, o = log[i],
           reflected' = [reflected EXCEPT ![s] = i], restores' = restores,
           \A t \in Server : t # s => m_skipList'[t] = m_skipList[t],
           \/ /\ IsGet(o) \/ o[2] <= m_last_RequestId[s][o[1]]
              /\ UNCHANGED m_skipList
           \/ /\ ~IsGet(o) /\ ~(o[2] <= m_last_RequestId[s][o[1]])
              /\ m_skipList'[s].value = With(m_skipList[s].value, What(o).key, What(o).value)
    PROVE  [Store!Next]_(Store!vars)
  <1>1. PICK l, n, last, v, w : /\ l = log /\ n = reflected[s] /\ last = m_last_RequestId[s]
                                /\ v = m_skipList[s].value /\ w = m_skipList'[s].value
    OBVIOUS
  <1>2. l \in Seq(Operation) /\ last \in [Clerk -> Nat] /\ CoveredIn(l, last, n) /\ n \in Nat
    BY <1>1, CoveredOf
  <1>3. StoreHolds(l, m_skipList[s], last, n)
    BY <1>1, ReplicaOf DEF ReplicaAt
  <1>4. CoversAll(l, last, n) /\ v = [k \in DOMAIN v |-> v[k]]
    BY <1>1, <1>3, MapIsFunction DEF StoreHolds
  <1>5. i \in 1..Len(l) /\ o = l[i] /\ o \in Operation /\ i = n + 1
    BY <1>1, <1>2
  <1>6. PICK retry : retry = \E j \in 1..(i - 1) : l[j] = l[i]
    OBVIOUS
  <1>7. ~IsGet(o) => (o[2] <= last[o[1]] <=> retry)
    <2>1. retry <=> \E j \in 1..Len(l) : j <= n /\ l[j] = l[i]
      BY <1>2, <1>5, <1>6
    <2>2. ~IsGet(l[i]) => (l[i][2] <= last[l[i][1]] <=> IsAmong(l, i, n))
      BY <1>2, <1>4, <1>5, DuplicateIsRetry
    <2>3. QED
      BY <1>5, <2>1, <2>2 DEF IsAmong
  <1>8. w = IF retry THEN v ELSE Store!Over(WriteOf(o), v)
    <2>1. CASE IsGet(o)
      <3>1. w = v
        BY <1>1, <2>1
      <3>2. DOMAIN WriteOf(o) = {}
        BY <1>5, <2>1, WriteFacts
      <3>3. Store!Over(WriteOf(o), v) = v
        BY <1>4, <3>2, OverFacts
      <3>4. QED
        BY <3>1, <3>3
    <2>2. CASE ~IsGet(o) /\ retry
      BY <1>1, <1>7, <2>2
    <2>3. CASE ~IsGet(o) /\ ~retry
      <3>1. w = With(v, What(o).key, What(o).value)
        BY <1>1, <1>7, <2>3
      <3>2. PICK k, x : k = What(o).key /\ x = What(o).value
        OBVIOUS
      <3>3. DOMAIN WriteOf(o) = {k} /\ WriteOf(o)[k] = x
        BY <1>5, <2>3, <3>2, WriteFacts
      <3>4. Store!Over(WriteOf(o), v) = With(v, k, x)
        BY <1>4, <3>3, OverFacts
      <3>5. QED
        BY <2>3, <3>1, <3>2, <3>4
    <2>4. QED
      BY <2>1, <2>2, <2>3
  <1>9. PICK kv, new : kv = Maps /\ new = Maps'
    OBVIOUS
  <1>10. new = [kv EXCEPT ![s] = IF retry THEN @ ELSE Store!Over(WriteOf(l[i]), @)]
    <2>1. kv = [t \in Server |-> m_skipList[t].value] /\ new = [t \in Server |-> m_skipList'[t].value]
      BY <1>9 DEF Maps
    <2>2. kv[s] = v /\ new[s] = w /\ \A t \in Server : t # s => new[t] = kv[t]
      BY <1>1, <2>1
    <2>3. PICK x : x = IF retry THEN v ELSE Store!Over(WriteOf(l[i]), v)
      OBVIOUS
    <2>4. new[s] = x
      BY <1>5, <1>8, <2>2, <2>3
    <2>5. new = [kv EXCEPT ![s] = x]
      BY <2>1, <2>2, <2>4
    <2>6. QED
      BY <2>2, <2>3, <2>5
  <1>11. Store!Execute(s)
    <2>1. reflected[s] + 1 = i /\ reflected[s] < Len(log)
      BY <1>1, <1>2, <1>5
    <2>2. reflected' = [reflected EXCEPT ![s] = @ + 1]
      BY <2>1
    <2>3. Store!Retry(reflected[s] + 1) <=> retry
      BY <1>1, <1>6, <2>1 DEF Store!Retry
    <2>4. QED
      BY <1>1, <1>9, <1>10, <2>1, <2>2, <2>3 DEF Store!Execute, Maps
  <1>12. QED
    BY <1>11 DEF Store!Next

\* The store of s is taken over from a snapshot.
LEMMA RestoreMap ==
    ASSUME NEW s \in Server, log' = log, NEW p \in Nat, reflected' = [reflected EXCEPT ![s] = p],
           restores' = [restores EXCEPT ![s] = @ + 1],
           NEW last, StoreHolds(log, m_skipList'[s], last, p),
           \A t \in Server : t # s => m_skipList'[t] = m_skipList[t]
    PROVE  [Store!Next]_(Store!vars)
  <1>1. PICK kv, new, w, K : /\ kv = Maps /\ new = Maps' /\ w = m_skipList'[s].value
                             /\ K = DOMAIN w
    OBVIOUS
  <1>2. kv = [t \in Server |-> m_skipList[t].value] /\ new = [t \in Server |-> m_skipList'[t].value]
    BY <1>1 DEF Maps
  <1>3. new = [kv EXCEPT ![s] = w]
    BY <1>1, <1>2
  <1>4. w \in [K -> Value \cup Key]
    BY <1>1, MapIsFunction DEF StoreHolds
  <1>5. /\ Store!Written(p) \subseteq K /\ K \in SUBSET Store!Written(Len(log))
        /\ p <= Len(log)
    BY <1>1 DEF StoreHolds, HasKeys, Store!Written, WrittenBy
  <1>6. p \in 0..Len(log)
    BY <1>5, LogTypes
  <1>7. Store!Restore(s)
    BY <1>1, <1>3, <1>4, <1>5, <1>6 DEF Store!Restore, Maps
  <1>8. QED
    BY <1>7 DEF Store!Next

LEMMA ReadLoopMap ==
    ASSUME CommitInv, RecentInv, ReplicaInv, ReplicaInv', NEW s \in Server, ReadRaftApplyCommandLoop(s)
    PROVE  [Store!Next]_(Store!vars)
  <1>1. PICK m : m = Head(applyChan[s])
    OBVIOUS
  <1>2. log' = log
    BY DEF ReadRaftApplyCommandLoop, raftVars
  <1>3. CASE m.op # None
    <2>1. /\ \A t \in Server : t # s => m_skipList'[t] = m_skipList[t]
          /\ \/ UNCHANGED <<m_skipList, reflected>>
             \/ /\ m.index = reflected[s] + 1 /\ m.index \in 1..Len(log) /\ log[m.index] = m.op
                /\ reflected' = [reflected EXCEPT ![s] = m.index]
                /\ \/ /\ IsGet(m.op) \/ m.op[2] <= m_last_RequestId[s][m.op[1]]
                      /\ UNCHANGED m_skipList
                   \/ /\ ~IsGet(m.op) /\ ~(m.op[2] <= m_last_RequestId[s][m.op[1]])
                      /\ m_skipList'[s].value = With(m_skipList[s].value, What(m.op).key, What(m.op).value)
      BY <1>1, <1>3, GetCommandReplica
    <2>5. restores' = restores
      BY <1>1, <1>3 DEF ReadRaftApplyCommandLoop, GetCommandFromRaft
    <2>2. CASE UNCHANGED <<m_skipList, reflected>>
      BY <1>2, <2>2, <2>5, StutterMap
    <2>3. CASE ~UNCHANGED <<m_skipList, reflected>>
      BY <1>2, <2>1, <2>3, <2>5, ExecuteMap
    <2>4. QED
      BY <2>2, <2>3
  <1>4. CASE m.op = None
    <2>1. PICK sn, sl : sn = m.snapshot /\ sl = m_skipList[s]
      OBVIOUS
    <2>2. /\ SnapshotHolds(log, sn) /\ parseFromString(s, sl, sn) /\ DOMAIN m_skipList = Server
          /\ ListOK(sl) /\ \A k \in DOMAIN sl.value : sl.value[k] \in Value \cup Key
          /\ DOMAIN sl.value \subseteq WrittenBy(log, Len(log))
      BY <1>1, <1>4, <2>1, GetSnapShotReplica
    <2>3. PICK p : p = sn.at
      OBVIOUS
    <2>4. /\ \A t \in Server : t # s => m_skipList'[t] = m_skipList[t]
          /\ reflected' = [reflected EXCEPT ![s] = p] /\ p \in Nat
      BY <2>2, <2>3, ParseReplica
    <2>5. restores' = [restores EXCEPT ![s] = @ + 1]
      BY <1>1, <1>4 DEF ReadRaftApplyCommandLoop, GetSnapShotFromRaft
    <2>6. StoreHolds(log, m_skipList'[s], m_last_RequestId'[s], p)
      BY <2>2, <2>3, ParseReplica
    <2>7. QED
      BY <1>2, <2>4, <2>5, <2>6, RestoreMap
  <1>5. QED
    BY <1>3, <1>4

LEMMA RestartMap ==
    ASSUME CommitInv, RecentInv, ReplicaInv, NEW s \in Server, Restart(s)
    PROVE  [Store!Next]_(Store!vars)
  <1>1. log' = log
    BY DEF Restart
  <1>2. restores' = [restores EXCEPT ![s] = @ + 1]
    BY DEF Restart
  <1>3. /\ StoreHolds(log, m_skipList'[s], m_last_RequestId'[s], reflected'[s])
        /\ \A t \in Server : t # s => m_skipList'[t] = m_skipList[t]
    BY RestartStore
  <1>4. PICK p \in Nat : reflected' = [reflected EXCEPT ![s] = p]
    BY RestartStore
  <1>5. reflected'[s] = p
    BY <1>4, ServerTypes
  <1>6. QED
    BY <1>1, <1>2, <1>3, <1>4, <1>5, RestoreMap

LEMMA NextMap ==
    ASSUME CommitInv, RecentInv, ReplicaInv, ReplicaInv', [Next]_vars
    PROVE  [Store!Next]_(Store!vars)
  <1>1. CASE UNCHANGED vars
    <2>1. UNCHANGED <<log, m_skipList, reflected, restores>>
      BY <1>1 DEF vars, raftVars, storeVars
    <2>2. QED
      BY <2>1, StutterMap
  <1>2. CASE ClerkStep
    <2>1. UNCHANGED <<log, m_skipList, reflected, restores>>
      BY <1>2 DEF ClerkStep, Call, Answer, RpcFails, raftVars, storeVars
    <2>2. QED
      BY <2>1, StutterMap
  <1>3. CASE HandlerStep
    <2>1. UNCHANGED <<log, m_skipList, reflected, restores>>
      BY <1>3 DEF HandlerStep, Start, Register, Pop, PopFreed, TimeOut, Get, AfterTimeOut, raftVars, storeVars
    <2>2. QED
      BY <2>1, StutterMap
  <1>4. CASE LoopStep
    <2>1. PICK s \in Server : \/ ReadRaftApplyCommandLoop(s) \/ MakeSnapShot(s)
                              \/ PersistSnapshotIndex(s) \/ SendMessageToWaitChan(s)
      BY <1>4 DEF LoopStep
    <2>2. CASE MakeSnapShot(s) \/ PersistSnapshotIndex(s) \/ SendMessageToWaitChan(s)
      <3>1. UNCHANGED <<log, m_skipList, reflected, restores>>
        BY <2>2 DEF MakeSnapShot, PersistSnapshotIndex, SendMessageToWaitChan, raftVars, storeVars
      <3>2. QED
        BY <3>1, StutterMap
    <2>3. QED
      BY <2>1, <2>2, ReadLoopMap
  <1>5. CASE RaftStep
    <2>1. ASSUME NEW s \in Server, Elect(s) \/ CopyLogs(s) \/ PushLogs(s) \/ InstallSnapshot(s)
          PROVE  [Store!Next]_(Store!vars)
      <3>1. UNCHANGED <<log, m_skipList, reflected, restores>>
        BY <2>1 DEF Elect, CopyLogs, PushLogs, InstallSnapshot, raftVars, storeVars
      <3>2. QED
        BY <3>1, StutterMap
    <2>2. QED
      BY <1>5, <2>1, CommitMap, RestartMap DEF RaftStep
  <1>6. QED
    BY <1>1, <1>2, <1>3, <1>4, <1>5 DEF Next

LEMMA InitMap ==
    ASSUME Init
    PROVE  Store!Init
  <1>1. \A s \in Server : m_skipList[s].value = EmptyList.value
    BY DEF Init
  <1>2. EmptyList.value = Store!Empty
    BY EmptyOK DEF EmptyMap, Store!Empty
  <1>3. Maps = [s \in Server |-> Store!Empty]
    BY <1>1, <1>2 DEF Maps
  <1>4. QED
    BY <1>3 DEF Init, Store!Init, Maps

\* While a Get handler does not run on after its clerk has moved to its next call, and while
\* InstallSnapshot brings no old snapshot, every replica is a copy of the log's writes: whatever
\* retries, timeouts and elections do, its list changes only by the next request of the log, executed
\* once however often it is there (GetCommandFromRaft with ifRequestDuplicate and
\* m_lastSnapShotRaftLogIndex); only where its server restarts or takes a snapshot over
\* (GetSnapShotFromRaft and the constructor) does it change otherwise, and then it has the keys of
\* what it reflects.  That their values survive is not promised, and does not hold.
THEOREM ReplicaIsLogHolds == ASSUME ~LateGets, ~OldInstall PROVE Spec => ReplicaIsLog
  <1>1. Init => Store!Init
    BY InitMap
  <1>2. CommitInv /\ RecentInv /\ ReplicaInv /\ ReplicaInv' /\ [Next]_vars => [Store!Next]_(Store!vars)
    BY NextMap
  <1>3. Spec => []RecentInv /\ []ReplicaInv
    BY RecentInvariant, ReplicaInvariant
  <1>4. QED
    BY <1>1, <1>2, <1>3, CommitInvariant, PTL DEF Spec, ReplicaIsLog, Store!Spec
=============================================================================
