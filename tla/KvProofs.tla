------------------------------ MODULE KvProofs ------------------------------
(***************************************************************************)
(* Proofs that KvServer answers a clerk only what has passed through the   *)
(* log, and from a store that is as recent as the call.                    *)
(***************************************************************************)
EXTENDS KvInv, LoopProofs, FiniteSetTheorems

\* Operations are pairs of a clerk and a positive number.
LEMMA OperationFact ==
    ASSUME NEW o \in Operation
    PROVE  /\ o[1] \in Clerk /\ o[2] \in Nat /\ o[2] >= 1 /\ o[2] <= Len(Script[o[1]])
           /\ o = <<o[1], o[2]>>
  <1>1. PICK c \in Clerk : o \in {c} \X (1..Len(Script[c]))
    BY DEF Operation
  <1>2. Len(Script[c]) \in Nat
    BY ServiceAssumption
  <1>3. QED
    BY <1>1, <1>2

LEMMA OperationMade ==
    ASSUME NEW c \in Clerk, NEW r \in 1..Len(Script[c])
    PROVE  <<c, r>> \in Operation
  BY DEF Operation

LEMMA ScriptLength == \A c \in Clerk : Len(Script[c]) \in Nat
  BY ServiceAssumption

\* The least and the greatest element of a set of numbers.
LEMMA MinFact ==
    ASSUME NEW S \in SUBSET Nat, S # {}
    PROVE  Min(S) \in S /\ \A y \in S : Min(S) <= y
  <1>1. \E x \in S : \A y \in S : x <= y
    BY LeastNat
  <1>2. QED
    BY <1>1 DEF Min

LEMMA MaxFact ==
    ASSUME NEW L \in Nat, NEW S \in SUBSET (0..L), 0 \in S
    PROVE  Max(S) \in S /\ \A y \in S : Max(S) >= y
  <1> DEFINE U == {n \in 0..L : \A y \in S : y <= n}
  <1>1. L \in U /\ U \in SUBSET Nat
    OBVIOUS
  <1>2. PICK n \in U : \A m \in U : n <= m
    BY <1>1, LeastNat
  <1>3. n \in S
    <2>1. CASE n = 0
      BY <2>1
    <2>2. CASE n # 0 /\ n \notin S
      <3>1. n - 1 \in 0..L /\ \A y \in S : y <= n - 1
        BY <2>2
      <3>2. n - 1 \in U
        BY <3>1
      <3>3. QED
        BY <1>2, <3>2
    <2>3. QED
      BY <2>1, <2>2
  <1>4. \E x \in S : \A y \in S : x >= y
    BY <1>2, <1>3
  <1>5. QED
    BY <1>4, Zenon DEF Max

\* The first index of an operation of the log.
LEMMA FirstIndexFact ==
    ASSUME LogInv, NEW o
    PROVE  /\ FirstIndex(o) \in Nat /\ FirstIndex(o) <= Len(log)
           /\ FirstIndex(o) # 0 <=> Passed(o)
           /\ Passed(o) => IsEntry(o, FirstIndex(o))
           /\ \A i \in DOMAIN log : log[i] = o => FirstIndex(o) <= i
  <1> DEFINE I == {i \in DOMAIN log : log[i] = o}
  <1>1. Len(log) \in Nat /\ DOMAIN log = 1..Len(log)
    BY DEF LogInv
  <1>2. FirstIndex(o) = IF I = {} THEN 0 ELSE Min(I)
    BY DEF FirstIndex
  <1>3. I \in SUBSET Nat
    BY <1>1
  <1>4. Passed(o) <=> I # {}
    BY DEF Passed
  <1>5. I # {} => Min(I) \in I /\ \A y \in I : Min(I) <= y
    BY <1>3, MinFact
  <1>6. I # {} => Min(I) \in 1..Len(log) /\ log[Min(I)] = o
    BY <1>1, <1>5
  <1>7. \A i \in DOMAIN log : log[i] = o => i \in I
    OBVIOUS
  <1> HIDE DEF I
  <1>8. QED
    BY <1>1, <1>2, <1>4, <1>5, <1>6, <1>7 DEF IsEntry

\* The number of a new call is not one of a running call of the clerk.
LEMMA FreshFact ==
    ASSUME NEW c, NEW R, IsFiniteSet(R), \A h \in R : h.call \in Nat
    PROVE  /\ Fresh(c, R) \in Nat \ {0}
           /\ \A h \in R : h.op[1] = c => h.call # Fresh(c, R)
  <1> DEFINE Q == {k \in R : k.op[1] = c}
             N == {h.call : h \in Q}
             F == 1..(Cardinality(R) + 1)
             f == [h \in Q |-> h.call]
  <1>1. Cardinality(R) \in Nat /\ IsFiniteSet(Q) /\ Cardinality(Q) <= Cardinality(R)
        /\ Cardinality(Q) \in Nat
    BY FS_Subset, FS_CardinalityType
  <1>2. f \in Surjection(Q, N)
    BY DEF Surjection
  <1>3. IsFiniteSet(N) /\ Cardinality(N) <= Cardinality(Q)
    BY <1>1, <1>2, FS_Surjection
  <1>4. Cardinality(N) \in Nat
    BY <1>3, FS_CardinalityType
  <1>5. F \ N # {}
    <2>1. SUFFICES ASSUME F \subseteq N PROVE FALSE
      OBVIOUS
    <2>2. Cardinality(F) <= Cardinality(N)
      BY <1>3, <2>1, FS_Subset
    <2>3. Cardinality(F) = Cardinality(R) + 1
      BY <1>1, FS_Interval
    <2>4. QED
      BY <1>1, <1>3, <1>4, <2>2, <2>3
  <1>6. F \ N \in SUBSET Nat
    BY <1>1
  <1>7. Min(F \ N) \in F \ N
    BY <1>5, <1>6, MinFact
  <1>8. Fresh(c, R) = Min(F \ N)
    BY DEF Fresh
  <1>9. Fresh(c, R) \in F \ N
    BY <1>7, <1>8
  <1>10. \A h \in R : h.op[1] = c => h.call \in N
    OBVIOUS
  <1> HIDE DEF N
  <1>11. QED
    BY <1>1, <1>9, <1>10

----------------------------------------------------------------------------
\* Sequences and what they hold.

LEMMA RangeFacts ==
    ASSUME NEW S, NEW s \in Seq(S)
    PROVE  /\ \A x : Range(Append(s, x)) = Range(s) \cup {x}
           /\ s # << >> => Range(Tail(s)) \subseteq Range(s) /\ Head(s) \in Range(s)
           /\ Range(s) \subseteq S
           /\ s \in Seq(Range(s))
  <1>1. ASSUME NEW x PROVE Range(Append(s, x)) = Range(s) \cup {x}
    <2>1. DOMAIN Append(s, x) = 1..Len(s) + 1 /\ DOMAIN s = 1..Len(s) /\ Len(s) \in Nat
      OBVIOUS
    <2>2. \A k \in 1..Len(s) : Append(s, x)[k] = s[k]
      OBVIOUS
    <2>3. Append(s, x)[Len(s) + 1] = x
      OBVIOUS
    <2>4. \A k \in 1..Len(s) + 1 : k \in 1..Len(s) \/ k = Len(s) + 1
      BY <2>1
    <2>5. Range(Append(s, x)) \subseteq Range(s) \cup {x}
      BY <2>1, <2>2, <2>3, <2>4 DEF Range
    <2>6. Len(s) + 1 \in 1..Len(s) + 1 /\ 1..Len(s) \subseteq 1..Len(s) + 1
      BY <2>1
    <2>7. Range(s) \cup {x} \subseteq Range(Append(s, x))
      BY <2>1, <2>2, <2>3, <2>6 DEF Range
    <2>8. QED
      BY <2>5, <2>7
  <1>2. ASSUME s # << >> PROVE Range(Tail(s)) \subseteq Range(s) /\ Head(s) \in Range(s)
    <2>1. /\ DOMAIN Tail(s) = 1..Len(s) - 1 /\ DOMAIN s = 1..Len(s)
          /\ Len(s) \in Nat \ {0}
          /\ Head(s) = s[1] /\ \A k \in 1..Len(s) - 1 : Tail(s)[k] = s[k + 1]
      BY <1>2
    <2>2. \A k \in 1..Len(s) - 1 : k + 1 \in 1..Len(s)
      BY <2>1
    <2>3. 1 \in DOMAIN s
      BY <2>1
    <2>4. Head(s) \in Range(s)
      BY <2>1, <2>3 DEF Range
    <2>5. QED
      BY <2>1, <2>2, <2>4 DEF Range
  <1>3. Range(s) \subseteq S
    BY DEF Range
  <1>4. s \in Seq(Range(s))
    <2>1. \A k \in 1..Len(s) : s[k] \in Range(s)
      BY DEF Range
    <2>2. QED
      BY <2>1
  <1>5. QED
    BY <1>1, <1>2, <1>3, <1>4

LEMMA RangeConcat ==
    ASSUME NEW S, NEW s \in Seq(S), NEW t \in Seq(S)
    PROVE  s \o t \in Seq(S) /\ Range(s \o t) = Range(s) \cup Range(t)
  <1>1. /\ s \o t \in Seq(S) /\ Len(s \o t) = Len(s) + Len(t) /\ Len(s) \in Nat /\ Len(t) \in Nat
        /\ \A k \in 1..Len(s) : (s \o t)[k] = s[k]
        /\ \A k \in 1..Len(t) : (s \o t)[Len(s) + k] = t[k]
    OBVIOUS
  <1>2. DOMAIN s = 1..Len(s) /\ DOMAIN t = 1..Len(t) /\ DOMAIN (s \o t) = 1..Len(s) + Len(t)
    BY <1>1
  <1>3. \A k \in 1..Len(s) + Len(t) : k \in 1..Len(s) \/ \E j \in 1..Len(t) : k = Len(s) + j
    <2>1. ASSUME NEW k \in 1..Len(s) + Len(t), k \notin 1..Len(s)
          PROVE  k - Len(s) \in 1..Len(t) /\ k = Len(s) + (k - Len(s))
      BY <1>1, <2>1
    <2>2. QED
      BY <2>1
  <1>4. /\ \A k \in 1..Len(s) : k \in 1..Len(s) + Len(t)
        /\ \A k \in 1..Len(t) : Len(s) + k \in 1..Len(s) + Len(t)
    BY <1>1
  <1>5. ASSUME NEW x \in Range(s \o t) PROVE x \in Range(s) \cup Range(t)
    <2>1. PICK k \in 1..Len(s) + Len(t) : x = (s \o t)[k]
      BY <1>2 DEF Range
    <2>2. CASE k \in 1..Len(s)
      BY <1>1, <1>2, <2>1, <2>2 DEF Range
    <2>3. CASE k \notin 1..Len(s)
      BY <1>1, <1>2, <1>3, <2>1, <2>3 DEF Range
    <2>4. QED
      BY <2>2, <2>3
  <1>6. Range(s) \cup Range(t) \subseteq Range(s \o t)
    BY <1>1, <1>2, <1>4 DEF Range
  <1>7. QED
    BY <1>1, <1>5, <1>6

LEMMA IsSeqFacts ==
    ASSUME NEW s, IsSeq(s)
    PROVE  /\ \A x : IsSeq(Append(s, x)) /\ Range(Append(s, x)) = Range(s) \cup {x}
           /\ s # << >> => /\ IsSeq(Tail(s)) /\ Range(Tail(s)) \subseteq Range(s)
                           /\ Head(s) \in Range(s)
  <1>1. s \in Seq(Range(s))
    BY DEF IsSeq
  <1>2. ASSUME NEW x PROVE IsSeq(Append(s, x)) /\ Range(Append(s, x)) = Range(s) \cup {x}
    <2>1. s \in Seq(Range(s) \cup {x})
      BY <1>1, SeqWiden
    <2>2. Append(s, x) \in Seq(Range(s) \cup {x})
      BY <2>1
    <2>3. QED
      BY <1>1, <2>2, RangeFacts DEF IsSeq
  <1>3. ASSUME s # << >>
        PROVE IsSeq(Tail(s)) /\ Range(Tail(s)) \subseteq Range(s) /\ Head(s) \in Range(s)
    <2>1. Tail(s) \in Seq(Range(s))
      BY <1>1, <1>3
    <2>2. QED
      BY <1>1, <1>3, <2>1, RangeFacts DEF IsSeq
  <1>4. QED
    BY <1>2, <1>3

LEMMA IsSeqConcat ==
    ASSUME NEW s, NEW t, IsSeq(s), IsSeq(t)
    PROVE  IsSeq(s \o t) /\ Range(s \o t) = Range(s) \cup Range(t)
  <1> DEFINE S == Range(s) \cup Range(t)
  <1>1. s \in Seq(S) /\ t \in Seq(S)
    BY SeqWiden DEF IsSeq
  <1>2. QED
    BY <1>1, RangeConcat DEF IsSeq

----------------------------------------------------------------------------
\* What a step leaves alone stays as it was.

LEMMA ClerkSame ==
    ASSUME ClerkInv, UNCHANGED <<clerkVars, log>>
    PROVE  ClerkInv'
  BY DEF ClerkInv, ClerkTypes, EarlierAcked, AckedIsCommitted, FirstIndex, clerkVars

LEMMA LogSame ==
    ASSUME LogInv, UNCHANGED <<log, pending, m_requestId>>
    PROVE  LogInv'
  BY DEF LogInv, Asked

\* What a step makes of the messages, tables and files of server s, over the same log.
DeliveryNext(s) ==
    /\ IsSeq(hand'[s]) /\ \A m \in Range(hand'[s]) : EntryInv(m)
    /\ IsSeq(applyChan'[s])
    /\ \A m \in Range(applyChan'[s]) :
           IF m.op = None THEN SnapshotInv(m.snapshot) /\ m.index \in Nat ELSE EntryInv(m)
    /\ loop'[s] # None => LoopInv(loop'[s])
    /\ TableInv(m_last_RequestId'[s])
    /\ HasSnapshot(s)' => SnapshotInv(snapshotFile'[s])

LEMMA DeliveryNextHolds ==
    ASSUME log' = log, NEW s \in Server, DeliveryNext(s)
    PROVE  DeliveryAt(s)'
  <1>1. \A o, i : IsEntry(o, i) <=> IsEntry(o, i)'
    BY DEF IsEntry
  <1>2. \A m : EntryInv(m) <=> EntryInv(m)'
    BY <1>1 DEF EntryInv
  <1>3. \A m : LoopInv(m) <=> LoopInv(m)'
    BY <1>1 DEF LoopInv
  <1>4. \A t : TableInv(t) <=> TableInv(t)'
    BY DEF TableInv, Passed
  <1>5. \A t : SnapshotInv(t) <=> SnapshotInv(t)'
    BY <1>4 DEF SnapshotInv
  <1>6. QED
    BY <1>2, <1>3, <1>4, <1>5 DEF DeliveryNext, DeliveryAt

\* Server t keeps its messages, tables and files.
DeliveryKept(t) ==
    /\ hand'[t] = hand[t] /\ applyChan'[t] = applyChan[t] /\ loop'[t] = loop[t]
    /\ m_last_RequestId'[t] = m_last_RequestId[t] /\ snapshotFile'[t] = snapshotFile[t]
    /\ m_lastSnapshotIndex'[t] = m_lastSnapshotIndex[t]

LEMMA DeliveryKeptHolds ==
    ASSUME DeliveryInv, NEW t \in Server, DeliveryKept(t)
    PROVE  DeliveryNext(t)
  BY Zenon DEF DeliveryInv, DeliveryAt, DeliveryNext, DeliveryKept, HasSnapshot

LEMMA DeliveryStep ==
    ASSUME DeliveryInv, log' = log, DeliveryTypes',
           \A s \in Server : DeliveryKept(s) \/ DeliveryNext(s)
    PROVE  DeliveryInv'
  <1>1. ASSUME NEW s \in Server PROVE DeliveryAt(s)'
    BY DeliveryKeptHolds, DeliveryNextHolds
  <1>2. QED
    BY <1>1 DEF DeliveryInv

LEMMA DeliverySame ==
    ASSUME DeliveryInv,
           UNCHANGED <<log, leader, nodeVars, snapshotFile, applyChan, storeVars, loop>>
    PROVE  DeliveryInv'
  <1>1. DeliveryTypes'
    BY DEF DeliveryInv, DeliveryTypes, nodeVars, storeVars
  <1>2. \A s \in Server : DeliveryKept(s)
    BY DEF DeliveryKept, nodeVars, storeVars
  <1>3. QED
    BY <1>1, <1>2, DeliveryStep

\* All requests of a client up to one that has passed through the log have done so.
LEMMA EarlierPassed ==
    ASSUME ClerkInv, LogInv, NEW o \in Operation, Asked(o), Passed(o)
    PROVE  \A r \in 1..o[2] : Passed(<<o[1], r>>)
  <1> SUFFICES ASSUME NEW r \in 1..o[2] PROVE Passed(<<o[1], r>>)
    OBVIOUS
  <1>1. o[1] \in Clerk /\ o[2] \in Nat /\ o = <<o[1], o[2]>>
    BY OperationFact
  <1>2. m_requestId[o[1]] \in Nat /\ o[2] <= m_requestId[o[1]]
    BY <1>1 DEF ClerkInv, ClerkTypes, Asked
  <1>3. CASE r = o[2]
    BY <1>1, <1>3
  <1>4. CASE r # o[2]
    <2>1. r \in 1..m_requestId[o[1]] /\ r < m_requestId[o[1]]
      BY <1>1, <1>2, <1>4
    <2>2. <<o[1], r>> \in acked
      BY <1>1, <2>1 DEF ClerkInv, EarlierAcked
    <2>3. FirstIndex(<<o[1], r>>) # 0
      BY <2>2 DEF ClerkInv, AckedIsCommitted
    <2>4. QED
      BY <2>3, FirstIndexFact
  <1>5. QED
    BY <1>3, <1>4

LEMMA EntryPassed ==
    ASSUME ClerkInv, LogInv, NEW o, NEW i, IsEntry(o, i)
    PROVE  o \in Operation /\ Asked(o) /\ Passed(o)
  <1>1. i \in DOMAIN log /\ log[i] = o
    BY DEF IsEntry
  <1>2. o \in Range(log) /\ Passed(o)
    BY <1>1, Zenon DEF Range, Passed
  <1>3. Range(log) \subseteq Operation
    BY RangeFacts DEF LogInv
  <1>4. QED
    BY <1>2, <1>3 DEF LogInv

\* An executed request is put into the table.
LEMMA TableSet ==
    ASSUME NEW last, TableInv(last), NEW o \in Operation,
           \A r \in 1..o[2] : Passed(<<o[1], r>>)
    PROVE  TableInv([last EXCEPT ![o[1]] = o[2]])
  <1> DEFINE new == [last EXCEPT ![o[1]] = o[2]]
  <1>1. o[1] \in Clerk /\ o[2] \in Nat
    BY OperationFact
  <1>2. new \in [Clerk -> Nat]
    BY <1>1 DEF TableInv
  <1>3. ASSUME NEW c \in Clerk, NEW r \in 1..new[c] PROVE Passed(<<c, r>>)
    <2>1. CASE c = o[1]
      BY <1>1, <1>3, <2>1 DEF TableInv
    <2>2. CASE c # o[1]
      BY <1>1, <1>3, <2>2 DEF TableInv
    <2>3. QED
      BY <2>1, <2>2
  <1> HIDE DEF new
  <1>4. TableInv(new)
    BY <1>2, <1>3 DEF TableInv
  <1>5. QED
    BY <1>4 DEF new

----------------------------------------------------------------------------
\* Messages, tables and files.

\* What the invariant says of server s.
LEMMA DeliveryOf ==
    ASSUME DeliveryInv, NEW s \in Server
    PROVE  DeliveryAt(s) /\ DeliveryTypes
  BY DEF DeliveryInv

LEMMA MakeSnapShotDelivery ==
    ASSUME CommitInv, NEW s \in Server, MakeSnapShot(s)
    PROVE  DeliveryInv'
  <1>1. DeliveryInv /\ DeliveryTypes /\ DeliveryAt(s)
    BY DeliveryOf DEF CommitInv
  <1>2. /\ UNCHANGED <<log, leader, lastApplied, m_lastSnapshotIndex, hand, applyChan,
                       m_last_RequestId, m_lastSnapShotRaftLogIndex, reflected>>
        /\ snapshotFile' = [snapshotFile EXCEPT ![s] = getSnapShotData(s)]
        /\ loop' = [loop EXCEPT ![s].pc = "saved"]
        /\ loop[s] # None
    BY DEF MakeSnapShot, raftVars, nodeVars, storeVars
  <1>3. DeliveryTypes'
    BY <1>1, <1>2 DEF DeliveryTypes
  <1>4. \A t \in Server : t # s => DeliveryKept(t)
    BY <1>1, <1>2 DEF DeliveryTypes, DeliveryKept
  <1>5. SnapshotInv(getSnapShotData(s))
    BY <1>1 DEF DeliveryTypes, DeliveryAt, SnapshotInv, getSnapShotData
  <1>6. LoopInv([loop[s] EXCEPT !.pc = "saved"])
    BY <1>1, <1>2 DEF DeliveryAt, LoopInv
  <1>7. snapshotFile'[s] = getSnapShotData(s) /\ loop'[s] = [loop[s] EXCEPT !.pc = "saved"]
    BY <1>1, <1>2 DEF DeliveryTypes
  <1>8. DeliveryNext(s)
    BY <1>1, <1>2, <1>5, <1>6, <1>7 DEF DeliveryAt, DeliveryNext, HasSnapshot
  <1>9. QED
    BY <1>1, <1>2, <1>3, <1>4, <1>8, DeliveryStep

LEMMA PersistSnapshotIndexDelivery ==
    ASSUME CommitInv, NEW s \in Server, PersistSnapshotIndex(s)
    PROVE  DeliveryInv'
  <1>1. DeliveryInv /\ DeliveryTypes /\ DeliveryAt(s)
    BY DeliveryOf DEF CommitInv
  <1>2. /\ UNCHANGED <<log, leader, lastApplied, snapshotFile, hand, applyChan,
                       m_last_RequestId, m_lastSnapShotRaftLogIndex, reflected>>
        /\ m_lastSnapshotIndex' = [m_lastSnapshotIndex EXCEPT ![s] = loop[s].index]
        /\ loop' = [loop EXCEPT ![s].pc = "persisted"]
        /\ loop[s] # None /\ loop[s].pc = "saved"
    BY DEF PersistSnapshotIndex, raftVars, storeVars
  <1>3. LoopInv(loop[s]) /\ loop[s].index \in Nat
    BY <1>1, <1>2 DEF DeliveryAt, LoopInv
  <1>4. DeliveryTypes'
    BY <1>1, <1>2, <1>3 DEF DeliveryTypes
  <1>5. \A t \in Server : t # s => DeliveryKept(t)
    BY <1>1, <1>2 DEF DeliveryTypes, DeliveryKept
  <1>6. LoopInv([loop[s] EXCEPT !.pc = "persisted"])
    BY <1>3 DEF LoopInv
  <1>7. loop'[s] = [loop[s] EXCEPT !.pc = "persisted"]
    BY <1>1, <1>2 DEF DeliveryTypes
  <1>8. DeliveryNext(s)
    BY <1>1, <1>2, <1>6, <1>7 DEF DeliveryAt, DeliveryNext, HasSnapshot
  <1>9. QED
    BY <1>1, <1>2, <1>4, <1>5, <1>8, DeliveryStep

LEMMA CopyLogsDelivery ==
    ASSUME CommitInv, NEW s \in Server, CopyLogs(s)
    PROVE  DeliveryInv'
  <1> DEFINE L == Len(log) - lastApplied[s]
             new == [k \in 1..L |-> [op |-> log[lastApplied[s] + k], index |-> lastApplied[s] + k]]
  <1>1. DeliveryInv /\ DeliveryTypes /\ DeliveryAt(s)
    BY DeliveryOf DEF CommitInv
  <1>2. /\ UNCHANGED <<log, leader, m_lastSnapshotIndex, snapshotFile, applyChan, loop,
                       m_last_RequestId, m_lastSnapShotRaftLogIndex, reflected>>
        /\ hand' = [hand EXCEPT ![s] = new]
        /\ lastApplied' = [lastApplied EXCEPT ![s] = Len(log)]
        /\ lastApplied[s] < Len(log)
    BY DEF CopyLogs, raftVars, storeVars
  <1>3. /\ Len(log) \in Nat /\ DOMAIN log = 1..Len(log) /\ L \in Nat /\ lastApplied[s] \in Nat
        /\ \A i \in 1..Len(log) : log[i] \in Operation
    BY <1>1, <1>2 DEF DeliveryTypes, CommitInv, LogInv
  <1>4. DeliveryTypes'
    BY <1>1, <1>2, <1>3 DEF DeliveryTypes
  <1>5. \A t \in Server : t # s => DeliveryKept(t)
    BY <1>1, <1>2 DEF DeliveryTypes, DeliveryKept
  <1>6. ASSUME NEW k \in 1..L PROVE EntryInv(new[k])
    <2>1. lastApplied[s] + k \in 1..Len(log)
      BY <1>3
    <2>2. new[k] = [op |-> log[lastApplied[s] + k], index |-> lastApplied[s] + k]
      OBVIOUS
    <2>3. log[lastApplied[s] + k] \in Operation /\ lastApplied[s] + k \in Nat
      BY <1>3, <2>1
    <2>4. QED
      BY <1>3, <2>1, <2>2, <2>3 DEF EntryInv, IsEntry
  <1>7. DOMAIN new = 1..L
    OBVIOUS
  <1> HIDE DEF new
  <1>8. new \in Seq(Range(new))
    <2>1. \A k \in 1..L : new[k] \in Range(new)
      BY <1>7, Zenon DEF Range
    <2>2. new = [k \in 1..L |-> new[k]]
      BY <1>7 DEF new
    <2>3. QED
      BY <1>3, <2>1, <2>2
  <1>9. \A m \in Range(new) : EntryInv(m)
    BY <1>6, <1>7, Zenon DEF Range
  <1>10. hand'[s] = new
    BY <1>1, <1>2 DEF DeliveryTypes
  <1>11. DeliveryNext(s)
    BY <1>1, <1>2, <1>8, <1>9, <1>10 DEF DeliveryAt, DeliveryNext, HasSnapshot, IsSeq
  <1>12. QED
    BY <1>1, <1>2, <1>4, <1>5, <1>11, DeliveryStep

LEMMA PushLogsDelivery ==
    ASSUME CommitInv, NEW s \in Server, PushLogs(s)
    PROVE  DeliveryInv'
  <1>1. DeliveryInv /\ DeliveryTypes /\ DeliveryAt(s)
    BY DeliveryOf DEF CommitInv
  <1>2. /\ UNCHANGED <<log, leader, m_lastSnapshotIndex, snapshotFile, lastApplied, loop,
                       m_last_RequestId, m_lastSnapShotRaftLogIndex, reflected>>
        /\ hand' = [hand EXCEPT ![s] = Tail(@)]
        /\ applyChan' = [applyChan EXCEPT ![s] = Append(@, Head(hand[s]))]
        /\ hand[s] # << >>
    BY DEF PushLogs, raftVars, storeVars
  <1>3. DeliveryTypes'
    BY <1>1, <1>2 DEF DeliveryTypes
  <1>4. \A t \in Server : t # s => DeliveryKept(t)
    BY <1>1, <1>2 DEF DeliveryTypes, DeliveryKept
  <1>5. PICK m : m = Head(hand[s])
    OBVIOUS
  <1>6. hand'[s] = Tail(hand[s]) /\ applyChan'[s] = Append(applyChan[s], m)
    BY <1>1, <1>2, <1>5 DEF DeliveryTypes
  <1>7. IsSeq(applyChan'[s]) /\ Range(applyChan'[s]) = Range(applyChan[s]) \cup {m}
    BY <1>1, <1>6, IsSeqFacts DEF DeliveryAt
  <1>8. IsSeq(hand'[s]) /\ Range(hand'[s]) \subseteq Range(hand[s]) /\ m \in Range(hand[s])
    BY <1>1, <1>2, <1>5, <1>6, IsSeqFacts DEF DeliveryAt
  <1>9. \A e : EntryInv(e) => e.op # None
    BY NoneAssumption DEF EntryInv
  <1>10. DeliveryNext(s)
    BY <1>1, <1>2, <1>7, <1>8, <1>9 DEF DeliveryAt, DeliveryNext, HasSnapshot
  <1>11. QED
    BY <1>1, <1>2, <1>3, <1>4, <1>10, DeliveryStep

LEMMA InstallSnapshotDelivery ==
    ASSUME CommitInv, NEW s \in Server, InstallSnapshot(s)
    PROVE  DeliveryInv'
  <1> DEFINE index == m_lastSnapshotIndex[leader]
             m == [op |-> None, index |-> index, snapshot |-> snapshotFile[leader]]
  <1>1. DeliveryInv /\ DeliveryTypes /\ DeliveryAt(s)
    BY DeliveryOf DEF CommitInv
  <1>2. /\ UNCHANGED <<log, leader, hand, loop, m_last_RequestId, m_lastSnapShotRaftLogIndex, reflected>>
        /\ lastApplied' = [lastApplied EXCEPT ![s] = IF index > @ THEN index ELSE @]
        /\ snapshotFile' = [snapshotFile EXCEPT ![s] = snapshotFile[leader]]
        /\ m_lastSnapshotIndex' = [m_lastSnapshotIndex EXCEPT ![s] = index]
        /\ applyChan' = [applyChan EXCEPT ![s] = Append(@, m)]
        /\ leader \in Server /\ index > m_lastSnapshotIndex[s]
    BY <1>1 DEF InstallSnapshot, Accepts, raftVars, storeVars, DeliveryTypes
  <1>3. index \in Nat /\ index > 0
    BY <1>1, <1>2 DEF DeliveryTypes
  <1>4. SnapshotInv(snapshotFile[leader])
    BY <1>1, <1>2, <1>3 DEF DeliveryInv, DeliveryAt, HasSnapshot
  <1>5. DeliveryTypes'
    BY <1>1, <1>2, <1>3 DEF DeliveryTypes
  <1>6. \A t \in Server : t # s => DeliveryKept(t)
    BY <1>1, <1>2 DEF DeliveryTypes, DeliveryKept
  <1>7. /\ snapshotFile'[s] = snapshotFile[leader]
        /\ applyChan'[s] = Append(applyChan[s], m)
    BY <1>1, <1>2 DEF DeliveryTypes
  <1>8. m.op = None /\ m.index = index /\ m.snapshot = snapshotFile[leader]
    OBVIOUS
  <1> HIDE DEF m
  <1>9. IsSeq(applyChan'[s]) /\ Range(applyChan'[s]) = Range(applyChan[s]) \cup {m}
    BY <1>1, <1>7, IsSeqFacts DEF DeliveryAt
  <1>10. DeliveryNext(s)
    BY <1>1, <1>2, <1>3, <1>4, <1>7, <1>8, <1>9 DEF DeliveryAt, DeliveryNext, HasSnapshot
  <1>11. QED
    BY <1>1, <1>2, <1>5, <1>6, <1>10, DeliveryStep

\* The table after ExecuteGetOpOnKVDB or ExecutePutOpOnKVDB of an operation of the log.
LEMMA TableAfter ==
    ASSUME CommitInv, NEW s \in Server, NEW o \in Operation, Asked(o), Passed(o),
           m_last_RequestId' = [m_last_RequestId EXCEPT ![s][o[1]] = o[2]]
    PROVE  /\ DOMAIN m_last_RequestId' = Server
           /\ TableInv(m_last_RequestId'[s])
           /\ \A t \in Server : t # s => m_last_RequestId'[t] = m_last_RequestId[t]
  <1>1. TableInv(m_last_RequestId[s]) /\ DOMAIN m_last_RequestId = Server
    BY DeliveryOf DEF CommitInv, DeliveryAt, DeliveryTypes
  <1>2. \A r \in 1..o[2] : Passed(<<o[1], r>>)
    BY EarlierPassed DEF CommitInv
  <1>3. m_last_RequestId'[s] = [m_last_RequestId[s] EXCEPT ![o[1]] = o[2]]
    BY <1>1
  <1>4. TableInv([m_last_RequestId[s] EXCEPT ![o[1]] = o[2]])
    BY <1>1, <1>2, TableSet
  <1>5. QED
    BY <1>1, <1>3, <1>4

\* A Get handler puts its request into the table of its server.
LEMMA ExecuteGetDelivery ==
    ASSUME CommitInv, NEW s \in Server, NEW o \in Operation, Asked(o), Passed(o),
           m_last_RequestId' = [m_last_RequestId EXCEPT ![s][o[1]] = o[2]],
           UNCHANGED <<log, leader, nodeVars, snapshotFile, applyChan, loop, reflected,
                       m_lastSnapShotRaftLogIndex>>
    PROVE  DeliveryInv'
  <1>1. DeliveryInv /\ DeliveryTypes /\ DeliveryAt(s)
    BY DeliveryOf DEF CommitInv
  <1>2. /\ DOMAIN m_last_RequestId' = Server
        /\ TableInv(m_last_RequestId'[s])
        /\ \A t \in Server : t # s => m_last_RequestId'[t] = m_last_RequestId[t]
    BY TableAfter
  <1>3. DeliveryTypes'
    BY <1>1, <1>2 DEF DeliveryTypes, nodeVars
  <1>4. \A t \in Server : t # s => DeliveryKept(t)
    BY <1>1, <1>2 DEF DeliveryTypes, DeliveryKept, nodeVars
  <1>5. DeliveryNext(s)
    BY <1>1, <1>2 DEF DeliveryAt, DeliveryNext, HasSnapshot, nodeVars
  <1>6. QED
    BY <1>1, <1>2, <1>3, <1>4, <1>5, DeliveryStep

\* What the loop takes from applyChan.
LEMMA ChannelHead ==
    ASSUME DeliveryInv, NEW s \in Server, applyChan[s] # << >>
    PROVE  LET m == Head(applyChan[s]) IN
           /\ IsSeq(Tail(applyChan[s]))
           /\ Range(Tail(applyChan[s])) \subseteq Range(applyChan[s])
           /\ m \in Range(applyChan[s])
           /\ m.op = None => SnapshotInv(m.snapshot) /\ m.index \in Nat
           /\ m.op # None => EntryInv(m)
  <1>1. DeliveryAt(s)
    BY DeliveryOf
  <1>2. QED
    BY <1>1, IsSeqFacts DEF DeliveryAt

LEMMA GetCommandDelivery ==
    ASSUME CommitInv, NEW s \in Server, NEW m, EntryInv(m), GetCommandFromRaft(s, m),
           IsSeq(applyChan'[s]), Range(applyChan'[s]) \subseteq Range(applyChan[s]),
           DOMAIN applyChan' = Server, \A t \in Server : t # s => applyChan'[t] = applyChan[t],
           UNCHANGED <<log, leader, nodeVars, snapshotFile>>
    PROVE  DeliveryInv'
  <1>1. DeliveryInv /\ DeliveryTypes /\ DeliveryAt(s)
    BY DeliveryOf DEF CommitInv
  <1>2. m.op \in Operation /\ m.index \in Nat /\ IsEntry(m.op, m.index)
    BY DEF EntryInv
  <1>3. Asked(m.op) /\ Passed(m.op)
    BY <1>2, EntryPassed DEF CommitInv
  <1>4. /\ DOMAIN m_last_RequestId' = Server
        /\ TableInv(m_last_RequestId'[s])
        /\ \A t \in Server : t # s => m_last_RequestId'[t] = m_last_RequestId[t]
    <2>1. CASE UNCHANGED m_last_RequestId
      BY <1>1, <2>1 DEF DeliveryTypes, DeliveryAt
    <2>2. CASE m_last_RequestId' = [m_last_RequestId EXCEPT ![s][m.op[1]] = m.op[2]]
      BY <1>2, <1>3, <2>2, TableAfter
    <2>3. QED
      BY <2>1, <2>2 DEF GetCommandFromRaft, ExecutePutOpOnKVDB
  <1>5. \/ UNCHANGED <<loop, reflected, m_lastSnapShotRaftLogIndex>>
        \/ /\ loop' = [loop EXCEPT ![s] = [op |-> m.op, index |-> m.index, pc |-> "executed"]]
           /\ reflected' = [reflected EXCEPT ![s] = IF m.index > @ THEN m.index ELSE @]
           /\ UNCHANGED m_lastSnapShotRaftLogIndex
    BY DEF GetCommandFromRaft
  <1>6. LoopInv([op |-> m.op, index |-> m.index, pc |-> "executed"])
    BY <1>2 DEF LoopInv
  <1>7. DeliveryTypes'
    BY <1>1, <1>2, <1>4, <1>5 DEF DeliveryTypes, nodeVars
  <1>8. loop'[s] = loop[s] \/ loop'[s] = [op |-> m.op, index |-> m.index, pc |-> "executed"]
    BY <1>1, <1>5 DEF DeliveryTypes
  <1>9. \A t \in Server : t # s => DeliveryKept(t)
    BY <1>1, <1>4, <1>5 DEF DeliveryTypes, DeliveryKept, nodeVars
  <1>10. DeliveryNext(s)
    BY <1>1, <1>4, <1>6, <1>8 DEF DeliveryAt, DeliveryNext, HasSnapshot, nodeVars
  <1>11. QED
    BY <1>1, <1>7, <1>9, <1>10, DeliveryStep

LEMMA GetSnapShotDelivery ==
    ASSUME CommitInv, NEW s \in Server, NEW m, SnapshotInv(m.snapshot), m.index \in Nat,
           GetSnapShotFromRaft(s, m),
           IsSeq(applyChan'[s]), Range(applyChan'[s]) \subseteq Range(applyChan[s]),
           DOMAIN applyChan' = Server, \A t \in Server : t # s => applyChan'[t] = applyChan[t],
           UNCHANGED <<log, leader, nodeVars, snapshotFile>>
    PROVE  DeliveryInv'
  <1>1. DeliveryInv /\ DeliveryTypes /\ DeliveryAt(s)
    BY DeliveryOf DEF CommitInv
  <1>2. /\ m_last_RequestId' = [m_last_RequestId EXCEPT ![s] = m.snapshot.last]
        /\ reflected' = [reflected EXCEPT ![s] = m.snapshot.at]
        /\ m_lastSnapShotRaftLogIndex' = [m_lastSnapShotRaftLogIndex EXCEPT ![s] = m.index]
        /\ UNCHANGED loop
    BY DEF GetSnapShotFromRaft, parseFromString
  <1>3. m.snapshot.at \in Nat /\ TableInv(m.snapshot.last)
    BY DEF SnapshotInv
  <1>4. DeliveryTypes'
    BY <1>1, <1>2, <1>3 DEF DeliveryTypes, nodeVars
  <1>5. \A t \in Server : t # s => DeliveryKept(t)
    BY <1>1, <1>2 DEF DeliveryTypes, DeliveryKept, nodeVars
  <1>6. m_last_RequestId'[s] = m.snapshot.last
    BY <1>1, <1>2 DEF DeliveryTypes
  <1>7. DeliveryNext(s)
    BY <1>1, <1>2, <1>3, <1>6 DEF DeliveryAt, DeliveryNext, HasSnapshot, nodeVars
  <1>8. QED
    BY <1>1, <1>4, <1>5, <1>7, DeliveryStep

LEMMA ReadLoopDelivery ==
    ASSUME CommitInv, NEW s \in Server, ReadRaftApplyCommandLoop(s)
    PROVE  DeliveryInv'
  <1> DEFINE m == Head(applyChan[s])
  <1>1. DeliveryInv /\ DOMAIN applyChan = Server
    BY DEF CommitInv, DeliveryInv, DeliveryTypes
  <1>2. /\ applyChan[s] # << >>
        /\ applyChan' = [applyChan EXCEPT ![s] = Tail(@)]
        /\ IF m.op # None THEN GetCommandFromRaft(s, m) ELSE GetSnapShotFromRaft(s, m)
        /\ UNCHANGED <<log, leader, nodeVars, snapshotFile>>
    BY DEF ReadRaftApplyCommandLoop, raftVars
  <1>3. /\ IsSeq(Tail(applyChan[s]))
        /\ Range(Tail(applyChan[s])) \subseteq Range(applyChan[s])
        /\ m.op = None => SnapshotInv(m.snapshot) /\ m.index \in Nat
        /\ m.op # None => EntryInv(m)
    BY <1>1, <1>2, ChannelHead
  <1>4. /\ DOMAIN applyChan' = Server
        /\ applyChan'[s] = Tail(applyChan[s])
        /\ \A t \in Server : t # s => applyChan'[t] = applyChan[t]
    BY <1>1, <1>2
  <1>5. IsSeq(applyChan'[s]) /\ Range(applyChan'[s]) \subseteq Range(applyChan[s])
    BY <1>3, <1>4
  <1> HIDE DEF m
  <1>6. QED
    BY <1>2, <1>3, <1>4, <1>5, GetCommandDelivery, GetSnapShotDelivery

LEMMA SendMessageDelivery ==
    ASSUME CommitInv, NEW s \in Server, SendMessageToWaitChan(s)
    PROVE  DeliveryInv'
  <1>1. DeliveryInv /\ DeliveryTypes /\ DeliveryAt(s)
    BY DeliveryOf DEF CommitInv
  <1>2. /\ loop' = [loop EXCEPT ![s] = None]
        /\ UNCHANGED <<log, leader, nodeVars, snapshotFile, applyChan, storeVars>>
    BY DEF SendMessageToWaitChan, raftVars
  <1>3. DeliveryTypes'
    BY <1>1, <1>2 DEF DeliveryTypes, nodeVars, storeVars
  <1>4. \A t \in Server : t # s => DeliveryKept(t)
    BY <1>1, <1>2 DEF DeliveryTypes, DeliveryKept, nodeVars, storeVars
  <1>5. loop'[s] = None
    BY <1>1, <1>2 DEF DeliveryTypes
  <1>6. DeliveryNext(s)
    BY <1>1, <1>2, <1>5 DEF DeliveryAt, DeliveryNext, HasSnapshot, nodeVars, storeVars
  <1>7. QED
    BY <1>1, <1>2, <1>3, <1>4, <1>6, DeliveryStep

\* The snapshot file with which s starts again is its own, or one that it was about to install.
LEMMA RestartFile ==
    ASSUME CommitInv, NEW s \in Server, Restart(s)
    PROVE  /\ DOMAIN snapshotFile' = Server
           /\ \A t \in Server : t # s => snapshotFile'[t] = snapshotFile[t]
           /\ \/ snapshotFile'[s] = snapshotFile[s] /\ (HasSnapshot(s)' => HasSnapshot(s))
              \/ \E l \in Server : /\ HasSnapshot(l) /\ snapshotFile'[s] = snapshotFile[l]
                                   /\ m_lastSnapshotIndex[s] < m_lastSnapshotIndex[l]
           /\ HasSnapshot(s)' => SnapshotInv(snapshotFile'[s])
  <1>1. DeliveryInv /\ DeliveryTypes /\ DeliveryAt(s)
    BY DeliveryOf DEF CommitInv
  <1>2. loop' = [loop EXCEPT ![s] = None] /\ m_lastSnapshotIndex' = m_lastSnapshotIndex
    BY DEF Restart
  <1>3. loop'[s] = None
    BY <1>1, <1>2 DEF DeliveryTypes
  <1>4. CASE snapshotFile' = snapshotFile
    <2>1. HasSnapshot(s)' => HasSnapshot(s)
      BY <1>2, <1>3, <1>4 DEF HasSnapshot
    <2>2. QED
      BY <1>1, <1>4, <2>1 DEF DeliveryTypes, DeliveryAt
  <1>5. CASE Accepts(s) /\ snapshotFile' = [snapshotFile EXCEPT ![s] = snapshotFile[leader]]
    <2>1. leader \in Server /\ m_lastSnapshotIndex[leader] > m_lastSnapshotIndex[s]
      BY <1>1, <1>5 DEF Accepts, DeliveryTypes
    <2>2. m_lastSnapshotIndex[leader] \in Nat /\ m_lastSnapshotIndex[s] \in Nat
      BY <1>1, <2>1 DEF DeliveryTypes
    <2>3. HasSnapshot(leader)
      BY <2>1, <2>2 DEF HasSnapshot
    <2>4. SnapshotInv(snapshotFile[leader])
      BY <1>1, <2>1, <2>3 DEF DeliveryInv, DeliveryAt
    <2>5. DOMAIN snapshotFile = Server
      BY <1>1 DEF DeliveryTypes
    <2>6. /\ DOMAIN snapshotFile' = Server /\ snapshotFile'[s] = snapshotFile[leader]
          /\ \A t \in Server : t # s => snapshotFile'[t] = snapshotFile[t]
      BY <1>5, <2>5
    <2>7. m_lastSnapshotIndex[s] < m_lastSnapshotIndex[leader]
      BY <2>1, <2>2
    <2>8. SnapshotInv(snapshotFile'[s])
      BY <2>4, <2>6
    <2>9. QED
      BY <2>1, <2>3, <2>6, <2>7, <2>8, Zenon
  <1>6. QED
    BY <1>4, <1>5 DEF Restart

LEMMA RestartDelivery ==
    ASSUME CommitInv, NEW s \in Server, Restart(s)
    PROVE  DeliveryInv'
  <1>1. DeliveryInv /\ DeliveryTypes /\ DeliveryAt(s)
    BY DeliveryOf DEF CommitInv
  <1> DEFINE sn == snapshotFile'[s]
             none == [c \in Clerk |-> 0]
  <1>2. /\ applyChan' = [applyChan EXCEPT ![s] = << >>]
        /\ hand' = [hand EXCEPT ![s] = << >>]
        /\ loop' = [loop EXCEPT ![s] = None]
        /\ lastApplied' = [lastApplied EXCEPT ![s] = m_lastSnapshotIndex[s]]
        /\ m_lastSnapShotRaftLogIndex' = [m_lastSnapShotRaftLogIndex EXCEPT ![s] = 0]
        /\ leader' = IF leader = s THEN None ELSE leader
        /\ UNCHANGED <<log, m_lastSnapshotIndex>>
    BY DEF Restart
  <1>16. /\ DOMAIN snapshotFile' = Server /\ (HasSnapshot(s)' => SnapshotInv(sn))
         /\ \A t \in Server : t # s => snapshotFile'[t] = snapshotFile[t]
    BY RestartFile
  <1>3. \/ /\ m_last_RequestId' = [m_last_RequestId EXCEPT ![s] = none]
           /\ reflected' = [reflected EXCEPT ![s] = 0]
        \/ /\ sn # None
           /\ m_last_RequestId' = [m_last_RequestId EXCEPT ![s] = sn.last]
           /\ reflected' = [reflected EXCEPT ![s] = sn.at]
    BY DEF Restart, parseFromString
  <1>4. sn # None => TableInv(sn.last) /\ sn.at \in Nat
    BY <1>16 DEF HasSnapshot, SnapshotInv
  <1>5. TableInv(none)
    BY DEF TableInv
  <1>13. PICK last : \E n \in Nat :
             /\ m_last_RequestId' = [m_last_RequestId EXCEPT ![s] = last]
             /\ reflected' = [reflected EXCEPT ![s] = n]
             /\ last = none \/ (sn # None /\ last = sn.last)
    <2> HIDE DEF none, sn
    <2>1. CASE sn # None /\ m_last_RequestId' = [m_last_RequestId EXCEPT ![s] = sn.last]
               /\ reflected' = [reflected EXCEPT ![s] = sn.at]
      BY <1>4, <2>1
    <2>2. CASE m_last_RequestId' = [m_last_RequestId EXCEPT ![s] = none]
               /\ reflected' = [reflected EXCEPT ![s] = 0]
      <3>1. 0 \in Nat
        OBVIOUS
      <3>2. QED
        BY <2>2, <3>1, Zenon
    <2>3. QED
      BY <1>3, <2>1, <2>2
  <1> HIDE DEF none
  <1>14. DOMAIN m_last_RequestId' = Server /\ reflected' \in [Server -> Nat]
    BY <1>1, <1>13 DEF DeliveryTypes
  <1>15. /\ lastApplied' \in [Server -> Nat] /\ m_lastSnapShotRaftLogIndex' \in [Server -> Nat]
         /\ DOMAIN hand' = Server /\ DOMAIN applyChan' = Server /\ DOMAIN loop' = Server
         /\ leader' \in Server \cup {None}
    BY <1>1, <1>2 DEF DeliveryTypes
  <1>6. DeliveryTypes'
    BY <1>1, <1>2, <1>14, <1>15, <1>16 DEF DeliveryTypes
  <1>7. \A t \in Server : t # s => DeliveryKept(t)
    BY <1>1, <1>2, <1>13, <1>16 DEF DeliveryTypes, DeliveryKept
  <1>8. m_last_RequestId'[s] = none \/ (sn # None /\ m_last_RequestId'[s] = sn.last)
    BY <1>1, <1>13 DEF DeliveryTypes
  <1>9. hand'[s] = << >> /\ applyChan'[s] = << >> /\ loop'[s] = None
    BY <1>1, <1>2 DEF DeliveryTypes
  <1>10. IsSeq(<< >>) /\ Range(<< >>) = {}
    BY DEF IsSeq, Range
  <1>11. DeliveryNext(s)
    BY <1>1, <1>2, <1>4, <1>5, <1>8, <1>9, <1>10, <1>16 DEF DeliveryNext
  <1>12. QED
    BY <1>1, <1>2, <1>6, <1>7, <1>11, DeliveryStep

LEMMA ElectDelivery ==
    ASSUME CommitInv, NEW s \in Server, Elect(s)
    PROVE  DeliveryInv'
  <1>1. DeliveryInv /\ DeliveryTypes
    BY DEF CommitInv, DeliveryInv
  <1>2. leader' = s /\ UNCHANGED <<log, nodeVars, snapshotFile, applyChan, storeVars, loop>>
    BY DEF Elect
  <1>3. DeliveryTypes'
    BY <1>1, <1>2 DEF DeliveryTypes, nodeVars, storeVars
  <1>4. \A t \in Server : DeliveryKept(t)
    BY <1>2 DEF DeliveryKept, nodeVars, storeVars
  <1>5. QED
    BY <1>1, <1>2, <1>3, <1>4, DeliveryStep

----------------------------------------------------------------------------
\* Queues and handlers.

\* What a step makes of the queues, over the same log.
LEMMA QueuesStep ==
    ASSUME log' = log, DOMAIN waitApplyCh' = Server,
           \A s \in Server : \A i \in DOMAIN waitApplyCh'[s] : QueueInv(i, waitApplyCh'[s][i])
    PROVE  QueuesInv'
  <1>1. \A o, i : IsEntry(o, i) <=> IsEntry(o, i)'
    BY DEF IsEntry
  <1>2. \A i, q : QueueInv(i, q) <=> QueueInv(i, q)'
    BY <1>1 DEF QueueInv
  <1>3. QED
    BY <1>2 DEF QueuesInv

LEMMA QueuesSame ==
    ASSUME QueuesInv, UNCHANGED <<log, waitApplyCh>>
    PROVE  QueuesInv'
  <1>1. \A s \in Server : \A i \in DOMAIN waitApplyCh'[s] : QueueInv(i, waitApplyCh'[s][i])
    BY DEF QueuesInv
  <1>2. QED
    BY <1>1, QueuesStep DEF QueuesInv

\* What a handler knows stays true while its queue stays.
LEMMA HandlerKept ==
    ASSUME NEW k, HandlerInv(k), log' = log, \A o \in Operation : Asked(o) => Asked(o)',
           k.pc = "wait" /\ k.freed = None =>
               (k.index \in DOMAIN waitApplyCh[k.server] => k.index \in DOMAIN waitApplyCh'[k.server])
    PROVE  HandlerInv(k)'
  <1>1. \A o, i : IsEntry(o, i) <=> IsEntry(o, i)'
    BY DEF IsEntry
  <1>2. \A i, q : QueueInv(i, q) <=> QueueInv(i, q)'
    BY <1>1 DEF QueueInv
  <1>3. \A o : Passed(o) <=> Passed(o)'
    BY DEF Passed
  <1>4. k.op \in Operation /\ Asked(k.op)'
    BY DEF HandlerInv, HandlerType
  <1>5. QED
    BY <1>1, <1>2, <1>3, <1>4 DEF HandlerInv

\* Every running handler is one that ran before, as F has changed it.
LEMMA HandlersMoved ==
    ASSUME HandlersInv, NEW K \in SUBSET handler, NEW F, handler' = {F[h] : h \in K},
           \A h \in K : /\ F[h].op = h.op /\ F[h].call = h.call
                        /\ F[h].pc = "done" => ~Abandoned(h)
                        /\ HandlerInv(F[h])',
           UNCHANGED <<call, m_requestId>>
    PROVE  HandlersInv'
  <1> DEFINE f == [h \in K |-> F[h]]
  <1>1. IsFiniteSet(handler')
    <2>1. f \in Surjection(K, handler')
      BY DEF Surjection
    <2>2. IsFiniteSet(K)
      BY FS_Subset DEF HandlersInv
    <2>3. QED
      BY <2>1, <2>2, FS_Surjection
  <1>2. ASSUME NEW k \in handler' PROVE HandlerInv(k)' /\ CallIsCurrent(k)'
    <2>1. PICK h \in K : k = F[h]
      OBVIOUS
    <2>2. /\ k.op = h.op /\ k.call = h.call /\ (k.pc = "done" => ~Abandoned(h)) /\ CallIsCurrent(h)
          /\ HandlerInv(k)'
      BY <2>1 DEF HandlersInv
    <2>3. Abandoned(k)' <=> Abandoned(h)
      BY <2>2 DEF Abandoned
    <2>4. QED
      BY <2>2, <2>3 DEF CallIsCurrent
  <1>3. ASSUME NEW k \in handler', NEW j \in handler', k.op[1] = j.op[1], k.call = j.call
        PROVE  k = j
    <2>1. PICK h \in K : k = F[h]
      OBVIOUS
    <2>2. PICK g \in K : j = F[g]
      OBVIOUS
    <2>3. k.op = h.op /\ k.call = h.call /\ j.op = g.op /\ j.call = g.call
      BY <2>1, <2>2
    <2>4. h.op[1] = g.op[1] /\ h.call = g.call
      BY <1>3, <2>3, Zenon
    <2>5. h = g
      BY <2>4, Zenon DEF HandlersInv, CallsDiffer
    <2>6. QED
      BY <2>1, <2>2, <2>5
  <1>4. CallsDiffer'
    BY <1>3 DEF CallsDiffer
  <1>5. QED
    BY <1>1, <1>2, <1>4 DEF HandlersInv

\* One handler goes on, or ends.
LEMMA HandlerStepped ==
    ASSUME HandlersInv, NEW h \in handler, NEW X, NEW new, X \subseteq {new},
           handler' = (handler \ {h}) \cup X,
           new.op = h.op, new.call = h.call, X # {} /\ new.pc = "done" => ~Abandoned(h),
           X # {} => HandlerInv(new)',
           \A k \in handler : k # h => HandlerInv(k)',
           UNCHANGED <<call, m_requestId>>
    PROVE  HandlersInv'
  <1>1. PICK F : F = [k \in handler |-> IF k = h THEN new ELSE k]
    OBVIOUS
  <1>2. PICK K : K = IF X = {} THEN handler \ {h} ELSE handler
    OBVIOUS
  <1>3. F[h] = new /\ \A k \in handler : k # h => F[k] = k
    BY <1>1
  <1>4. K \in SUBSET handler /\ handler' = {F[k] : k \in K}
    BY <1>2, <1>3
  <1>5. ASSUME NEW k \in K
        PROVE  /\ F[k].op = k.op /\ F[k].call = k.call
               /\ F[k].pc = "done" => ~Abandoned(k)
               /\ HandlerInv(F[k])'
    <2>1. CASE k # h
      <3>1. k \in handler /\ F[k] = k
        BY <1>3, <1>4, <2>1
      <3>2. QED
        BY <2>1, <3>1 DEF HandlersInv, CallIsCurrent
    <2>2. CASE k = h
      <3>1. X # {} /\ F[k] = new
        BY <1>2, <1>3, <2>2
      <3>2. QED
        BY <2>2, <3>1
    <2>3. QED
      BY <2>1, <2>2
  <1>6. QED
    BY <1>4, <1>5, HandlersMoved

LEMMA HandlersSame ==
    ASSUME HandlersInv, log' = log, UNCHANGED <<handler, call, m_requestId>>,
           \A k \in handler : k.pc = "wait" /\ k.freed = None =>
               (k.index \in DOMAIN waitApplyCh[k.server] => k.index \in DOMAIN waitApplyCh'[k.server])
    PROVE  HandlersInv'
  <1>1. \A k \in handler : HandlerInv(k)'
    BY HandlerKept DEF HandlersInv, Asked
  <1>2. \A k \in handler : CallIsCurrent(k)'
    BY DEF HandlersInv, CallIsCurrent, Abandoned
  <1>3. QED
    BY <1>1, <1>2 DEF HandlersInv, CallsDiffer

LEMMA HandlerOf ==
    ASSUME CommitInv, NEW h \in handler
    PROVE  /\ HandlerInv(h) /\ CallIsCurrent(h) /\ h \in HandlerType /\ Asked(h.op)
           /\ h.op \in Operation /\ h.server \in Server
  BY DEF CommitInv, HandlersInv, HandlerInv, HandlerType

\* Handlers that a step of handler h does not touch keep what they know.
LEMMA OthersKept ==
    ASSUME CommitInv, log' = log, m_requestId' = m_requestId,
           \A t \in Server : DOMAIN waitApplyCh[t] \subseteq DOMAIN waitApplyCh'[t]
    PROVE  \A k \in handler : HandlerInv(k)'
  <1> SUFFICES ASSUME NEW k \in handler PROVE HandlerInv(k)'
    OBVIOUS
  <1>1. HandlerInv(k) /\ k.server \in Server
    BY HandlerOf
  <1>2. \A o : Asked(o) => Asked(o)'
    BY DEF Asked
  <1>3. QED
    BY <1>1, <1>2, HandlerKept

LEMMA StartHandlers ==
    ASSUME CommitInv, NEW h \in handler, Start(h)
    PROVE  HandlersInv'
  <1>1. HandlerInv(h) /\ h \in HandlerType /\ Asked(h.op) /\ h.op \in Operation
    BY HandlerOf
  <1>2. /\ h.pc = "called" /\ UNCHANGED <<log, waitApplyCh, call, m_requestId>>
    BY DEF Start, clerkVars
  <1>3. \A k \in handler : HandlerInv(k)'
    BY <1>2, OthersKept, Zenon
  <1>4. Len(log) + Len(pending) + 1 \in Nat
    BY DEF CommitInv, LogInv
  <1>5. HandlersInv
    BY DEF CommitInv
  <1>6. CASE leader # h.server
    <2> DEFINE new == [h EXCEPT !.pc = "done", !.err = "ErrWrongLeader"]
               X   == IF Abandoned(h) THEN {} ELSE {new}
    <2>1. handler' = (handler \ {h}) \cup X
      BY <1>6 DEF Start
    <2>2. /\ new.op = h.op /\ new.call = h.call /\ new.pc = "done" /\ new.err = "ErrWrongLeader"
          /\ new.freed = h.freed /\ new.index = h.index /\ new \in HandlerType
      BY <1>1 DEF HandlerType
    <2>3. HandlerInv(h)'
      BY <1>3
    <2>4. X \subseteq {new} /\ (X # {} => ~Abandoned(h))
      OBVIOUS
    <2> HIDE DEF new, X
    <2>5. HandlerInv(new)'
      BY <2>2, <2>3 DEF HandlerInv
    <2>6. QED
      BY <1>2, <1>3, <1>5, <2>1, <2>2, <2>4, <2>5, HandlerStepped
  <1>7. CASE leader = h.server
    <2>0. PICK new : new = [h EXCEPT !.pc = "started", !.index = Len(log) + Len(pending) + 1]
      OBVIOUS
    <2>1. handler' = (handler \ {h}) \cup {new}
      BY <1>7, <2>0 DEF Start, Step
    <2>2. /\ new.op = h.op /\ new.call = h.call /\ new.pc = "started" /\ new \in HandlerType
          /\ new.freed = h.freed
      BY <1>1, <1>4, <2>0 DEF HandlerType
    <2>3. HandlerInv(h)'
      BY <1>3
    <2>4. h.freed = None
      BY <1>1, <1>2 DEF HandlerInv
    <2>5. HandlerInv(new)'
      BY <2>2, <2>3, <2>4 DEF HandlerInv
    <2>6. {new} \subseteq {new} /\ new.pc # "done"
      BY <2>2
    <2>7. QED
      BY <1>2, <1>3, <1>5, <2>1, <2>2, <2>5, <2>6, HandlerStepped
  <1>8. QED
    BY <1>6, <1>7

LEMMA StartLog ==
    ASSUME CommitInv, NEW h \in handler, Start(h)
    PROVE  LogInv'
  <1>1. Asked(h.op) /\ h.op \in Operation
    BY HandlerOf
  <1>2. LogInv
    BY DEF CommitInv
  <1>3. log' = log /\ m_requestId' = m_requestId
        /\ (pending' = pending \/ pending' = Append(pending, h.op))
    BY DEF Start, clerkVars
  <1>4. CASE pending' = pending
    BY <1>2, <1>3, <1>4, LogSame
  <1>5. CASE pending' = Append(pending, h.op)
    <2>1. pending' \in Seq(Operation) /\ Range(pending') = Range(pending) \cup {h.op}
      BY <1>1, <1>2, <1>5, RangeFacts DEF LogInv
    <2>2. \A o : Asked(o) => Asked(o)'
      BY <1>3 DEF Asked
    <2>3. QED
      BY <1>1, <1>2, <1>3, <2>1, <2>2 DEF LogInv
  <1>6. QED
    BY <1>3, <1>4, <1>5

\* A handler goes on, with the queues of all.
LEMMA StepHandlers ==
    ASSUME CommitInv, NEW h \in handler, NEW new, Step(h, new),
           UNCHANGED <<log, call, m_requestId>>,
           \A t \in Server : DOMAIN waitApplyCh[t] \subseteq DOMAIN waitApplyCh'[t],
           new.op = h.op, new.call = h.call, new.pc # "done", HandlerInv(new)'
    PROVE  HandlersInv'
  <1>1. \A k \in handler : HandlerInv(k)'
    BY OthersKept, Zenon
  <1>2. handler' = (handler \ {h}) \cup {new} /\ {new} \subseteq {new}
    BY DEF Step
  <1>3. HandlersInv
    BY DEF CommitInv
  <1>4. QED
    BY <1>1, <1>2, <1>3, HandlerStepped

LEMMA RegisterSafe ==
    ASSUME CommitInv, NEW h \in handler, Register(h)
    PROVE  QueuesInv' /\ HandlersInv'
  <1>1. HandlerInv(h) /\ h \in HandlerType /\ Asked(h.op) /\ h.op \in Operation /\ h.server \in Server
    BY HandlerOf
  <1>2. /\ h.pc = "started" /\ UNCHANGED <<log, call, m_requestId>>
    BY DEF Register, clerkVars, raftVars
  <1>3. QueuesInv
    BY DEF CommitInv
  <1>4. PICK old : old = waitApplyCh[h.server]
    OBVIOUS
  <1>5. PICK q : q = [i \in DOMAIN old \cup {h.index} |-> IF i \in DOMAIN old THEN old[i] ELSE << >>]
    OBVIOUS
  <1>6. DOMAIN q = DOMAIN old \cup {h.index}
        /\ \A i \in DOMAIN q : (q[i] = old[i] /\ i \in DOMAIN old) \/ q[i] = << >>
    BY <1>5
  <1>7. waitApplyCh' = [waitApplyCh EXCEPT ![h.server] = q]
    BY <1>4, <1>5 DEF Register
  <1>8. DOMAIN waitApplyCh' = Server /\ waitApplyCh'[h.server] = q
        /\ \A t \in Server : t # h.server => waitApplyCh'[t] = waitApplyCh[t]
    BY <1>1, <1>3, <1>7 DEF QueuesInv
  <1>9. \A i : QueueInv(i, << >>)
    BY DEF QueueInv, Range
  <1>10. ASSUME NEW t \in Server, NEW i \in DOMAIN waitApplyCh'[t]
         PROVE  QueueInv(i, waitApplyCh'[t][i])
    <2>1. CASE t = h.server
      BY <1>3, <1>4, <1>6, <1>8, <1>9, <2>1, Zenon DEF QueuesInv
    <2>2. CASE t # h.server
      BY <1>3, <1>8, <2>2 DEF QueuesInv
    <2>3. QED
      BY <2>1, <2>2
  <1>11. QueuesInv'
    BY <1>2, <1>8, <1>10, QueuesStep
  <1>12. \A t \in Server : DOMAIN waitApplyCh[t] \subseteq DOMAIN waitApplyCh'[t]
    BY <1>4, <1>6, <1>8
  <1>13. PICK new : new = [h EXCEPT !.pc = "wait"]
    OBVIOUS
  <1>14. /\ new.op = h.op /\ new.call = h.call /\ new.pc = "wait" /\ new \in HandlerType
         /\ new.freed = h.freed /\ new.index = h.index /\ new.server = h.server
    BY <1>1, <1>13 DEF HandlerType
  <1>15. HandlerInv(h)'
    BY <1>2, <1>12, OthersKept, Zenon
  <1>16. h.freed = None
    BY <1>1, <1>2 DEF HandlerInv
  <1>17. HandlerInv(new)'
    BY <1>6, <1>8, <1>14, <1>15, <1>16 DEF HandlerInv
  <1>18. Step(h, new)
    BY <1>13 DEF Register
  <1>19. HandlersInv'
    BY <1>2, <1>12, <1>14, <1>17, <1>18, StepHandlers
  <1>20. QED
    BY <1>11, <1>19

LEMMA TimeOutHandlers ==
    ASSUME CommitInv, NEW h \in handler, TimeOut(h)
    PROVE  HandlersInv'
  <1>1. HandlerInv(h) /\ h \in HandlerType
    BY HandlerOf
  <1>2. h.pc = "wait" /\ UNCHANGED <<log, call, m_requestId, waitApplyCh>>
    BY DEF TimeOut, clerkVars, raftVars
  <1>3. PICK new : new = [h EXCEPT !.pc = "timedout"]
    OBVIOUS
  <1>4. /\ new.op = h.op /\ new.call = h.call /\ new.pc = "timedout" /\ new \in HandlerType
        /\ new.freed = h.freed /\ new.index = h.index
    BY <1>1, <1>3 DEF HandlerType
  <1>5. \A t \in Server : DOMAIN waitApplyCh[t] \subseteq DOMAIN waitApplyCh'[t]
    BY <1>2
  <1>6. HandlerInv(h)'
    BY <1>2, <1>5, OthersKept, Zenon
  <1>7. HandlerInv(new)'
    BY <1>4, <1>6 DEF HandlerInv
  <1>8. Step(h, new)
    BY <1>3 DEF TimeOut
  <1>9. QED
    BY <1>2, <1>4, <1>5, <1>7, <1>8, StepHandlers

\* The end of a handler: the others on its queue keep the operations that were in it.
LEMMA FinishSafe ==
    ASSUME CommitInv, NEW h \in handler, NEW err \in {"OK", "ErrNoKey", "ErrWrongLeader"},
           Finish(h, err), err = "ErrWrongLeader" \/ Passed(h.op),
           UNCHANGED <<log, call, m_requestId>>
    PROVE  QueuesInv' /\ HandlersInv'
  <1>1. HandlerInv(h) /\ h \in HandlerType /\ Asked(h.op) /\ h.op \in Operation /\ h.server \in Server
    BY HandlerOf
  <1>2. QueuesInv /\ HandlersInv
    BY DEF CommitInv
  <1>3. PICK queues : queues = waitApplyCh[h.server]
    OBVIOUS
  <1>4. PICK rest : rest = [i \in DOMAIN queues \ {h.index} |-> queues[i]]
    OBVIOUS
  <1>5. waitApplyCh' = [waitApplyCh EXCEPT ![h.server] = rest]
    BY <1>3, <1>4 DEF Finish, Restrict
  <1>6. DOMAIN waitApplyCh' = Server /\ waitApplyCh'[h.server] = rest
        /\ \A t \in Server : t # h.server => waitApplyCh'[t] = waitApplyCh[t]
    BY <1>1, <1>2, <1>5 DEF QueuesInv
  <1>7. DOMAIN rest = DOMAIN queues \ {h.index} /\ \A i \in DOMAIN rest : rest[i] = queues[i]
    BY <1>4
  <1>8. \A i \in DOMAIN queues : QueueInv(i, queues[i])
    BY <1>1, <1>2, <1>3 DEF QueuesInv
  <1>9. ASSUME NEW t \in Server, NEW i \in DOMAIN waitApplyCh'[t]
        PROVE  QueueInv(i, waitApplyCh'[t][i])
    <2>1. CASE t = h.server
      BY <1>6, <1>7, <1>8, <2>1
    <2>2. CASE t # h.server
      BY <1>2, <1>6, <2>2 DEF QueuesInv
    <2>3. QED
      BY <2>1, <2>2
  <1>10. QueuesInv'
    BY <1>6, <1>9, QueuesStep
  <1>11. PICK gone : gone = IF h.index \in DOMAIN queues THEN queues[h.index] ELSE << >>
    OBVIOUS
  <1>12. QueueInv(h.index, gone)
    <2>1. QueueInv(h.index, << >>)
      BY DEF QueueInv, Range
    <2>2. QED
      BY <1>8, <1>11, <2>1
  <1>13. PICK done : done = [h EXCEPT !.pc = "done", !.err = err, !.index = 0, !.freed = None,
                                   !.at = IF IsGet(h.op) /\ err # "ErrWrongLeader"
                                          THEN reflected[h.server] ELSE 0]
    OBVIOUS
  <1>14. PICK F : F = [o \in handler |->
                         IF o = h THEN done
                         ELSE IF o.server = h.server /\ o.index = h.index /\ o.pc = "wait"
                         THEN [o EXCEPT !.freed = IF o.freed # None THEN o.freed ELSE gone] ELSE o]
    OBVIOUS
  <1>15. PICK K : K = IF Abandoned(h) THEN handler \ {h} ELSE handler
    OBVIOUS
  <1>16. handler' = {IF o.server = h.server /\ o.index = h.index /\ o.pc = "wait"
                     THEN [o EXCEPT !.freed = IF o.freed # None THEN o.freed ELSE gone] ELSE o
                       : o \in handler \ {h}}
                    \cup IF Abandoned(h) THEN {} ELSE {done}
    BY <1>3, <1>11, <1>13, Zenon DEF Finish
  <1>17. K \in SUBSET handler /\ handler' = {F[k] : k \in K}
    BY <1>14, <1>15, <1>16
  <1>18. \A o, i : IsEntry(o, i) <=> IsEntry(o, i)'
    BY DEF IsEntry
  <1>19. \A i, q : QueueInv(i, q) <=> QueueInv(i, q)'
    BY <1>18 DEF QueueInv
  <1>20. \A o : (Passed(o) <=> Passed(o)') /\ (Asked(o) <=> Asked(o)')
    BY DEF Passed, Asked
  <1>21. ASSUME NEW k \in K, k # h
         PROVE  /\ F[k].op = k.op /\ F[k].call = k.call
                /\ F[k].pc = "done" => ~Abandoned(k)
                /\ HandlerInv(F[k])'
    <2>1. k \in handler /\ HandlerInv(k) /\ k \in HandlerType /\ CallIsCurrent(k) /\ k.server \in Server
      BY <1>17, HandlerOf
    <2>2. CASE ~(k.server = h.server /\ k.index = h.index /\ k.pc = "wait" /\ k.freed = None)
      <3>1. F[k] = k
        <4>1. CASE k.freed # None
          BY <1>14, <1>21, <2>1, <4>1 DEF HandlerType
        <4>2. CASE k.freed = None
          BY <1>14, <1>21, <2>1, <2>2, <4>2
        <4>3. QED
          BY <4>1, <4>2
      <3>2. k.pc = "wait" /\ k.freed = None => k.index \in DOMAIN waitApplyCh'[k.server]
        <4>1. CASE k.server = h.server
          BY <1>3, <1>6, <1>7, <2>1, <2>2, <4>1 DEF HandlerInv
        <4>2. CASE k.server # h.server
          BY <1>6, <2>1, <4>2 DEF HandlerInv
        <4>3. QED
          BY <4>1, <4>2
      <3>3. HandlerInv(k)'
        BY <1>20, <2>1, <3>2, HandlerKept, Zenon
      <3>4. QED
        BY <2>1, <3>1, <3>3 DEF CallIsCurrent
    <2>3. CASE k.server = h.server /\ k.index = h.index /\ k.pc = "wait" /\ k.freed = None
      <3>1. F[k] = [k EXCEPT !.freed = gone]
        BY <1>14, <1>21, <2>1, <2>3
      <3>2. gone \in Seq(Operation)
        BY <1>12 DEF QueueInv
      <3>3. PICK g : g = F[k]
        OBVIOUS
      <3>4. /\ g.op = k.op /\ g.call = k.call /\ g.pc = "wait" /\ g.freed = gone
            /\ g.index = h.index /\ g \in HandlerType
        BY <2>1, <2>3, <3>1, <3>2, <3>3 DEF HandlerType
      <3>5. gone # None
        BY <3>2, NoneAssumption
      <3>6. Asked(k.op)' /\ QueueInv(h.index, gone)'
        BY <1>12, <1>19, <1>20, <2>1 DEF HandlerInv
      <3>7. HandlerInv(g)'
        BY <3>4, <3>5, <3>6 DEF HandlerInv
      <3>8. QED
        BY <3>3, <3>4, <3>7
    <2>4. QED
      BY <2>2, <2>3
  <1>22. ASSUME h \in K
         PROVE  /\ F[h].op = h.op /\ F[h].call = h.call
                /\ F[h].pc = "done" => ~Abandoned(h)
                /\ HandlerInv(F[h])'
    <2>1. F[h] = done
      BY <1>14
    <2>2. ~Abandoned(h)
      BY <1>15, <1>22
    <2>3. reflected[h.server] \in Nat
      BY <1>1 DEF CommitInv, DeliveryInv, DeliveryTypes
    <2>4. /\ done.op = h.op /\ done.call = h.call /\ done.pc = "done" /\ done.err = err
          /\ done.freed = None /\ done \in HandlerType
      BY <1>1, <1>13, <2>3 DEF HandlerType
    <2>5. Asked(h.op)' /\ (err = "ErrWrongLeader" \/ Passed(h.op)')
      BY <1>1, <1>20
    <2>6. HandlerInv(done)'
      BY <2>4, <2>5 DEF HandlerInv
    <2>7. QED
      BY <2>1, <2>2, <2>4, <2>6
  <1>23. ASSUME NEW k \in K
         PROVE  /\ F[k].op = k.op /\ F[k].call = k.call
                /\ F[k].pc = "done" => ~Abandoned(k)
                /\ HandlerInv(F[k])'
    BY <1>21, <1>22
  <1>24. HandlersInv'
    BY <1>2, <1>17, <1>23, HandlersMoved
  <1>25. QED
    BY <1>10, <1>24

\* A Get that has popped its own operation goes on to the store.
LEMMA PoppedHandlers ==
    ASSUME CommitInv, NEW h \in handler, h.pc = "wait", IsEntry(h.op, h.index),
           Step(h, [h EXCEPT !.pc = "popped"]), UNCHANGED <<log, call, m_requestId>>,
           \A t \in Server : DOMAIN waitApplyCh[t] \subseteq DOMAIN waitApplyCh'[t]
    PROVE  HandlersInv'
  <1>1. HandlerInv(h) /\ h \in HandlerType
    BY HandlerOf
  <1>2. PICK new : new = [h EXCEPT !.pc = "popped"]
    OBVIOUS
  <1>3. /\ new.op = h.op /\ new.call = h.call /\ new.pc = "popped" /\ new \in HandlerType
        /\ new.freed = h.freed /\ new.index = h.index
    BY <1>1, <1>2 DEF HandlerType
  <1>4. HandlerInv(h)'
    BY OthersKept, Zenon
  <1>5. IsEntry(h.op, h.index)'
    BY DEF IsEntry
  <1>6. HandlerInv(new)'
    BY <1>3, <1>4, <1>5 DEF HandlerInv
  <1>7. Step(h, new)
    BY <1>2
  <1>8. QED
    BY <1>3, <1>6, <1>7, StepHandlers

LEMMA PopSafe ==
    ASSUME CommitInv, NEW h \in handler, Pop(h)
    PROVE  QueuesInv' /\ HandlersInv'
  <1>1. HandlerInv(h) /\ h \in HandlerType /\ h.server \in Server
    BY HandlerOf
  <1>2. QueuesInv
    BY DEF CommitInv
  <1>3. PICK queues : queues = waitApplyCh[h.server]
    OBVIOUS
  <1>4. PICK queue : queue = queues[h.index]
    OBVIOUS
  <1>5. h.pc = "wait" /\ h.freed = None /\ queue # << >> /\ UNCHANGED <<log, call, m_requestId>>
    BY <1>3, <1>4 DEF Pop, raftVars, clerkVars
  <1>6. h.index \in DOMAIN queues
    BY <1>1, <1>3, <1>5 DEF HandlerInv
  <1>7. QueueInv(h.index, queue)
    BY <1>1, <1>2, <1>3, <1>4, <1>6 DEF QueuesInv
  <1>8. /\ Head(queue) \in Range(queue) /\ Range(Tail(queue)) \subseteq Range(queue)
        /\ Tail(queue) \in Seq(Operation)
    BY <1>5, <1>7, RangeFacts DEF QueueInv
  <1>9. IsEntry(Head(queue), h.index) /\ Passed(Head(queue))
    BY <1>7, <1>8 DEF QueueInv, IsEntry, Passed
  <1>10. CASE IsGet(h.op) /\ Head(queue) = h.op
    <2>1. /\ Step(h, [h EXCEPT !.pc = "popped"])
          /\ waitApplyCh' = [waitApplyCh EXCEPT ![h.server][h.index] = Tail(@)]
      BY <1>3, <1>4, <1>10 DEF Pop
    <2>2. PICK new : new = [queues EXCEPT ![h.index] = Tail(queue)]
      OBVIOUS
    <2>3. waitApplyCh' = [waitApplyCh EXCEPT ![h.server] = new]
      BY <1>3, <1>4, <2>1, <2>2
    <2>4. /\ DOMAIN new = DOMAIN queues /\ new[h.index] = Tail(queue)
          /\ \A i \in DOMAIN queues : i # h.index => new[i] = queues[i]
      BY <1>6, <2>2
    <2>5. DOMAIN waitApplyCh' = Server /\ waitApplyCh'[h.server] = new
          /\ \A t \in Server : t # h.server => waitApplyCh'[t] = waitApplyCh[t]
      BY <1>1, <1>2, <2>3 DEF QueuesInv
    <2>6. QueueInv(h.index, Tail(queue))
      BY <1>7, <1>8 DEF QueueInv
    <2>7. \A i \in DOMAIN queues : QueueInv(i, queues[i])
      BY <1>1, <1>2, <1>3 DEF QueuesInv
    <2>8. \A i \in DOMAIN new : QueueInv(i, new[i])
      BY <2>4, <2>6, <2>7
    <2>9. \A t \in Server : \A i \in DOMAIN waitApplyCh'[t] : QueueInv(i, waitApplyCh'[t][i])
      BY <1>2, <2>5, <2>8 DEF QueuesInv
    <2>10. QueuesInv'
      BY <1>5, <2>5, <2>9, QueuesStep
    <2>11. \A t \in Server : DOMAIN waitApplyCh[t] \subseteq DOMAIN waitApplyCh'[t]
      BY <1>3, <2>4, <2>5
    <2>12. HandlersInv'
      BY <1>5, <1>9, <1>10, <2>1, <2>11, PoppedHandlers
    <2>13. QED
      BY <2>10, <2>12
  <1>11. CASE ~(IsGet(h.op) /\ Head(queue) = h.op)
    <2>1. PICK err : err = IF Head(queue) = h.op THEN "OK" ELSE "ErrWrongLeader"
      OBVIOUS
    <2>2. Finish(h, err)
      BY <1>3, <1>4, <1>11, <2>1 DEF Pop
    <2>3. err \in {"OK", "ErrNoKey", "ErrWrongLeader"} /\ (err = "ErrWrongLeader" \/ Passed(h.op))
      BY <1>9, <2>1
    <2>4. QED
      BY <1>5, <2>2, <2>3, FinishSafe
  <1>12. QED
    BY <1>10, <1>11

LEMMA PopFreedSafe ==
    ASSUME CommitInv, NEW h \in handler, PopFreed(h)
    PROVE  QueuesInv' /\ HandlersInv'
  <1>1. HandlerInv(h) /\ h \in HandlerType /\ h.server \in Server
    BY HandlerOf
  <1>2. h.pc = "wait" /\ h.freed # None /\ UNCHANGED <<log, call, m_requestId>>
    BY DEF PopFreed, raftVars, clerkVars
  <1>3. QueueInv(h.index, h.freed)
    BY <1>1, <1>2 DEF HandlerInv
  <1>4. PICK own \in {FALSE, h.freed # None /\ h.op \in Range(h.freed)} :
          IF own /\ IsGet(h.op)
          THEN Step(h, [h EXCEPT !.pc = "popped"]) /\ UNCHANGED waitApplyCh
          ELSE Finish(h, IF own THEN "OK" ELSE "ErrWrongLeader")
    BY Zenon DEF PopFreed
  <1>5. own => IsEntry(h.op, h.index) /\ Passed(h.op)
    BY <1>3, <1>4 DEF QueueInv, IsEntry, Passed
  <1>6. CASE own /\ IsGet(h.op)
    <2>1. Step(h, [h EXCEPT !.pc = "popped"]) /\ UNCHANGED waitApplyCh
      BY <1>4, <1>6
    <2>2. \A t \in Server : DOMAIN waitApplyCh[t] \subseteq DOMAIN waitApplyCh'[t]
      BY <2>1
    <2>3. HandlersInv'
      BY <1>2, <1>5, <1>6, <2>1, <2>2, PoppedHandlers
    <2>4. QueuesInv'
      BY <1>2, <2>1, QueuesSame DEF CommitInv
    <2>5. QED
      BY <2>3, <2>4
  <1>7. CASE ~(own /\ IsGet(h.op))
    <2>1. PICK err : err = IF own THEN "OK" ELSE "ErrWrongLeader"
      OBVIOUS
    <2>2. Finish(h, err)
      BY <1>4, <1>7, <2>1, Zenon
    <2>3. err \in {"OK", "ErrNoKey", "ErrWrongLeader"} /\ (err = "ErrWrongLeader" \/ Passed(h.op))
      BY <1>5, <2>1
    <2>4. QED
      BY <1>2, <2>2, <2>3, FinishSafe
  <1>8. QED
    BY <1>6, <1>7

\* A request the table covers has passed through the log.
LEMMA DuplicatePassed ==
    ASSUME CommitInv, NEW s \in Server, NEW o \in Operation, ifRequestDuplicate(s, o)
    PROVE  Passed(o)
  <1>1. TableInv(m_last_RequestId[s])
    BY DeliveryOf DEF CommitInv, DeliveryAt
  <1>2. o[1] \in Clerk /\ o[2] \in Nat /\ o[2] >= 1 /\ o = <<o[1], o[2]>>
    BY OperationFact
  <1>3. m_last_RequestId[s][o[1]] \in Nat /\ o[2] <= m_last_RequestId[s][o[1]]
    BY <1>1, <1>2 DEF TableInv, ifRequestDuplicate
  <1>4. o[2] \in 1..m_last_RequestId[s][o[1]]
    BY <1>2, <1>3
  <1>5. Passed(<<o[1], o[2]>>)
    BY <1>1, <1>2, <1>4 DEF TableInv
  <1>6. QED
    BY <1>2, <1>5

LEMMA ExecuteGetSafe ==
    ASSUME CommitInv, NEW h \in handler, Passed(h.op), ExecuteGetOpOnKVDB(h),
           UNCHANGED <<raftVars, nodeVars, snapshotFile, applyChan, m_skipList,
                       m_lastSnapShotRaftLogIndex, reflected, loop, clerkVars>>
    PROVE  QueuesInv' /\ HandlersInv' /\ DeliveryInv'
  <1>1. h.op \in Operation /\ h.server \in Server /\ Asked(h.op)
    BY HandlerOf
  <1>2. PICK err \in {"OK", "ErrNoKey"} : Finish(h, err)
    BY Zenon DEF ExecuteGetOpOnKVDB
  <1>3. UNCHANGED <<log, leader, call, m_requestId>>
    BY DEF raftVars, clerkVars
  <1>4. err \in {"OK", "ErrNoKey", "ErrWrongLeader"}
    BY <1>2
  <1>5. QueuesInv' /\ HandlersInv'
    BY <1>2, <1>3, <1>4, FinishSafe
  <1>6. m_last_RequestId' = [m_last_RequestId EXCEPT ![h.server][h.op[1]] = h.op[2]]
    BY DEF ExecuteGetOpOnKVDB
  <1>7. DeliveryInv'
    BY <1>1, <1>3, <1>6, ExecuteGetDelivery
  <1>8. QED
    BY <1>5, <1>7

LEMMA GetSafe ==
    ASSUME CommitInv, NEW h \in handler, Get(h)
    PROVE  QueuesInv' /\ HandlersInv' /\ DeliveryInv'
  <1>1. HandlerInv(h)
    BY HandlerOf
  <1>2. h.pc = "popped" /\ ExecuteGetOpOnKVDB(h)
        /\ UNCHANGED <<raftVars, nodeVars, snapshotFile, applyChan, m_skipList,
                       m_lastSnapShotRaftLogIndex, reflected, loop, clerkVars>>
    BY DEF Get
  <1>3. Passed(h.op)
    BY <1>1, <1>2 DEF HandlerInv, IsEntry, Passed
  <1>4. QED
    BY <1>2, <1>3, ExecuteGetSafe

LEMMA AfterTimeOutSafe ==
    ASSUME CommitInv, NEW h \in handler, AfterTimeOut(h)
    PROVE  QueuesInv' /\ HandlersInv' /\ DeliveryInv'
  <1>1. h.op \in Operation /\ h.server \in Server
    BY HandlerOf
  <1>2. ifRequestDuplicate(h.server, h.op) => Passed(h.op)
    BY <1>1, DuplicatePassed
  <1>3. UNCHANGED <<raftVars, nodeVars, snapshotFile, applyChan, m_skipList,
                    m_lastSnapShotRaftLogIndex, reflected, restores, loop, clerkVars>>
    BY DEF AfterTimeOut
  <1>4. \/ ifRequestDuplicate(h.server, h.op) /\ ExecuteGetOpOnKVDB(h)
        \/ /\ m_last_RequestId' = m_last_RequestId
           /\ \/ ifRequestDuplicate(h.server, h.op) /\ Finish(h, "OK")
              \/ Finish(h, "ErrWrongLeader")
    BY Zenon DEF AfterTimeOut
  <1>5. CASE ifRequestDuplicate(h.server, h.op) /\ ExecuteGetOpOnKVDB(h)
    BY <1>2, <1>3, <1>5, ExecuteGetSafe
  <1>6. CASE /\ m_last_RequestId' = m_last_RequestId
             /\ \/ ifRequestDuplicate(h.server, h.op) /\ Finish(h, "OK")
                \/ Finish(h, "ErrWrongLeader")
    <2>1. UNCHANGED <<log, leader, call, m_requestId>>
      BY <1>3 DEF raftVars, clerkVars
    <2>2. PICK err \in {"OK", "ErrNoKey", "ErrWrongLeader"} :
              Finish(h, err) /\ (err = "ErrWrongLeader" \/ Passed(h.op))
      BY <1>2, <1>6
    <2>3. QueuesInv' /\ HandlersInv'
      BY <2>1, <2>2, FinishSafe
    <2>4. DeliveryInv'
      BY <1>3, <1>6, <2>1, DeliverySame DEF CommitInv, storeVars
    <2>5. QED
      BY <2>3, <2>4
  <1>7. QED
    BY <1>4, <1>5, <1>6

LEMMA HandlerStepSafe ==
    ASSUME CommitInv, HandlerStep
    PROVE  CommitInv'
  <1>1. PICK h \in handler : \/ Start(h) \/ Register(h) \/ Pop(h) \/ PopFreed(h)
                             \/ TimeOut(h) \/ Get(h) \/ AfterTimeOut(h)
    BY DEF HandlerStep
  <1>2. UNCHANGED <<clerkVars, log, m_requestId>>
    BY <1>1 DEF Start, Register, Pop, PopFreed, TimeOut, Get, AfterTimeOut, raftVars, clerkVars
  <1>3. ClerkInv'
    BY <1>2, ClerkSame DEF CommitInv
  <1>4. CASE Start(h)
    <2>1. UNCHANGED <<log, leader, nodeVars, snapshotFile, applyChan, storeVars, loop, waitApplyCh>>
      BY <1>4 DEF Start
    <2>2. DeliveryInv' /\ QueuesInv'
      BY <2>1, DeliverySame, QueuesSame DEF CommitInv
    <2>3. QED
      BY <1>3, <1>4, <2>2, StartHandlers, StartLog DEF CommitInv
  <1>5. ASSUME ~Start(h) PROVE CommitInv'
    <2>1. UNCHANGED <<log, pending, leader, nodeVars, snapshotFile, applyChan, loop>>
      BY <1>1, <1>5 DEF Register, Pop, PopFreed, TimeOut, Get, AfterTimeOut, raftVars
    <2>2. LogInv'
      BY <1>2, <2>1, LogSame DEF CommitInv
    <2>3. CASE Get(h) \/ AfterTimeOut(h)
      BY <1>3, <2>2, <2>3, GetSafe, AfterTimeOutSafe DEF CommitInv
    <2>4. CASE Register(h) \/ Pop(h) \/ PopFreed(h) \/ TimeOut(h)
      <3>1. UNCHANGED storeVars
        BY <2>4 DEF Register, Pop, PopFreed, TimeOut
      <3>2. DeliveryInv'
        BY <2>1, <3>1, DeliverySame DEF CommitInv
      <3>3. TimeOut(h) => QueuesInv'
        BY <2>1, QueuesSame DEF CommitInv, TimeOut
      <3>4. QueuesInv' /\ HandlersInv'
        BY <2>4, <3>3, RegisterSafe, PopSafe, PopFreedSafe, TimeOutHandlers
      <3>5. QED
        BY <1>3, <2>2, <3>2, <3>4 DEF CommitInv
    <2>5. QED
      BY <1>1, <1>5, <2>3, <2>4
  <1>6. QED
    BY <1>4, <1>5

----------------------------------------------------------------------------
\* The apply loop and raft.

LEMMA SendMessageQueues ==
    ASSUME CommitInv, NEW s \in Server, SendMessageToWaitChan(s)
    PROVE  QueuesInv' /\ HandlersInv'
  <1>1. QueuesInv /\ HandlersInv /\ LoopInv(loop[s]) /\ log' = log
        /\ UNCHANGED <<handler, call, m_requestId>>
    BY DeliveryOf DEF CommitInv, DeliveryAt, SendMessageToWaitChan, raftVars, clerkVars
  <1>2. PICK m : m = loop[s]
    OBVIOUS
  <1>3. PICK queues : queues = waitApplyCh[s]
    OBVIOUS
  <1>4. PICK new : new = [i \in DOMAIN queues |-> IF i = m.index THEN Append(queues[i], m.op)
                                                 ELSE queues[i]]
    OBVIOUS
  <1>5. waitApplyCh' = [waitApplyCh EXCEPT ![s] = new]
    BY <1>2, <1>3, <1>4 DEF SendMessageToWaitChan
  <1>6. DOMAIN waitApplyCh' = Server /\ waitApplyCh'[s] = new
        /\ \A t \in Server : t # s => waitApplyCh'[t] = waitApplyCh[t]
    BY <1>1, <1>5 DEF QueuesInv
  <1>7. m.op \in Operation /\ IsEntry(m.op, m.index)
    BY <1>1, <1>2 DEF LoopInv
  <1>8. DOMAIN new = DOMAIN queues
    BY <1>4
  <1>9. ASSUME NEW i \in DOMAIN queues PROVE QueueInv(i, new[i])
    <2>1. QueueInv(i, queues[i])
      BY <1>1, <1>3 DEF QueuesInv
    <2>2. CASE i = m.index
      <3>1. new[i] = Append(queues[i], m.op)
        BY <1>4, <2>2
      <3>2. new[i] \in Seq(Operation) /\ Range(new[i]) = Range(queues[i]) \cup {m.op}
        BY <1>7, <2>1, <3>1, RangeFacts DEF QueueInv
      <3>3. QED
        BY <1>7, <2>1, <2>2, <3>2 DEF QueueInv
    <2>3. CASE i # m.index
      BY <1>4, <2>1, <2>3
    <2>4. QED
      BY <2>2, <2>3
  <1>10. \A t \in Server : \A i \in DOMAIN waitApplyCh'[t] : QueueInv(i, waitApplyCh'[t][i])
    BY <1>1, <1>6, <1>8, <1>9 DEF QueuesInv
  <1>11. QueuesInv'
    BY <1>1, <1>6, <1>10, QueuesStep
  <1>12. \A t \in Server : DOMAIN waitApplyCh'[t] = DOMAIN waitApplyCh[t]
    BY <1>3, <1>6, <1>8
  <1>13. \A k \in handler : k.server \in Server
    BY HandlerOf
  <1>14. HandlersInv'
    BY <1>1, <1>12, <1>13, HandlersSame
  <1>15. QED
    BY <1>11, <1>14

LEMMA LoopStepSafe ==
    ASSUME CommitInv, LoopStep
    PROVE  CommitInv'
  <1>1. PICK s \in Server : \/ ReadRaftApplyCommandLoop(s) \/ MakeSnapShot(s)
                            \/ PersistSnapshotIndex(s) \/ SendMessageToWaitChan(s)
    BY DEF LoopStep
  <1>2. UNCHANGED <<clerkVars, log, pending, m_requestId, call, handler>>
    BY <1>1 DEF ReadRaftApplyCommandLoop, MakeSnapShot, PersistSnapshotIndex,
                SendMessageToWaitChan, raftVars, clerkVars
  <1>3. ClerkInv' /\ LogInv'
    BY <1>2, ClerkSame, LogSame DEF CommitInv
  <1>4. DeliveryInv'
    BY <1>1, ReadLoopDelivery, MakeSnapShotDelivery, PersistSnapshotIndexDelivery,
       SendMessageDelivery
  <1>5. CASE SendMessageToWaitChan(s)
    BY <1>3, <1>4, <1>5, SendMessageQueues DEF CommitInv
  <1>6. CASE ~SendMessageToWaitChan(s)
    <2>1. UNCHANGED waitApplyCh
      BY <1>1, <1>6 DEF ReadRaftApplyCommandLoop, MakeSnapShot, PersistSnapshotIndex
    <2>2. QueuesInv' /\ HandlersInv'
      BY <1>2, <2>1, QueuesSame, HandlersSame DEF CommitInv
    <2>3. QED
      BY <1>3, <1>4, <2>2 DEF CommitInv
  <1>7. QED
    BY <1>5, <1>6

LEMMA RestartHandlers ==
    ASSUME CommitInv, NEW s \in Server, Restart(s)
    PROVE  QueuesInv' /\ HandlersInv'
  <1>1. /\ handler' = {h \in handler : h.server # s \/ h.pc = "done"}
        /\ waitApplyCh' = [waitApplyCh EXCEPT ![s] = << >>]
        /\ UNCHANGED <<log, call, m_requestId>>
    BY DEF Restart, clerkVars
  <1>2. QueuesInv /\ HandlersInv
    BY DEF CommitInv
  <1>3. DOMAIN waitApplyCh' = Server /\ waitApplyCh'[s] = << >>
        /\ \A t \in Server : t # s => waitApplyCh'[t] = waitApplyCh[t]
    BY <1>1, <1>2 DEF QueuesInv
  <1>4. \A t \in Server : \A i \in DOMAIN waitApplyCh'[t] : QueueInv(i, waitApplyCh'[t][i])
    <2>1. DOMAIN << >> = {}
      OBVIOUS
    <2>2. QED
      BY <1>2, <1>3, <2>1 DEF QueuesInv
  <1>5. QueuesInv'
    BY <1>1, <1>3, <1>4, QueuesStep
  <1>6. PICK F : F = [h \in handler |-> h]
    OBVIOUS
  <1>7. PICK K : K = {h \in handler : h.server # s \/ h.pc = "done"}
    OBVIOUS
  <1>8. K \in SUBSET handler /\ handler' = {F[h] : h \in K} /\ \A h \in K : F[h] = h
    BY <1>1, <1>6, <1>7
  <1>9. ASSUME NEW h \in K
        PROVE  HandlerInv(h)' /\ CallIsCurrent(h)
    <2>1. HandlerInv(h) /\ h.server \in Server /\ CallIsCurrent(h)
      BY <1>8, HandlerOf
    <2>2. h.server # s \/ h.pc = "done"
      BY <1>7
    <2>3. \A o : Asked(o) => Asked(o)'
      BY <1>1 DEF Asked
    <2>4. h.pc = "wait" /\ h.freed = None => waitApplyCh'[h.server] = waitApplyCh[h.server]
      BY <1>3, <2>1, <2>2
    <2>5. QED
      BY <1>1, <2>1, <2>3, <2>4, HandlerKept
  <1>10. ASSUME NEW h \in K
         PROVE  /\ F[h].op = h.op /\ F[h].call = h.call
                /\ F[h].pc = "done" => ~Abandoned(h)
                /\ HandlerInv(F[h])'
    BY <1>8, <1>9 DEF CallIsCurrent
  <1>11. HandlersInv'
    BY <1>1, <1>2, <1>8, <1>10, HandlersMoved
  <1>12. QED
    BY <1>5, <1>11

\* The new leader has a part of the pending entries.
LEMMA ElectLog ==
    ASSUME CommitInv, NEW s \in Server, Elect(s)
    PROVE  LogInv'
  <1>1. LogInv /\ UNCHANGED <<log, m_requestId>>
    BY DEF CommitInv, Elect, clerkVars
  <1>2. PICK k \in 0..Len(pending) : pending' = SubSeq(pending, 1, k)
    BY DEF Elect
  <1>3. pending \in Seq(Operation) /\ Len(pending) \in Nat
    BY <1>1 DEF LogInv
  <1>4. pending' \in Seq(Operation) /\ Len(pending') = k
        /\ \A i \in 1..k : pending'[i] = pending[i]
    BY <1>2, <1>3
  <1>5. Range(pending') \subseteq Range(pending)
    BY <1>2, <1>3, <1>4 DEF Range
  <1>6. \A o : Asked(o) => Asked(o)'
    BY <1>1 DEF Asked
  <1>7. QED
    BY <1>1, <1>4, <1>5, <1>6 DEF LogInv

\* An operation of a sequence has a first index, and only such a one has.
LEMMA FirstIndexNext ==
    ASSUME log' \in Seq(Operation), NEW o
    PROVE  FirstIndex(o)' # 0 <=> \E i \in DOMAIN log' : log'[i] = o
  <1>1. PICK I : I = {i \in DOMAIN log' : log'[i] = o}
    OBVIOUS
  <1>2. FirstIndex(o)' = IF I = {} THEN 0 ELSE Min(I)
    BY <1>1 DEF FirstIndex
  <1>3. DOMAIN log' = 1..Len(log') /\ Len(log') \in Nat
    OBVIOUS
  <1>4. I \in SUBSET Nat /\ 0 \notin I
    BY <1>1, <1>3
  <1>5. I # {} => Min(I) # 0
    BY <1>4, MinFact
  <1>6. QED
    BY <1>1, <1>2, <1>5

\* A longer log keeps what has passed through it.
LEMMA CommitKeeps ==
    ASSUME LogInv, Commit
    PROVE  /\ LogInv'
           /\ \A o, i : IsEntry(o, i) => IsEntry(o, i)'
           /\ \A o : Passed(o) => Passed(o)'
  <1>1. /\ pending # << >> /\ log' = Append(log, Head(pending)) /\ pending' = Tail(pending)
        /\ m_requestId' = m_requestId
    BY DEF Commit, clerkVars
  <1>2. log \in Seq(Operation) /\ pending \in Seq(Operation)
    BY DEF LogInv
  <1>3. /\ Head(pending) \in Range(pending) /\ Range(Tail(pending)) \subseteq Range(pending)
        /\ Range(log') = Range(log) \cup {Head(pending)}
    BY <1>1, <1>2, RangeFacts
  <1>4. Head(pending) \in Operation /\ log' \in Seq(Operation) /\ pending' \in Seq(Operation)
    BY <1>1, <1>2
  <1>5. \A o : Asked(o) => Asked(o)'
    BY <1>1 DEF Asked
  <1>6. LogInv'
    BY <1>1, <1>3, <1>4, <1>5 DEF LogInv
  <1>7. Len(log) \in Nat /\ DOMAIN log = 1..Len(log) /\ DOMAIN log' = 1..Len(log) + 1
        /\ \A i \in 1..Len(log) : log'[i] = log[i]
    BY <1>1, <1>2, <1>4
  <1>8. DOMAIN log \subseteq DOMAIN log'
    BY <1>7
  <1>9. QED
    BY <1>6, <1>7, <1>8 DEF IsEntry, Passed

LEMMA CommitSafe ==
    ASSUME CommitInv, Commit
    PROVE  CommitInv'
  <1>1. ClerkInv /\ LogInv /\ DeliveryInv /\ QueuesInv /\ HandlersInv
    BY DEF CommitInv
  <1>2. UNCHANGED <<leader, nodeVars, snapshotFile, applyChan, storeVars, waitApplyCh, loop,
                    handler, clerkVars>>
    BY DEF Commit
  <1>3. /\ LogInv'
        /\ \A o, i : IsEntry(o, i) => IsEntry(o, i)'
        /\ \A o : Passed(o) => Passed(o)'
    BY <1>1, CommitKeeps
  <1>4. ClerkInv'
    <2>1. ClerkTypes' /\ EarlierAcked'
      BY <1>1, <1>2 DEF ClerkInv, ClerkTypes, EarlierAcked, clerkVars
    <2>2. ASSUME NEW o \in acked' PROVE FirstIndex(o)' # 0
      <3>1. FirstIndex(o) # 0
        BY <1>1, <1>2 DEF ClerkInv, AckedIsCommitted, clerkVars
      <3>2. Passed(o)'
        BY <1>1, <1>3, <3>1, FirstIndexFact
      <3>3. log' \in Seq(Operation)
        BY <1>3 DEF LogInv
      <3>4. QED
        BY <3>2, <3>3, FirstIndexNext DEF Passed
    <2>3. QED
      BY <2>1, <2>2 DEF ClerkInv, AckedIsCommitted
  <1>5. DeliveryInv'
    <2>1. \A m : (EntryInv(m) => EntryInv(m)') /\ (LoopInv(m) => LoopInv(m)')
      BY <1>3 DEF EntryInv, LoopInv
    <2>2. \A t : TableInv(t) => TableInv(t)'
      BY <1>3 DEF TableInv
    <2>3. \A t : SnapshotInv(t) => SnapshotInv(t)'
      BY <2>2 DEF SnapshotInv
    <2>4. DeliveryTypes'
      BY <1>1, <1>2 DEF DeliveryInv, DeliveryTypes, nodeVars, storeVars
    <2>5. ASSUME NEW s \in Server PROVE DeliveryAt(s)'
      <3>1. DeliveryAt(s)
        BY <1>1, DeliveryOf
      <3>2. /\ hand' = hand /\ applyChan' = applyChan /\ loop' = loop
            /\ m_last_RequestId' = m_last_RequestId /\ snapshotFile' = snapshotFile
            /\ m_lastSnapshotIndex' = m_lastSnapshotIndex
        BY <1>2 DEF nodeVars, storeVars
      <3>3. HasSnapshot(s)' <=> HasSnapshot(s)
        BY <3>2 DEF HasSnapshot
      <3>4. QED
        BY <2>1, <2>2, <2>3, <3>1, <3>2, <3>3 DEF DeliveryAt
    <2>6. QED
      BY <2>4, <2>5 DEF DeliveryInv
  <1>6. \A i, q : QueueInv(i, q) => QueueInv(i, q)'
    BY <1>3 DEF QueueInv
  <1>7. QueuesInv'
    BY <1>1, <1>2, <1>6 DEF QueuesInv
  <1>8. HandlersInv'
    <2>1. UNCHANGED <<call, m_requestId>>
      BY <1>2 DEF clerkVars
    <2>2. \A o : Asked(o) => Asked(o)'
      BY <2>1 DEF Asked
    <2>3. ASSUME NEW h \in handler PROVE HandlerInv(h)' /\ CallIsCurrent(h)'
      <3>1. HandlerInv(h) /\ CallIsCurrent(h)
        BY <1>1 DEF HandlersInv
      <3>2. CallIsCurrent(h)'
        BY <2>1, <3>1 DEF CallIsCurrent, Abandoned
      <3>3. HandlerInv(h)'
        BY <1>2, <1>3, <1>6, <2>2, <3>1 DEF HandlerInv
      <3>4. QED
        BY <3>2, <3>3
    <2>4. QED
      BY <1>1, <1>2, <2>3 DEF HandlersInv, CallsDiffer
  <1>9. QED
    BY <1>3, <1>4, <1>5, <1>7, <1>8 DEF CommitInv

LEMMA RaftStepSafe ==
    ASSUME CommitInv, RaftStep
    PROVE  CommitInv'
  <1>1. CASE Commit
    BY <1>1, CommitSafe
  <1>2. ASSUME NEW s \in Server, Elect(s) \/ CopyLogs(s) \/ PushLogs(s) \/ InstallSnapshot(s)
        PROVE  CommitInv'
    <2>1. UNCHANGED <<log, waitApplyCh, handler, clerkVars, m_requestId, call>>
      BY <1>2 DEF Elect, CopyLogs, PushLogs, InstallSnapshot, raftVars, clerkVars
    <2>2. ClerkInv' /\ QueuesInv' /\ HandlersInv'
      BY <2>1, ClerkSame, QueuesSame, HandlersSame DEF CommitInv
    <2>3. Elect(s) \/ UNCHANGED pending
      BY <1>2 DEF CopyLogs, PushLogs, InstallSnapshot, raftVars
    <2>4. LogInv'
      BY <2>1, <2>3, ElectLog, LogSame DEF CommitInv
    <2>5. DeliveryInv'
      BY <1>2, ElectDelivery, CopyLogsDelivery, PushLogsDelivery, InstallSnapshotDelivery
    <2>6. QED
      BY <2>2, <2>4, <2>5 DEF CommitInv
  <1>3. ASSUME NEW s \in Server, Restart(s) PROVE CommitInv'
    <2>1. UNCHANGED <<log, pending, clerkVars, m_requestId>>
      BY <1>3 DEF Restart, clerkVars
    <2>2. ClerkInv' /\ LogInv'
      BY <2>1, ClerkSame, LogSame DEF CommitInv
    <2>3. QED
      BY <1>3, <2>2, RestartDelivery, RestartHandlers DEF CommitInv
  <1>4. QED
    BY <1>1, <1>2, <1>3 DEF RaftStep

----------------------------------------------------------------------------
\* The clerk.

\* Clerk c starts or ends a call: its other handlers are abandoned, none of them is done.
ClerkMoves(c, gone, X, new) ==
    /\ X \subseteq {new} /\ handler' = (handler \ gone) \cup X
    /\ UNCHANGED <<log, waitApplyCh>>
    /\ \A o \in Operation : Asked(o) => Asked(o)'
    /\ \A d \in Clerk : d # c => call'[d] = call[d] /\ m_requestId'[d] = m_requestId[d]
    /\ \A k \in handler \ gone : k.op[1] = c =>
           Abandoned(k)' /\ k.pc # "done" /\ (X # {} => k.call # new.call)
    /\ X # {} => HandlerInv(new)' /\ CallIsCurrent(new)' /\ new.op[1] = c

LEMMA ClerkHandlers ==
    ASSUME CommitInv, NEW c \in Clerk, NEW gone, NEW X, NEW new, ClerkMoves(c, gone, X, new)
    PROVE  HandlersInv'
  <1> USE DEF ClerkMoves
  <1>1. HandlersInv
    BY DEF CommitInv
  <1>2. IsFiniteSet(handler')
    <2>1. IsFiniteSet(handler \ gone)
      BY <1>1, FS_Subset DEF HandlersInv
    <2>2. IsFiniteSet(X)
      BY FS_Singleton, FS_EmptySet, FS_Subset
    <2>3. QED
      BY <2>1, <2>2, FS_Union
  <1>3. ASSUME NEW k \in handler' PROVE HandlerInv(k)' /\ CallIsCurrent(k)'
    <2>1. CASE k \in handler \ gone
      <3>1. HandlerInv(k) /\ CallIsCurrent(k) /\ k.op \in Operation
        BY <2>1, HandlerOf
      <3>2. HandlerInv(k)'
        BY <3>1, HandlerKept
      <3>3. CASE k.op[1] = c
        BY <2>1, <3>2, <3>3 DEF CallIsCurrent
      <3>4. CASE k.op[1] # c
        <4>1. k.op[1] \in Clerk
          BY <3>1, OperationFact
        <4>2. call'[k.op[1]] = call[k.op[1]] /\ m_requestId'[k.op[1]] = m_requestId[k.op[1]]
          BY <3>4, <4>1
        <4>3. CallIsCurrent(k)'
          BY <3>1, <4>2 DEF CallIsCurrent, Abandoned
        <4>4. QED
          BY <3>2, <4>3
      <3>5. QED
        BY <3>3, <3>4
    <2>2. CASE k \in X
      BY <2>2
    <2>3. QED
      BY <2>1, <2>2
  <1>4. ASSUME NEW k \in handler', NEW j \in handler', k.op[1] = j.op[1], k.call = j.call
        PROVE  k = j
    <2>1. CASE k \in handler \ gone /\ j \in handler \ gone
      BY <1>1, <1>4, <2>1, Zenon DEF HandlersInv, CallsDiffer
    <2>2. CASE k \in X /\ j \in X
      BY <2>2
    <2>3. CASE k \in handler \ gone /\ j \in X
      <3>1. j = new /\ X # {} /\ new.op[1] = c
        BY <2>3
      <3>2. k.op[1] = c /\ k.call = new.call
        BY <1>4, <3>1
      <3>3. QED
        BY <2>3, <3>1, <3>2
    <2>4. CASE k \in X /\ j \in handler \ gone
      <3>1. k = new /\ X # {} /\ new.op[1] = c
        BY <2>4
      <3>2. j.op[1] = c /\ j.call = new.call
        BY <1>4, <3>1
      <3>3. QED
        BY <2>4, <3>1, <3>2
    <2>5. QED
      BY <2>1, <2>2, <2>3, <2>4
  <1>5. CallsDiffer'
    BY <1>4 DEF CallsDiffer
  <1>6. QED
    BY <1>2, <1>3, <1>5 DEF HandlersInv

\* A done handler is the one its clerk waits for.
LEMMA DoneIsCurrent ==
    ASSUME CommitInv, NEW k \in handler, k.pc = "done"
    PROVE  call[k.op[1]].waiting /\ k \in Current(k.op[1])
  BY HandlerOf DEF CallIsCurrent, Abandoned, Current

\* The request number of an operation is that of its clerk's call.
LEMMA NewRpc ==
    ASSUME CommitInv, NEW c \in Clerk, NEW id \in Nat \ {0}, id <= Len(Script[c]),
           NEW n \in Nat, NEW s \in Server, id <= m_requestId'[c],
           ~Abandoned(Rpc(c, id, n, s))' => id = m_requestId'[c]
    PROVE  LET new == Rpc(c, id, n, s) IN
           /\ HandlerInv(new)' /\ CallIsCurrent(new)' /\ new.op[1] = c /\ new.call = n
  <1>1. PICK new : new = Rpc(c, id, n, s)
    OBVIOUS
  <1>2. <<c, id>> \in Operation
    BY ScriptLength, OperationMade
  <1>3. /\ new.op = <<c, id>> /\ new.call = n /\ new.server = s /\ new.pc = "called"
        /\ new.index = 0 /\ new.freed = None /\ new.err = None /\ new.at = 0
        /\ new = [op |-> <<c, id>>, call |-> n, server |-> s, pc |-> "called", index |-> 0,
                  freed |-> None, err |-> None, at |-> 0]
    BY <1>1 DEF Rpc
  <1>4. new \in HandlerType
    BY <1>2, <1>3 DEF HandlerType
  <1>5. Asked(new.op)'
    BY <1>3 DEF Asked
  <1>6. HandlerInv(new)'
    BY <1>3, <1>4, <1>5 DEF HandlerInv
  <1>7. ~Abandoned(new)' => id = m_requestId'[c]
    BY <1>1
  <1>8. CallIsCurrent(new)'
    BY <1>3, <1>7 DEF CallIsCurrent
  <1>9. QED
    BY <1>1, <1>3, <1>6, <1>8

\* What a clerk step leaves alone: the log, and what the servers have.
LEMMA ServersSame ==
    ASSUME CommitInv, UNCHANGED <<raftVars, nodeVars, snapshotFile, applyChan, storeVars,
                                  waitApplyCh, loop>>,
           \A o \in Operation : Asked(o) => Asked(o)'
    PROVE  LogInv' /\ DeliveryInv' /\ QueuesInv'
  <1>1. UNCHANGED <<log, pending, leader>> /\ LogInv /\ DeliveryInv /\ QueuesInv
    BY DEF raftVars, CommitInv
  <1>2. DeliveryInv'
    BY <1>1, DeliverySame
  <1>3. QueuesInv'
    BY <1>1, QueuesSame
  <1>4. Range(log) \subseteq Operation /\ Range(pending) \subseteq Operation
    BY <1>1, RangeFacts DEF LogInv
  <1>5. LogInv'
    BY <1>1, <1>4 DEF LogInv
  <1>6. QED
    BY <1>2, <1>3, <1>5

\* The floor of a call is an index of the log, or 0.
LEMMA FloorFact ==
    ASSUME CommitInv
    PROVE  LET f == Max({FirstIndex(o) : o \in acked} \cup {0}) IN
           /\ f \in Nat /\ f <= Len(log)
           /\ \A o \in acked : FirstIndex(o) <= f
  <1>1. PICK S : S = {FirstIndex(o) : o \in acked} \cup {0}
    OBVIOUS
  <1>2. LogInv /\ Len(log) \in Nat
    BY DEF CommitInv, LogInv
  <1>3. \A o \in acked : FirstIndex(o) \in 0..Len(log)
    BY <1>2, FirstIndexFact
  <1>4. S \in SUBSET (0..Len(log)) /\ 0 \in S /\ \A o \in acked : FirstIndex(o) \in S
    BY <1>1, <1>2, <1>3
  <1>5. Max(S) \in S /\ \A y \in S : Max(S) >= y
    BY <1>2, <1>4, MaxFact
  <1>6. Max(S) \in 0..Len(log) /\ \A o \in acked : FirstIndex(o) \in 0..Len(log) /\ Max(S) >= FirstIndex(o)
    BY <1>3, <1>4, <1>5
  <1>7. Max(S) \in Nat /\ Max(S) <= Len(log) /\ \A o \in acked : FirstIndex(o) <= Max(S)
    BY <1>2, <1>6
  <1>8. QED
    BY <1>1, <1>7

LEMMA CallSafe ==
    ASSUME CommitInv, NEW c \in Clerk, Call(c)
    PROVE  CommitInv'
  <1>1. /\ ClerkInv /\ ClerkTypes /\ EarlierAcked /\ HandlersInv
    BY DEF CommitInv, ClerkInv
  <1>2. PICK n : n = Fresh(c, handler)
    OBVIOUS
  <1>3. PICK f : f = Max({FirstIndex(o) : o \in acked} \cup {0})
    OBVIOUS
  <1>4. PICK id : id = m_requestId[c] + 1
    OBVIOUS
  <1>5. PICK s : s = m_recentLeaderId[c]
    OBVIOUS
  <1>6. /\ ~call[c].waiting /\ m_requestId[c] < Len(Script[c])
        /\ m_requestId' = [m_requestId EXCEPT ![c] = id]
        /\ server' = [server EXCEPT ![c] = s]
        /\ call' = [call EXCEPT ![c] = [n |-> n, waiting |-> TRUE]]
        /\ handler' = handler \cup {Rpc(c, id, n, s)}
        /\ floor' = [floor EXCEPT ![c] = f]
        /\ UNCHANGED <<raftVars, nodeVars, snapshotFile, applyChan, storeVars, waitApplyCh, loop,
                       m_recentLeaderId, acked>>
    BY <1>2, <1>3, <1>4, <1>5 DEF Call
  <1>7. \A k \in handler : k.call \in Nat
    BY HandlerOf DEF HandlerType
  <1>8. n \in Nat \ {0} /\ \A k \in handler : k.op[1] = c => k.call # n
    BY <1>1, <1>2, <1>7, FreshFact DEF HandlersInv
  <1>9. f \in Nat
    BY <1>3, FloorFact
  <1>10. /\ m_requestId[c] \in Nat /\ Len(Script[c]) \in Nat /\ s \in Server
    BY <1>1, <1>5, ScriptLength DEF ClerkTypes
  <1>11. id \in Nat \ {0} /\ id <= Len(Script[c])
    BY <1>4, <1>6, <1>10
  <1>12. /\ m_requestId'[c] = id /\ call'[c] = [n |-> n, waiting |-> TRUE]
         /\ \A d \in Clerk : d # c => call'[d] = call[d] /\ m_requestId'[d] = m_requestId[d]
    BY <1>1, <1>6 DEF ClerkTypes
  <1>13. ClerkTypes'
    <2>1. /\ m_requestId' \in [Clerk -> Nat] /\ server' \in [Clerk -> Server]
          /\ m_recentLeaderId' \in [Clerk -> Server] /\ floor' \in [Clerk -> Nat]
          /\ acked' \subseteq Operation
      BY <1>1, <1>6, <1>9, <1>10, <1>11 DEF ClerkTypes
    <2>2. [n |-> n, waiting |-> TRUE] \in [n : Nat, waiting : BOOLEAN]
      BY <1>8
    <2>3. call' \in [Clerk -> [n : Nat, waiting : BOOLEAN]]
      BY <1>1, <1>6, <2>2 DEF ClerkTypes
    <2>4. ASSUME NEW d \in Clerk
          PROVE  m_requestId'[d] <= Len(Script[d]) /\ (call'[d].waiting => m_requestId'[d] > 0)
      <3>1. CASE d = c
        BY <1>11, <1>12, <3>1
      <3>2. CASE d # c
        BY <1>1, <1>12, <3>2 DEF ClerkTypes
      <3>3. QED
        BY <3>1, <3>2
    <2>5. QED
      BY <2>1, <2>3, <2>4 DEF ClerkTypes
  <1>14. EarlierAcked'
    <2> SUFFICES ASSUME NEW d \in Clerk, NEW r \in 1..m_requestId'[d],
                        r < m_requestId'[d] \/ ~call'[d].waiting
                 PROVE  <<d, r>> \in acked
      BY <1>6 DEF EarlierAcked
    <2>1. CASE d = c
      <3>1. r \in 1..m_requestId[c]
        BY <1>4, <1>10, <1>12, <2>1
      <3>2. QED
        BY <1>1, <1>6, <2>1, <3>1 DEF EarlierAcked
    <2>2. CASE d # c
      BY <1>1, <1>12, <2>2 DEF EarlierAcked
    <2>3. QED
      BY <2>1, <2>2
  <1>15. AckedIsCommitted'
    BY <1>1, <1>6 DEF ClerkInv, AckedIsCommitted, FirstIndex, raftVars
  <1>16. ASSUME NEW o \in Operation, Asked(o) PROVE Asked(o)'
    <2>1. o[1] \in Clerk /\ o[2] \in Nat
      BY OperationFact
    <2>2. CASE o[1] = c
      BY <1>4, <1>10, <1>12, <1>16, <2>1, <2>2 DEF Asked
    <2>3. CASE o[1] # c
      BY <1>12, <1>16, <2>1, <2>3 DEF Asked
    <2>4. QED
      BY <2>2, <2>3
  <1>17. LogInv' /\ DeliveryInv' /\ QueuesInv'
    BY <1>6, <1>16, ServersSame
  <1>18. PICK new : new = Rpc(c, id, n, s)
    OBVIOUS
  <1>19. HandlerInv(new)' /\ CallIsCurrent(new)' /\ new.op[1] = c /\ new.call = n
    BY <1>8, <1>10, <1>11, <1>12, <1>18, NewRpc
  <1>20. ASSUME NEW k \in handler \ {}, k.op[1] = c
         PROVE  Abandoned(k)' /\ k.pc # "done" /\ k.call # new.call
    <2>1. k.pc # "done"
      BY <1>6, <1>20, DoneIsCurrent
    <2>2. call'[k.op[1]].n # k.call
      BY <1>8, <1>12, <1>20
    <2>3. QED
      BY <1>8, <1>19, <1>20, <2>1, <2>2 DEF Abandoned
  <1>21. handler' = (handler \ {}) \cup {new} /\ {new} \subseteq {new} /\ UNCHANGED <<log, waitApplyCh>>
    BY <1>6, <1>18 DEF raftVars
  <1>22. ClerkMoves(c, {}, {new}, new)
    BY <1>12, <1>16, <1>19, <1>20, <1>21 DEF ClerkMoves
  <1>23. HandlersInv'
    BY <1>22, ClerkHandlers
  <1>24. QED
    BY <1>13, <1>14, <1>15, <1>17, <1>23 DEF CommitInv, ClerkInv

\* The same request goes to the next server.
LEMMA RetrySafe ==
    ASSUME CommitInv, NEW c \in Clerk, call[c].waiting, NEW gone, Retry(c, gone),
           \A k \in Current(c) : k.pc = "done" => k \in gone,
           UNCHANGED <<raftVars, nodeVars, snapshotFile, applyChan, storeVars, waitApplyCh, loop>>
    PROVE  CommitInv'
  <1>1. ClerkInv /\ ClerkTypes /\ EarlierAcked /\ HandlersInv
    BY DEF CommitInv, ClerkInv
  <1>2. PICK s : s = (server[c] + 1) % NumServers
    OBVIOUS
  <1>3. PICK n : n = Fresh(c, handler \ gone)
    OBVIOUS
  <1>4. PICK id : id = m_requestId[c]
    OBVIOUS
  <1>5. /\ server' = [server EXCEPT ![c] = s] /\ call' = [call EXCEPT ![c].n = n]
        /\ handler' = (handler \ gone) \cup {Rpc(c, id, n, s)}
        /\ UNCHANGED <<m_requestId, m_recentLeaderId, acked, floor>>
    BY <1>2, <1>3, <1>4 DEF Retry
  <1>6. s \in Server
    <2>1. server[c] \in Server /\ NumServers \in Nat \ {0}
      BY <1>1, ServiceAssumption DEF ClerkTypes
    <2>2. server[c] + 1 \in Nat
      BY <2>1 DEF Server
    <2>3. QED
      BY <1>2, <2>1, <2>2 DEF Server
  <1>7. \A k \in handler \ gone : k.call \in Nat
    BY HandlerOf DEF HandlerType
  <1>8. IsFiniteSet(handler \ gone)
    BY <1>1, FS_Subset DEF HandlersInv
  <1>9. n \in Nat \ {0} /\ \A k \in handler \ gone : k.op[1] = c => k.call # n
    BY <1>3, <1>7, <1>8, FreshFact
  <1>10. id \in Nat \ {0} /\ id <= Len(Script[c]) /\ id = m_requestId'[c]
    BY <1>1, <1>4, <1>5 DEF ClerkTypes
  <1>11. /\ call'[c].n = n /\ call'[c].waiting /\ call' \in [Clerk -> [n : Nat, waiting : BOOLEAN]]
         /\ \A d \in Clerk : d # c => call'[d] = call[d]
    <2>1. PICK new : new = [call[c] EXCEPT !.n = n]
      OBVIOUS
    <2>2. call[c] \in [n : Nat, waiting : BOOLEAN]
      BY <1>1 DEF ClerkTypes
    <2>3. new \in [n : Nat, waiting : BOOLEAN] /\ new.n = n /\ new.waiting = call[c].waiting
      BY <1>9, <2>1, <2>2
    <2>4. call' = [call EXCEPT ![c] = new]
      BY <1>5, <2>1
    <2>5. QED
      BY <1>1, <2>3, <2>4 DEF ClerkTypes
  <1>12. ClerkTypes'
    <2>1. server' \in [Clerk -> Server]
      BY <1>1, <1>5, <1>6 DEF ClerkTypes
    <2>2. \A d \in Clerk : call'[d].waiting => m_requestId'[d] > 0
      BY <1>1, <1>5, <1>10, <1>11 DEF ClerkTypes
    <2>3. QED
      BY <1>1, <1>5, <1>11, <2>1, <2>2 DEF ClerkTypes
  <1>13. EarlierAcked'
    <2>1. \A d \in Clerk : call'[d].waiting = call[d].waiting
      <3>1. call'[c].waiting = call[c].waiting
        BY <1>5, <1>1 DEF ClerkTypes
      <3>2. QED
        BY <1>11, <3>1
    <2>2. QED
      BY <1>1, <1>5, <2>1 DEF EarlierAcked
  <1>14. AckedIsCommitted'
    BY <1>1, <1>5 DEF ClerkInv, AckedIsCommitted, FirstIndex, raftVars
  <1>15. \A o \in Operation : Asked(o) => Asked(o)'
    BY <1>5 DEF Asked
  <1>16. LogInv' /\ DeliveryInv' /\ QueuesInv'
    BY <1>15, ServersSame
  <1>17. PICK new : new = Rpc(c, id, n, s)
    OBVIOUS
  <1>18. HandlerInv(new)' /\ CallIsCurrent(new)' /\ new.op[1] = c /\ new.call = n
    <2>1. id <= m_requestId'[c]
      BY <1>10
    <2>2. QED
      BY <1>6, <1>9, <1>10, <1>17, <2>1, NewRpc
  <1>19. ASSUME NEW k \in handler \ gone, k.op[1] = c
         PROVE  Abandoned(k)' /\ k.pc # "done" /\ k.call # new.call
    <2>1. k.pc # "done"
      BY <1>19, DoneIsCurrent
    <2>2. call'[k.op[1]].n # k.call
      BY <1>9, <1>11, <1>19
    <2>3. QED
      BY <1>9, <1>18, <1>19, <2>1, <2>2 DEF Abandoned
  <1>20. handler' = (handler \ gone) \cup {new} /\ UNCHANGED <<log, waitApplyCh>>
    BY <1>5, <1>17 DEF raftVars
  <1>21. ClerkMoves(c, gone, {new}, new)
    BY <1>5, <1>11, <1>15, <1>18, <1>19, <1>20 DEF ClerkMoves
  <1>22. HandlersInv'
    BY <1>21, ClerkHandlers
  <1>23. QED
    BY <1>12, <1>13, <1>14, <1>16, <1>22 DEF CommitInv, ClerkInv

\* The call returns with an operation that has passed through the log.
LEMMA ReturnSafe ==
    ASSUME CommitInv, NEW c \in Clerk, call[c].waiting, NEW h \in Current(c), h.pc = "done",
           h.err # "ErrWrongLeader", Return(c, h),
           UNCHANGED <<raftVars, nodeVars, snapshotFile, applyChan, storeVars, waitApplyCh, loop>>
    PROVE  CommitInv'
  <1>1. ClerkInv /\ LogInv /\ ClerkTypes /\ EarlierAcked /\ HandlersInv
    BY DEF CommitInv, ClerkInv
  <1>2. h \in handler /\ h.op[1] = c /\ h.call = call[c].n
    BY DEF Current
  <1>3. HandlerInv(h) /\ CallIsCurrent(h) /\ h.op \in Operation /\ h.server \in Server
    BY <1>2, HandlerOf
  <1>4. Passed(h.op) /\ h.op = <<c, m_requestId[c]>>
    <2>1. ~Abandoned(h)
      BY <1>2 DEF Abandoned
    <2>2. h.op[2] = m_requestId[c]
      BY <1>2, <1>3, <2>1 DEF CallIsCurrent
    <2>3. h.op = <<h.op[1], h.op[2]>>
      BY <1>3, OperationFact
    <2>4. QED
      BY <1>2, <1>3, <2>2, <2>3 DEF HandlerInv
  <1>5. PICK to : to = IF h.err = "OK" THEN h.server ELSE m_recentLeaderId[c]
    OBVIOUS
  <1>6. /\ m_recentLeaderId' = [m_recentLeaderId EXCEPT ![c] = to]
        /\ call' = [call EXCEPT ![c] = [n |-> 0, waiting |-> FALSE]]
        /\ handler' = handler \ {h} /\ acked' = acked \cup {h.op}
        /\ UNCHANGED <<m_requestId, server, floor>>
    BY <1>5 DEF Return
  <1>7. to \in Server
    BY <1>1, <1>3, <1>5 DEF ClerkTypes
  <1>8. /\ call'[c].waiting = FALSE /\ call' \in [Clerk -> [n : Nat, waiting : BOOLEAN]]
        /\ \A d \in Clerk : d # c => call'[d] = call[d]
    BY <1>1, <1>6 DEF ClerkTypes
  <1>9. ClerkTypes'
    BY <1>1, <1>3, <1>6, <1>7, <1>8 DEF ClerkTypes
  <1>10. EarlierAcked'
    <2> SUFFICES ASSUME NEW d \in Clerk, NEW r \in 1..m_requestId[d],
                        r < m_requestId[d] \/ ~call'[d].waiting
                 PROVE  <<d, r>> \in acked \cup {h.op}
      BY <1>6 DEF EarlierAcked
    <2>1. CASE d # c \/ r < m_requestId[d]
      BY <1>1, <1>8, <2>1 DEF EarlierAcked
    <2>2. CASE d = c /\ ~(r < m_requestId[d])
      <3>1. m_requestId[c] \in Nat
        BY <1>1 DEF ClerkTypes
      <3>2. r = m_requestId[c]
        BY <2>2, <3>1
      <3>3. QED
        BY <1>4, <2>2, <3>2
    <2>3. QED
      BY <2>1, <2>2
  <1>11. AckedIsCommitted'
    <2>1. FirstIndex(h.op) # 0
      BY <1>1, <1>4, FirstIndexFact
    <2>2. \A o : FirstIndex(o)' = FirstIndex(o)
      BY DEF FirstIndex, raftVars
    <2>3. QED
      BY <1>1, <1>6, <2>1, <2>2 DEF ClerkInv, AckedIsCommitted
  <1>12. \A o \in Operation : Asked(o) => Asked(o)'
    BY <1>6 DEF Asked
  <1>13. LogInv' /\ DeliveryInv' /\ QueuesInv'
    BY <1>12, ServersSame
  <1>14. ASSUME NEW k \in handler \ {h}, k.op[1] = c
         PROVE  Abandoned(k)' /\ k.pc # "done"
    <2>1. Abandoned(k)'
      BY <1>8, <1>14 DEF Abandoned
    <2>2. k.pc = "done" => k.call = call[c].n
      BY <1>14, DoneIsCurrent DEF Current
    <2>3. k.call # h.call
      BY <1>1, <1>2, <1>14 DEF HandlersInv, CallsDiffer
    <2>4. QED
      BY <1>2, <2>1, <2>2, <2>3
  <1>15. UNCHANGED <<log, waitApplyCh>> /\ handler' = (handler \ {h}) \cup {}
    BY <1>6 DEF raftVars
  <1>16. ClerkMoves(c, {h}, {}, h)
    BY <1>6, <1>8, <1>12, <1>14, <1>15 DEF ClerkMoves
  <1>17. HandlersInv'
    BY <1>16, ClerkHandlers
  <1>18. QED
    BY <1>9, <1>10, <1>11, <1>13, <1>17 DEF CommitInv, ClerkInv

LEMMA ClerkStepSafe ==
    ASSUME CommitInv, ClerkStep
    PROVE  CommitInv'
  <1>1. PICK c \in Clerk : Call(c) \/ Answer(c) \/ RpcFails(c)
    BY DEF ClerkStep
  <1>2. CASE Call(c)
    BY <1>2, CallSafe
  <1>3. CASE Answer(c)
    <2>1. /\ call[c].waiting
          /\ UNCHANGED <<raftVars, nodeVars, snapshotFile, applyChan, storeVars, waitApplyCh, loop>>
      BY <1>3 DEF Answer
    <2>2. PICK h \in Current(c) :
              /\ h.pc = "done"
              /\ IF h.err = "ErrWrongLeader" THEN Retry(c, {h}) ELSE Return(c, h)
      BY <1>3 DEF Answer
    <2>3. \A k \in Current(c) : k \in {h}
      BY <2>2 DEF CommitInv, HandlersInv, CallsDiffer, Current
    <2>4. CASE h.err = "ErrWrongLeader"
      BY <2>1, <2>2, <2>3, <2>4, RetrySafe
    <2>5. CASE h.err # "ErrWrongLeader"
      BY <2>1, <2>2, <2>5, ReturnSafe
    <2>6. QED
      BY <2>4, <2>5
  <1>4. CASE RpcFails(c)
    <2>1. PICK gone : gone = {h \in Current(c) : h.pc = "done"}
      OBVIOUS
    <2>2. /\ call[c].waiting /\ Retry(c, gone)
          /\ UNCHANGED <<raftVars, nodeVars, snapshotFile, applyChan, storeVars, waitApplyCh, loop>>
      BY <1>4, <2>1, Zenon DEF RpcFails
    <2>3. \A k \in Current(c) : k.pc = "done" => k \in gone
      BY <2>1
    <2>4. QED
      BY <2>2, <2>3, RetrySafe
  <1>5. QED
    BY <1>1, <1>2, <1>3, <1>4

----------------------------------------------------------------------------
\* What is proved of the clerks' answers.

LEMMA InitSafe == Init => CommitInv
  <1> SUFFICES ASSUME Init PROVE CommitInv
    OBVIOUS
  <1>1. 0 \in Server /\ 0 \in Nat
    BY ServiceAssumption DEF Server
  <1>2. ClerkInv
    <2>1. [n |-> 0, waiting |-> FALSE] \in [n : Nat, waiting : BOOLEAN]
      OBVIOUS
    <2>2. ClerkTypes
      BY <1>1, <2>1, ScriptLength DEF Init, ClerkTypes
    <2>3. EarlierAcked
      BY DEF Init, EarlierAcked
    <2>4. QED
      BY <2>2, <2>3 DEF Init, ClerkInv, AckedIsCommitted
  <1>3. Range(<< >>) = {} /\ IsSeq(<< >>)
    BY DEF Range, IsSeq
  <1>4. LogInv
    BY <1>3 DEF Init, LogInv
  <1>5. DeliveryInv
    <2>1. DeliveryTypes
      BY <1>1 DEF Init, DeliveryTypes
    <2>2. ASSUME NEW s \in Server PROVE DeliveryAt(s)
      <3>1. TableInv([c \in Clerk |-> 0])
        BY DEF TableInv
      <3>2. ~HasSnapshot(s)
        BY DEF Init, HasSnapshot
      <3>3. /\ hand[s] = << >> /\ applyChan[s] = << >> /\ loop[s] = None
            /\ m_last_RequestId[s] = [c \in Clerk |-> 0]
        BY DEF Init
      <3>4. QED
        BY <1>3, <3>1, <3>2, <3>3 DEF DeliveryAt
    <2>3. QED
      BY <2>1, <2>2 DEF DeliveryInv
  <1>6. QueuesInv
    <2>1. \A s \in Server : DOMAIN waitApplyCh[s] = {}
      BY DEF Init
    <2>2. QED
      BY <2>1 DEF Init, QueuesInv
  <1>7. HandlersInv
    BY FS_EmptySet DEF Init, HandlersInv, CallsDiffer
  <1>8. QED
    BY <1>2, <1>4, <1>5, <1>6, <1>7 DEF CommitInv

LEMMA StutterSafe == CommitInv /\ UNCHANGED vars => CommitInv'
  <1> SUFFICES ASSUME CommitInv, UNCHANGED vars PROVE CommitInv'
    OBVIOUS
  <1>1. UNCHANGED <<raftVars, nodeVars, snapshotFile, applyChan, storeVars, waitApplyCh, loop,
                    handler, clerkVars, log, m_requestId, call>>
    BY DEF vars, raftVars, clerkVars
  <1>2. \A o \in Operation : Asked(o) => Asked(o)'
    BY <1>1 DEF Asked
  <1>3. LogInv' /\ DeliveryInv' /\ QueuesInv'
    BY <1>1, <1>2, ServersSame
  <1>4. ClerkInv' /\ HandlersInv'
    BY <1>1, ClerkSame, HandlersSame DEF CommitInv
  <1>5. QED
    BY <1>3, <1>4 DEF CommitInv

\* Whatever fails and in whatever order, a queue, a request table and a snapshot file hold only
\* operations of the log, and a clerk waits for one handler, that of its current request (Get,
\* PutAppend, GetCommandFromRaft, ifRequestDuplicate).
THEOREM CommitInvariant == Spec => []CommitInv
  <1>1. Init => CommitInv
    BY InitSafe
  <1>2. CommitInv /\ [Next]_vars => CommitInv'
    BY StutterSafe, ClerkStepSafe, HandlerStepSafe, LoopStepSafe, RaftStepSafe DEF Next
  <1>3. QED
    BY <1>1, <1>2, PTL DEF Spec

\* What a clerk's call returned from is in the committed log (PutAppend and Get, with their queues
\* freed by other handlers, their timeouts, restarts and elections in between).
THEOREM AckedIsCommittedHolds == Spec => []AckedIsCommitted
  <1>1. CommitInv => AckedIsCommitted
    BY DEF CommitInv, ClerkInv
  <1>2. QED
    BY <1>1, CommitInvariant, PTL

----------------------------------------------------------------------------
\* A Get is answered from a store that reflects what had returned to any clerk when the Get began, as
\* long as InstallSnapshot brings only snapshots newer than what is applied (~OldInstall).

LEMMA LogTypes ==
    ASSUME CommitInv
    PROVE  Len(log) \in Nat /\ DOMAIN log = 1..Len(log) /\ \A i \in DOMAIN log : log[i] \in Operation
  <1>1. log \in Seq(Operation)
    BY DEF CommitInv, LogInv
  <1>2. QED
    BY <1>1

\* What a server knows of numbers.
LEMMA ServerTypes ==
    ASSUME CommitInv, NEW s \in Server
    PROVE  /\ lastApplied[s] \in Nat /\ m_lastSnapshotIndex[s] \in Nat /\ reflected[s] \in Nat
           /\ m_lastSnapShotRaftLogIndex[s] \in Nat
           /\ DOMAIN applyChan = Server /\ DOMAIN hand = Server /\ DOMAIN loop = Server
           /\ DOMAIN m_last_RequestId = Server /\ DOMAIN snapshotFile = Server
           /\ DOMAIN reflected = Server /\ DOMAIN lastApplied = Server
           /\ DOMAIN m_lastSnapshotIndex = Server
  BY DEF CommitInv, DeliveryInv, DeliveryTypes

LEMMA RecentOf ==
    ASSUME RecentInv, NEW s \in Server
    PROVE  RecentAt(s) /\ StoreAt(s) /\ ChannelAt(s) /\ ExecutedAt(s)
  BY DEF RecentInv, RecentAt

\* A table covered by a part of the log is covered by a longer part of it, and of a longer log.
LEMMA CoveredMore ==
    ASSUME CommitInv, NEW t, NEW n \in Nat, NEW m \in Nat, n <= m, CoveredBy(t, n)
    PROVE  CoveredBy(t, m)
  <1>1. \A i \in DOMAIN log : i \in Nat
    BY LogTypes
  <1>2. QED
    BY <1>1 DEF CoveredBy

LEMMA CoveredKept ==
    ASSUME CommitInv, log' = log \/ Commit, NEW t, NEW n, CoveredBy(t, n)
    PROVE  CoveredBy(t, n)'
  <1>1. CASE log' = log
    BY <1>1 DEF CoveredBy
  <1>2. CASE Commit
    <2>1. \A o, i : IsEntry(o, i) => IsEntry(o, i)'
      BY <1>2, CommitKeeps DEF CommitInv
    <2>2. QED
      BY <2>1 DEF CoveredBy, IsEntry
  <1>3. QED
    BY <1>1, <1>2

\* All requests up to that of an entry are in the log before it.
LEMMA CoveredSet ==
    ASSUME CommitInv, LogInOrder, NEW o \in Operation, NEW i, IsEntry(o, i), NEW n \in Nat, i <= n,
           NEW t, TableInv(t), CoveredBy(t, n)
    PROVE  CoveredBy([t EXCEPT ![o[1]] = o[2]], n)
  <1>1. o[1] \in Clerk /\ o[2] \in Nat /\ o[2] >= 1 /\ o = <<o[1], o[2]>>
    BY OperationFact
  <1>2. PICK u : u = [t EXCEPT ![o[1]] = o[2]]
    OBVIOUS
  <1>3. u[o[1]] = o[2] /\ \A c \in Clerk : c # o[1] => u[c] = t[c]
    BY <1>1, <1>2 DEF TableInv
  <1>4. \A j \in DOMAIN log : j \in Nat
    BY LogTypes
  <1>5. i \in DOMAIN log /\ log[i] = o
    BY DEF IsEntry
  <1>6. \A r \in 1..(o[2] - 1) : \E j \in DOMAIN log : j < i /\ log[j] = <<o[1], r>>
    BY <1>5 DEF LogInOrder
  <1>7. ASSUME NEW r \in 1..o[2] PROVE \E j \in DOMAIN log : j <= n /\ log[j] = <<o[1], r>>
    <2>1. CASE r = o[2]
      BY <1>1, <1>5, <2>1
    <2>2. CASE r # o[2]
      <3>1. r \in 1..(o[2] - 1)
        BY <1>1, <2>2
      <3>2. PICK j \in DOMAIN log : j < i /\ log[j] = <<o[1], r>>
        BY <1>6, <3>1
      <3>3. j <= n
        BY <1>4, <1>5, <3>2
      <3>4. QED
        BY <3>2, <3>3
    <2>3. QED
      BY <2>1, <2>2
  <1>8. CoveredBy(u, n)
    BY <1>3, <1>7 DEF CoveredBy
  <1>9. QED
    BY <1>2, <1>8

\* An entry of a clerk's current request is after what had returned when it was called.
LEMMA EntryRecent ==
    ASSUME CommitInv, LogInOrder, NEW o \in Operation, NEW i, IsEntry(o, i),
           o[2] = m_requestId[o[1]], NEW n \in Nat, i <= n
    PROVE  n >= floor[o[1]]
  <1>1. i > floor[o[1]]
    BY DEF LogInOrder, IsEntry
  <1>2. i \in Nat
    BY LogTypes DEF IsEntry
  <1>3. floor[o[1]] \in Nat
    BY OperationFact DEF CommitInv, ClerkInv, ClerkTypes
  <1>4. QED
    BY <1>1, <1>2, <1>3

----------------------------------------------------------------------------
\* The log.

LEMMA OrderSame ==
    ASSUME RecentInv, UNCHANGED <<log, m_requestId, floor>>
    PROVE  LogInOrder' /\ FloorInLog'
  BY DEF RecentInv, LogInOrder, FloorInLog

LEMMA OrderCommit ==
    ASSUME CommitInv, RecentInv, Commit
    PROVE  LogInOrder' /\ FloorInLog'
  <1>1. /\ pending # << >> /\ log' = Append(log, Head(pending))
        /\ UNCHANGED <<m_requestId, floor>>
    BY DEF Commit, clerkVars
  <1>2. PICK o : o = Head(pending)
    OBVIOUS
  <1>3. log \in Seq(Operation) /\ pending \in Seq(Operation)
        /\ o \in Operation /\ Asked(o)
    <2>1. log \in Seq(Operation) /\ pending \in Seq(Operation)
      BY DEF CommitInv, LogInv
    <2>2. o \in Range(pending) /\ o \in Operation
      BY <1>1, <1>2, <2>1, RangeFacts
    <2>3. QED
      BY <2>1, <2>2 DEF CommitInv, LogInv
  <1>4. /\ Len(log) \in Nat /\ DOMAIN log = 1..Len(log) /\ DOMAIN log' = 1..Len(log) + 1
        /\ log'[Len(log) + 1] = o /\ \A i \in 1..Len(log) : log'[i] = log[i]
        /\ Len(log') = Len(log) + 1
    BY <1>1, <1>2, <1>3
  <1>5. o[1] \in Clerk /\ o[2] \in Nat /\ o[2] >= 1 /\ o = <<o[1], o[2]>>
    BY <1>3, OperationFact
  <1>6. m_requestId[o[1]] \in Nat /\ o[2] <= m_requestId[o[1]] /\ floor[o[1]] \in Nat
    BY <1>3, <1>5 DEF CommitInv, ClerkInv, ClerkTypes, Asked
  <1>7. LogInOrder /\ FloorInLog /\ LogInv
    BY DEF RecentInv, CommitInv
  <1>8. ASSUME NEW r \in 1..(o[2] - 1)
        PROVE  \E j \in DOMAIN log : log[j] = <<o[1], r>>
    <2>1. r \in 1..m_requestId[o[1]] /\ r < m_requestId[o[1]]
      BY <1>5, <1>6
    <2>2. FirstIndex(<<o[1], r>>) # 0
      BY <1>5, <2>1 DEF CommitInv, ClerkInv, EarlierAcked, AckedIsCommitted
    <2>3. QED
      BY <1>7, <2>2, FirstIndexFact DEF Passed
  <1>9. ASSUME NEW i \in DOMAIN log'
        PROVE  /\ \A r \in 1..(log'[i][2] - 1) :
                      \E j \in DOMAIN log' : j < i /\ log'[j] = <<log'[i][1], r>>
               /\ log'[i][2] = m_requestId[log'[i][1]] => i > floor[log'[i][1]]
    <2>1. CASE i \in DOMAIN log
      <3>1. log'[i] = log[i] /\ \A j \in DOMAIN log : j \in DOMAIN log' /\ log'[j] = log[j]
        BY <1>4, <2>1
      <3>2. QED
        BY <1>7, <2>1, <3>1 DEF LogInOrder
    <2>2. CASE i \notin DOMAIN log
      <3>1. i = Len(log) + 1 /\ log'[i] = o
        BY <1>4, <2>2
      <3>2. \A j \in DOMAIN log : j \in DOMAIN log' /\ log'[j] = log[j] /\ j < i
        BY <1>4, <3>1
      <3>3. floor[o[1]] <= Len(log)
        BY <1>5, <1>7 DEF FloorInLog
      <3>4. i > floor[o[1]]
        BY <1>4, <1>6, <3>1, <3>3
      <3>5. QED
        BY <1>8, <3>1, <3>2, <3>4
    <2>3. QED
      BY <2>1, <2>2
  <1>10. LogInOrder'
    BY <1>1, <1>9 DEF LogInOrder
  <1>11. \A c \in Clerk : floor[c] \in Nat /\ floor[c] <= Len(log)
    BY <1>7 DEF FloorInLog, CommitInv, ClerkInv, ClerkTypes
  <1>12. FloorInLog'
    BY <1>1, <1>4, <1>11 DEF FloorInLog
  <1>13. QED
    BY <1>10, <1>12

LEMMA OrderCall ==
    ASSUME CommitInv, RecentInv, NEW c \in Clerk, Call(c)
    PROVE  LogInOrder' /\ FloorInLog'
  <1>1. PICK f : f = Max({FirstIndex(o) : o \in acked} \cup {0})
    OBVIOUS
  <1>2. f \in Nat /\ f <= Len(log)
    BY <1>1, FloorFact
  <1>3. /\ log' = log /\ m_requestId' = [m_requestId EXCEPT ![c] = @ + 1]
        /\ floor' = [floor EXCEPT ![c] = f]
    BY <1>1 DEF Call, raftVars
  <1>4. LogInOrder /\ FloorInLog /\ ClerkTypes
    BY DEF RecentInv, CommitInv, ClerkInv
  <1>5. /\ floor'[c] = f /\ m_requestId'[c] = m_requestId[c] + 1 /\ m_requestId[c] \in Nat
        /\ \A d \in Clerk : d # c => floor'[d] = floor[d] /\ m_requestId'[d] = m_requestId[d]
    BY <1>3, <1>4 DEF ClerkTypes
  <1>6. FloorInLog'
    BY <1>2, <1>3, <1>4, <1>5 DEF FloorInLog
  <1>7. ASSUME NEW i \in DOMAIN log, log[i][2] = m_requestId'[log[i][1]]
        PROVE  i > floor'[log[i][1]]
    <2>1. log[i] \in Operation /\ Asked(log[i])
      BY LogTypes DEF CommitInv, LogInv, Range
    <2>2. log[i][1] \in Clerk /\ log[i][2] \in Nat /\ log[i][2] <= m_requestId[log[i][1]]
      BY <2>1, OperationFact DEF Asked
    <2>3. log[i][1] # c
      BY <1>5, <1>7, <2>2
    <2>4. QED
      BY <1>4, <1>5, <1>7, <2>2, <2>3 DEF LogInOrder
  <1>8. LogInOrder'
    BY <1>3, <1>4, <1>7 DEF LogInOrder
  <1>9. QED
    BY <1>6, <1>8

----------------------------------------------------------------------------
\* The servers.

\* What has been executed stays so.
ExecutedKept(s) == \A i \in Nat : Executed(s, i) => Executed(s, i)'

\* Server t keeps its store, channel and loop.
StoreKept(t) ==
    DeliveryKept(t) /\ reflected'[t] = reflected[t] /\ lastApplied'[t] = lastApplied[t]

\* No queue of t gets an operation.
NothingQueued(t) ==
    \A i \in DOMAIN waitApplyCh'[t] :
        waitApplyCh'[t][i] # << >> => i \in DOMAIN waitApplyCh[t] /\ waitApplyCh[t][i] # << >>

LEMMA IndexTypes ==
    ASSUME CommitInv, NEW s \in Server
    PROVE  /\ loop[s] # None => loop[s].index \in Nat
           /\ \A i \in DOMAIN waitApplyCh[s] : waitApplyCh[s][i] # << >> => i \in Nat
  <1>1. loop[s] # None => loop[s].index \in Nat
    BY DeliveryOf DEF CommitInv, DeliveryAt, LoopInv
  <1>2. ASSUME NEW i \in DOMAIN waitApplyCh[s], waitApplyCh[s][i] # << >> PROVE i \in Nat
    <2>1. QueueInv(i, waitApplyCh[s][i])
      BY DEF CommitInv, QueuesInv
    <2>2. Head(waitApplyCh[s][i]) \in Range(waitApplyCh[s][i])
      BY <1>2, <2>1, RangeFacts DEF QueueInv
    <2>3. i \in DOMAIN log
      BY <2>1, <2>2 DEF QueueInv, IsEntry
    <2>4. QED
      BY <2>3, LogTypes
  <1>3. QED
    BY <1>1, <1>2

\* What a step leaves alone stays as it was.
LEMMA StoreKeptHolds ==
    ASSUME CommitInv, RecentInv, log' = log \/ Commit, NEW t \in Server, StoreKept(t)
    PROVE  /\ StoreAt(t)' /\ ChannelAt(t)' /\ ExecutedKept(t)
           /\ NothingQueued(t) => ExecutedAt(t)'
  <1>1. StoreAt(t) /\ ChannelAt(t) /\ ExecutedAt(t)
    BY RecentOf
  <1>2. /\ hand'[t] = hand[t] /\ applyChan'[t] = applyChan[t] /\ loop'[t] = loop[t]
        /\ m_last_RequestId'[t] = m_last_RequestId[t] /\ snapshotFile'[t] = snapshotFile[t]
        /\ m_lastSnapshotIndex'[t] = m_lastSnapshotIndex[t]
        /\ reflected'[t] = reflected[t] /\ lastApplied'[t] = lastApplied[t]
    BY DEF StoreKept, DeliveryKept
  <1>3. \A x, n : CoveredBy(x, n) => CoveredBy(x, n)'
    BY CoveredKept
  <1>4. \A x, n : CoveredFrom(x, n) => CoveredFrom(x, n)'
    BY <1>3 DEF CoveredFrom
  <1>5. HasSnapshot(t)' <=> HasSnapshot(t)
    BY <1>2 DEF HasSnapshot
  <1>6. CoveredBy(m_last_RequestId[t], reflected[t])'
    <2>1. CoveredBy(m_last_RequestId[t], reflected[t])
      BY <1>1 DEF StoreAt
    <2>2. PICK x, n : x = m_last_RequestId[t] /\ n = reflected[t]
      OBVIOUS
    <2>3. CoveredBy(x, n)'
      BY <1>3, <2>1, <2>2
    <2>4. x = m_last_RequestId'[t] /\ n = reflected'[t]
      BY <1>2, <2>2
    <2>5. QED
      BY <2>3, <2>4
  <1>7. HasSnapshot(t)' => CoveredFrom(snapshotFile[t], m_lastSnapshotIndex[t])'
    <2>1. PICK x, n : x = snapshotFile[t] /\ n = m_lastSnapshotIndex[t]
      OBVIOUS
    <2>2. HasSnapshot(t) => CoveredFrom(x, n)
      BY <1>1, <2>1 DEF StoreAt
    <2>3. x = snapshotFile'[t] /\ n = m_lastSnapshotIndex'[t]
      BY <1>2, <2>1
    <2>4. HasSnapshot(t)' => CoveredFrom(x, n)'
      BY <1>4, <1>5, <2>2
    <2>5. QED
      BY <2>3, <2>4
  <1>8. StoreAt(t)'
    BY <1>1, <1>2, <1>4, <1>6, <1>7 DEF StoreAt
  <1>9. ChannelAt(t)'
    BY <1>1, <1>2 DEF ChannelAt
  <1>10. \A i : Executed(t, i) => Executed(t, i)'
    BY <1>2 DEF Executed
  <1>11. ExecutedKept(t)
    BY <1>10 DEF ExecutedKept
  <1>12. ASSUME NothingQueued(t) PROVE ExecutedAt(t)'
    <2>1. loop[t] # None => Executed(t, loop[t].index)'
      <3>1. PICK m : m = loop[t]
        OBVIOUS
      <3>2. m # None => Executed(t, m.index)'
        BY <1>1, <1>10, <3>1 DEF ExecutedAt
      <3>3. m = loop'[t]
        BY <1>2, <3>1
      <3>4. QED
        BY <1>2, <3>2, <3>3
    <2>2. \A i \in DOMAIN waitApplyCh'[t] : waitApplyCh'[t][i] # << >> => Executed(t, i)'
      BY <1>1, <1>10, <1>12 DEF ExecutedAt, NothingQueued
    <2>3. QED
      BY <1>1, <1>2, <2>1, <2>2 DEF ExecutedAt
  <1>13. QED
    BY <1>8, <1>9, <1>11, <1>12

\* Handlers that are left alone keep what they know.
LEMMA HandlerRecentKept ==
    ASSUME CommitInv, RecentInv, NEW h \in handler, ExecutedKept(h.server),
           floor'[h.op[1]] = floor[h.op[1]]
    PROVE  HandlerRecent(h)'
  <1>1. HandlerRecent(h)
    BY DEF RecentInv
  <1>2. h.index \in Nat
    BY HandlerOf DEF HandlerType
  <1>3. Executed(h.server, h.index) => Executed(h.server, h.index)'
    BY <1>2 DEF ExecutedKept
  <1>4. QED
    BY <1>1, <1>3 DEF HandlerRecent

\* What a step makes of the table and the snapshots of server s, over the same log.
StoreNext(s) ==
    /\ CoveredBy(m_last_RequestId'[s], reflected'[s])
    /\ HasSnapshot(s)' => CoveredFrom(snapshotFile'[s], m_lastSnapshotIndex'[s])
    /\ \A m \in Range(applyChan'[s]) : m.op = None => CoveredFrom(m.snapshot, m.index)

LEMMA StoreNextHolds ==
    ASSUME log' = log, NEW s \in Server, StoreNext(s)
    PROVE  StoreAt(s)'
  <1>1. \A t, n : CoveredBy(t, n) <=> CoveredBy(t, n)'
    BY DEF CoveredBy
  <1>2. \A t, n : CoveredFrom(t, n) <=> CoveredFrom(t, n)'
    BY <1>1 DEF CoveredFrom
  <1>3. PICK u, n, x, k : /\ u = m_last_RequestId'[s] /\ n = reflected'[s]
                          /\ x = snapshotFile'[s] /\ k = m_lastSnapshotIndex'[s]
    OBVIOUS
  <1>4. CoveredBy(u, n)' /\ (HasSnapshot(s)' => CoveredFrom(x, k)')
    BY <1>1, <1>2, <1>3 DEF StoreNext
  <1>5. \A m \in Range(applyChan'[s]) : m.op = None => CoveredFrom(m.snapshot, m.index)'
    BY <1>2 DEF StoreNext
  <1>6. CoveredBy(m_last_RequestId[s], reflected[s])'
    BY <1>3, <1>4
  <1>7. HasSnapshot(s)' => CoveredFrom(snapshotFile[s], m_lastSnapshotIndex[s])'
    BY <1>3, <1>4
  <1>8. QED
    BY <1>5, <1>6, <1>7 DEF StoreAt

\* What the queues have stays executed.
LEMMA ExecutedNext ==
    ASSUME CommitInv, RecentInv, NEW s \in Server, ExecutedKept(s), NothingQueued(s),
           NEW m, loop'[s] = m,
           m # None => /\ Executed(s, m.index)'
                       /\ m.pc = "saved" => m.index <= snapshotFile'[s].at
    PROVE  ExecutedAt(s)'
  <1>1. ASSUME NEW i \in DOMAIN waitApplyCh'[s], waitApplyCh'[s][i] # << >>
        PROVE  Executed(s, i)'
    <2>1. i \in DOMAIN waitApplyCh[s] /\ waitApplyCh[s][i] # << >>
      BY <1>1 DEF NothingQueued
    <2>2. i \in Nat /\ Executed(s, i)
      BY <2>1, IndexTypes, RecentOf DEF ExecutedAt
    <2>3. QED
      BY <2>2 DEF ExecutedKept
  <1>2. loop'[s] # None => Executed(s, loop[s].index)'
    OBVIOUS
  <1>3. QED
    BY <1>1, <1>2 DEF ExecutedAt

\* A step of one server, which its handlers see.
LEMMA ServerStep ==
    ASSUME CommitInv, RecentInv, NEW s \in Server, UNCHANGED <<log, m_requestId, floor, handler>>,
           \A t \in Server : t # s => StoreKept(t) /\ NothingQueued(t),
           RecentAt(s)', ExecutedKept(s)
    PROVE  RecentInv'
  <1>1. LogInOrder' /\ FloorInLog'
    BY OrderSame
  <1>2. \A t \in Server : t # s => RecentAt(t)' /\ ExecutedKept(t)
    BY StoreKeptHolds DEF RecentAt
  <1>3. \A t \in Server : RecentAt(t)' /\ ExecutedKept(t)
    BY <1>2
  <1>4. ASSUME NEW h \in handler PROVE HandlerRecent(h)'
    <2>1. h.server \in Server
      BY HandlerOf
    <2>2. QED
      BY <1>3, <2>1, HandlerRecentKept
  <1>5. QED
    BY <1>1, <1>3, <1>4 DEF RecentInv

LEMMA MakeSnapShotRecent ==
    ASSUME CommitInv, RecentInv, NEW s \in Server, MakeSnapShot(s)
    PROVE  RecentInv'
  <1>1. StoreAt(s) /\ ChannelAt(s) /\ ExecutedAt(s)
    BY RecentOf
  <1>2. /\ UNCHANGED <<log, lastApplied, m_lastSnapshotIndex, hand, applyChan, m_last_RequestId,
                       reflected, waitApplyCh, m_requestId, floor, handler>>
        /\ snapshotFile' = [snapshotFile EXCEPT ![s] = getSnapShotData(s)]
        /\ loop' = [loop EXCEPT ![s].pc = "saved"]
        /\ loop[s] # None /\ loop[s].index > m_lastSnapshotIndex[s]
    BY DEF MakeSnapShot, NeedsSnapshot, raftVars, nodeVars, storeVars, clerkVars
  <1>3. PICK m : m = [loop[s] EXCEPT !.pc = "saved"]
    OBVIOUS
  <1>4. LoopInv(loop[s])
    BY <1>2, DeliveryOf DEF CommitInv, DeliveryAt
  <1>5. m.index = loop[s].index /\ m.index \in Nat
    BY <1>3, <1>4 DEF LoopInv
  <1>6. loop'[s] = m /\ snapshotFile'[s] = getSnapShotData(s)
    BY <1>2, <1>3, ServerTypes
  <1>7. \A t \in Server : t # s => StoreKept(t) /\ NothingQueued(t)
    BY <1>2, ServerTypes DEF StoreKept, DeliveryKept, NothingQueued
  <1>8. \A i : Executed(s, i) <=> Executed(s, i)'
    BY <1>2 DEF Executed
  <1>9. Executed(s, m.index) /\ m.index <= reflected[s]
    BY <1>1, <1>2, <1>5 DEF ExecutedAt, Executed
  <1>10. ExecutedKept(s) /\ NothingQueued(s)
    BY <1>2, <1>8 DEF ExecutedKept, NothingQueued
  <1>11. ExecutedAt(s)'
    <2>1. m.index <= snapshotFile'[s].at
      BY <1>6, <1>9 DEF getSnapShotData
    <2>2. QED
      BY <1>6, <1>8, <1>9, <1>10, <2>1, ExecutedNext
  <1>12. StoreAt(s)'
    <2>1. CoveredBy(m_last_RequestId[s], reflected[s])
      BY <1>1 DEF StoreAt
    <2>2. m_lastSnapshotIndex[s] <= reflected[s]
      BY <1>2, <1>5, <1>9, ServerTypes
    <2>3. CoveredFrom(snapshotFile'[s], m_lastSnapshotIndex[s])
      BY <1>6, <2>1, <2>2 DEF CoveredFrom, getSnapShotData
    <2>4. StoreNext(s)
      BY <1>1, <1>2, <2>1, <2>3 DEF StoreNext, StoreAt
    <2>5. QED
      BY <1>2, <2>4, StoreNextHolds
  <1>13. ChannelAt(s)'
    BY <1>1, <1>2 DEF ChannelAt
  <1>14. QED
    BY <1>2, <1>7, <1>10, <1>11, <1>12, <1>13, ServerStep DEF RecentAt

LEMMA PersistSnapshotIndexRecent ==
    ASSUME CommitInv, RecentInv, NEW s \in Server, PersistSnapshotIndex(s)
    PROVE  RecentInv'
  <1>1. StoreAt(s) /\ ChannelAt(s) /\ ExecutedAt(s)
    BY RecentOf
  <1>2. /\ UNCHANGED <<log, lastApplied, snapshotFile, hand, applyChan, m_last_RequestId,
                       reflected, waitApplyCh, m_requestId, floor, handler>>
        /\ m_lastSnapshotIndex' = [m_lastSnapshotIndex EXCEPT ![s] = loop[s].index]
        /\ loop' = [loop EXCEPT ![s].pc = "persisted"]
        /\ loop[s] # None /\ loop[s].pc = "saved"
    BY DEF PersistSnapshotIndex, raftVars, storeVars, clerkVars
  <1>3. PICK m : m = [loop[s] EXCEPT !.pc = "persisted"]
    OBVIOUS
  <1>4. LoopInv(loop[s])
    BY <1>2, DeliveryOf DEF CommitInv, DeliveryAt
  <1>5. m.index = loop[s].index /\ m.pc = "persisted"
    BY <1>3, <1>4 DEF LoopInv
  <1>6. loop'[s] = m /\ m_lastSnapshotIndex'[s] = m.index
    BY <1>2, <1>3, <1>5, ServerTypes
  <1>7. \A t \in Server : t # s => StoreKept(t) /\ NothingQueued(t)
    BY <1>2, ServerTypes DEF StoreKept, DeliveryKept, NothingQueued
  <1>8. \A i : Executed(s, i) <=> Executed(s, i)'
    BY <1>2 DEF Executed
  <1>9. Executed(s, m.index) /\ m.index <= snapshotFile[s].at
    BY <1>1, <1>2, <1>5 DEF ExecutedAt
  <1>10. ExecutedKept(s) /\ NothingQueued(s)
    BY <1>2, <1>8 DEF ExecutedKept, NothingQueued
  <1>11. ExecutedAt(s)'
    BY <1>5, <1>6, <1>8, <1>9, <1>10, ExecutedNext
  <1>12. StoreAt(s)'
    <2>1. CoveredFrom(snapshotFile'[s], m_lastSnapshotIndex'[s])
      BY <1>1, <1>2, <1>6, <1>9 DEF StoreAt, CoveredFrom, HasSnapshot
    <2>2. StoreNext(s)
      BY <1>1, <1>2, <2>1 DEF StoreNext, StoreAt
    <2>3. QED
      BY <1>2, <2>2, StoreNextHolds
  <1>13. ChannelAt(s)'
    BY <1>1, <1>2 DEF ChannelAt
  <1>14. QED
    BY <1>2, <1>7, <1>10, <1>11, <1>12, <1>13, ServerStep DEF RecentAt

\* The channel without its head: what is behind the head is newer, if it is a snapshot.
LEMMA ChannelTail ==
    ASSUME CommitInv, RecentInv, NEW s \in Server, applyChan[s] # << >>,
           applyChan'[s] = Tail(applyChan[s]), hand'[s] = hand[s], lastApplied'[s] = lastApplied[s]
    PROVE  /\ ChannelAt(s)'
           /\ Range(applyChan'[s]) \subseteq Range(applyChan[s])
           /\ \A k \in Range(applyChan'[s]) : k.op = None => Head(applyChan[s]).index < k.index
  <1>1. PICK q, p : q = applyChan[s] /\ p = Tail(q)
    OBVIOUS
  <1>2. IsSeq(q) /\ q # << >> /\ p = applyChan'[s]
    BY <1>1, DeliveryOf DEF CommitInv, DeliveryAt
  <1>3. Range(p) \subseteq Range(q)
    BY <1>1, <1>2, IsSeqFacts
  <1>4. q \in Seq(Range(q))
    BY <1>2 DEF IsSeq
  <1>5. /\ DOMAIN q = 1..Len(q) /\ Len(q) \in Nat \ {0} /\ DOMAIN p = 1..(Len(q) - 1)
        /\ \A k \in 1..(Len(q) - 1) : p[k] = q[k + 1]
        /\ Head(q) = q[1]
    BY <1>1, <1>2, <1>4
  <1>6. /\ \A m \in Range(hand[s]) \cup Range(q) : m.index <= lastApplied[s]
        /\ \A a, b \in DOMAIN q : a < b /\ q[b].op = None => q[a].index < q[b].index
    BY <1>1, RecentOf DEF ChannelAt
  <1>7. ASSUME NEW a \in DOMAIN p, NEW b \in DOMAIN p, a < b, p[b].op = None
        PROVE  p[a].index < p[b].index
    <2>1. a + 1 \in DOMAIN q /\ b + 1 \in DOMAIN q /\ a + 1 < b + 1
      BY <1>5, <1>7
    <2>2. p[a] = q[a + 1] /\ p[b] = q[b + 1]
      BY <1>5
    <2>3. QED
      BY <1>6, <1>7, <2>1, <2>2
  <1>8. ASSUME NEW k \in Range(p), k.op = None PROVE Head(q).index < k.index
    <2>1. PICK b \in DOMAIN p : k = p[b]
      BY DEF Range
    <2>2. b + 1 \in DOMAIN q /\ 1 \in DOMAIN q /\ 1 < b + 1 /\ k = q[b + 1]
      BY <1>5, <2>1
    <2>3. q[1].index < q[b + 1].index
      BY <1>6, <1>8, <2>2
    <2>4. QED
      BY <1>5, <2>2, <2>3
  <1>9. ChannelAt(s)'
    BY <1>2, <1>3, <1>6, <1>7 DEF ChannelAt
  <1>10. QED
    BY <1>1, <1>2, <1>3, <1>8, <1>9

\* The loop executes an entry, or skips it.
LEMMA GetCommandRecent ==
    ASSUME CommitInv, RecentInv, NEW s \in Server, NEW m, EntryInv(m), GetCommandFromRaft(s, m),
           m.index <= lastApplied[s], loop[s] = None,
           \A k \in Range(applyChan'[s]) : k.op = None => m.index < k.index,
           Range(applyChan'[s]) \subseteq Range(applyChan[s]), ChannelAt(s)',
           \A t \in Server : t # s => applyChan'[t] = applyChan[t],
           UNCHANGED <<log, nodeVars, snapshotFile, waitApplyCh, handler, clerkVars>>
    PROVE  RecentInv'
  <1>1. StoreAt(s) /\ ChannelAt(s) /\ ExecutedAt(s) /\ LogInOrder
    BY RecentOf DEF RecentInv
  <1>2. UNCHANGED <<log, lastApplied, hand, m_lastSnapshotIndex, snapshotFile, waitApplyCh,
                    m_requestId, floor, handler>>
    BY DEF nodeVars, clerkVars
  <1>3. m.op \in Operation /\ m.index \in Nat /\ IsEntry(m.op, m.index)
    BY DEF EntryInv
  <1>4. \/ UNCHANGED <<m_last_RequestId, loop, reflected>>
        \/ /\ loop' = [loop EXCEPT ![s] = [op |-> m.op, index |-> m.index, pc |-> "executed"]]
           /\ reflected' = [reflected EXCEPT ![s] = IF m.index > @ THEN m.index ELSE @]
           /\ \/ UNCHANGED m_last_RequestId
              \/ m_last_RequestId' = [m_last_RequestId EXCEPT ![s][m.op[1]] = m.op[2]]
    BY DEF GetCommandFromRaft, ExecutePutOpOnKVDB
  <1>5. \A t \in Server : t # s => StoreKept(t) /\ NothingQueued(t)
    BY <1>2, <1>4, ServerTypes DEF StoreKept, DeliveryKept, NothingQueued
  <1>6. NothingQueued(s)
    BY <1>2 DEF NothingQueued
  <1>7. /\ reflected[s] \in Nat /\ reflected'[s] \in Nat /\ reflected[s] <= reflected'[s]
        /\ loop'[s] = None \/ m.index <= reflected'[s]
    BY <1>3, <1>4, ServerTypes
  <1>8. ExecutedKept(s)
    BY <1>2, <1>7 DEF ExecutedKept, Executed
  <1>9. loop'[s] = None \/ loop'[s] = [op |-> m.op, index |-> m.index, pc |-> "executed"]
    BY <1>4, ServerTypes
  <1>10. loop'[s] # None => Executed(s, m.index)'
    BY <1>2, <1>7 DEF Executed
  <1>11. PICK k : k = loop'[s]
    OBVIOUS
  <1>12. k # None => k.index = m.index /\ k.pc = "executed"
    BY <1>9, <1>11
  <1>13. k # None => Executed(s, k.index)'
    BY <1>10, <1>11, <1>12
  <1>14. ExecutedAt(s)'
    BY <1>6, <1>8, <1>11, <1>12, <1>13, ExecutedNext
  <1>15. StoreAt(s)'
    <2>1. CoveredBy(m_last_RequestId[s], reflected'[s])
      BY <1>1, <1>7, CoveredMore DEF StoreAt
    <2>2. CoveredBy(m_last_RequestId'[s], reflected'[s])
      <3>1. CASE m_last_RequestId'[s] = m_last_RequestId[s]
        BY <2>1, <3>1
      <3>2. CASE m_last_RequestId'[s] # m_last_RequestId[s]
        <4>1. m_last_RequestId' = [m_last_RequestId EXCEPT ![s][m.op[1]] = m.op[2]]
              /\ m.index <= reflected'[s]
          BY <1>3, <1>4, <3>2, ServerTypes
        <4>2. m_last_RequestId'[s] = [m_last_RequestId[s] EXCEPT ![m.op[1]] = m.op[2]]
          BY <4>1, ServerTypes
        <4>3. PICK o, i, t, n : /\ o = m.op /\ i = m.index /\ t = m_last_RequestId[s]
                                /\ n = reflected'[s]
          OBVIOUS
        <4>4. TableInv(t)
          BY <4>3, DeliveryOf DEF CommitInv, DeliveryAt
        <4>5. CoveredBy([t EXCEPT ![o[1]] = o[2]], n)
          BY <1>1, <1>3, <1>7, <2>1, <4>1, <4>3, <4>4, CoveredSet
        <4>6. QED
          BY <4>2, <4>3, <4>5
      <3>3. QED
        BY <3>1, <3>2
    <2>3. HasSnapshot(s)' => HasSnapshot(s)
      BY <1>2, <1>11, <1>12 DEF HasSnapshot
    <2>4. StoreNext(s)
      BY <1>1, <1>2, <2>2, <2>3 DEF StoreNext, StoreAt
    <2>5. QED
      BY <1>2, <2>4, StoreNextHolds
  <1>16. QED
    BY <1>2, <1>5, <1>8, <1>14, <1>15, ServerStep DEF RecentAt

\* The loop takes the store from a snapshot.
LEMMA GetSnapShotRecent ==
    ASSUME CommitInv, RecentInv, NEW s \in Server, NEW m, SnapshotInv(m.snapshot), m.index \in Nat,
           m \in Range(applyChan[s]), m.op = None, GetSnapShotFromRaft(s, m), loop[s] = None,
           Range(applyChan'[s]) \subseteq Range(applyChan[s]), ChannelAt(s)',
           \A t \in Server : t # s => applyChan'[t] = applyChan[t],
           UNCHANGED <<log, nodeVars, snapshotFile, waitApplyCh, handler, clerkVars>>
    PROVE  RecentInv'
  <1>1. StoreAt(s) /\ ChannelAt(s) /\ ExecutedAt(s)
    BY RecentOf
  <1>2. UNCHANGED <<log, lastApplied, hand, m_lastSnapshotIndex, snapshotFile, waitApplyCh,
                    m_requestId, floor, handler>>
    BY DEF nodeVars, clerkVars
  <1>3. /\ m_last_RequestId' = [m_last_RequestId EXCEPT ![s] = m.snapshot.last]
        /\ reflected' = [reflected EXCEPT ![s] = m.snapshot.at] /\ UNCHANGED loop
    BY DEF GetSnapShotFromRaft, parseFromString
  <1>4. \A t \in Server : t # s => StoreKept(t) /\ NothingQueued(t)
    BY <1>2, <1>3, ServerTypes DEF StoreKept, DeliveryKept, NothingQueued
  <1>5. NothingQueued(s)
    BY <1>2 DEF NothingQueued
  <1>6. /\ m_last_RequestId'[s] = m.snapshot.last /\ reflected'[s] = m.snapshot.at
        /\ loop'[s] = None
    BY <1>3, ServerTypes
  <1>7. CoveredFrom(m.snapshot, m.index) /\ m.snapshot.at \in Nat
    BY <1>1 DEF StoreAt, SnapshotInv
  <1>8. m.index <= reflected'[s] /\ reflected'[s] \in Nat
    BY <1>6, <1>7 DEF CoveredFrom
  <1>9. ASSUME NEW i \in Nat, Executed(s, i) PROVE Executed(s, i)'
    <2>1. i < m.index
      BY <1>9 DEF Executed
    <2>2. i <= reflected'[s]
      BY <1>8, <2>1
    <2>3. QED
      BY <1>2, <1>9, <2>2 DEF Executed
  <1>10. ExecutedKept(s)
    BY <1>9 DEF ExecutedKept
  <1>11. ExecutedAt(s)'
    BY <1>5, <1>6, <1>10, ExecutedNext
  <1>12. StoreAt(s)'
    <2>1. HasSnapshot(s)' => HasSnapshot(s)
      BY <1>2, <1>3 DEF HasSnapshot
    <2>2. StoreNext(s)
      BY <1>1, <1>2, <1>6, <1>7, <2>1 DEF StoreNext, StoreAt, CoveredFrom
    <2>3. QED
      BY <1>2, <2>2, StoreNextHolds
  <1>13. QED
    BY <1>2, <1>4, <1>10, <1>11, <1>12, ServerStep DEF RecentAt

LEMMA ReadLoopRecent ==
    ASSUME CommitInv, RecentInv, NEW s \in Server, ReadRaftApplyCommandLoop(s)
    PROVE  RecentInv'
  <1>1. DeliveryInv /\ DOMAIN applyChan = Server
    BY ServerTypes DEF CommitInv
  <1>2. PICK m : m = Head(applyChan[s])
    OBVIOUS
  <1>3. /\ applyChan[s] # << >> /\ loop[s] = None
        /\ applyChan' = [applyChan EXCEPT ![s] = Tail(@)]
        /\ IF m.op # None THEN GetCommandFromRaft(s, m) ELSE GetSnapShotFromRaft(s, m)
        /\ UNCHANGED <<log, nodeVars, snapshotFile, waitApplyCh, handler, clerkVars>>
    BY <1>2 DEF ReadRaftApplyCommandLoop, raftVars
  <1>4. /\ m \in Range(applyChan[s])
        /\ m.op = None => SnapshotInv(m.snapshot) /\ m.index \in Nat
        /\ m.op # None => EntryInv(m)
    BY <1>1, <1>2, <1>3, ChannelHead
  <1>5. /\ applyChan'[s] = Tail(applyChan[s])
        /\ \A t \in Server : t # s => applyChan'[t] = applyChan[t]
    BY <1>1, <1>3
  <1>6. hand'[s] = hand[s] /\ lastApplied'[s] = lastApplied[s]
    BY <1>3 DEF nodeVars
  <1>7. /\ ChannelAt(s)' /\ Range(applyChan'[s]) \subseteq Range(applyChan[s])
        /\ \A k \in Range(applyChan'[s]) : k.op = None => m.index < k.index
    BY <1>2, <1>3, <1>5, <1>6, ChannelTail
  <1>8. m.index <= lastApplied[s]
    BY <1>4, RecentOf DEF ChannelAt
  <1>9. CASE m.op # None
    BY <1>3, <1>4, <1>5, <1>7, <1>8, <1>9, GetCommandRecent
  <1>10. CASE m.op = None
    BY <1>3, <1>4, <1>5, <1>7, <1>10, GetSnapShotRecent
  <1>11. QED
    BY <1>9, <1>10

\* A queue gets what the loop has executed.
LEMMA SendMessageRecent ==
    ASSUME CommitInv, RecentInv, NEW s \in Server, SendMessageToWaitChan(s)
    PROVE  RecentInv'
  <1>1. StoreAt(s) /\ ChannelAt(s) /\ ExecutedAt(s)
    BY RecentOf
  <1>2. /\ UNCHANGED <<log, lastApplied, snapshotFile, m_lastSnapshotIndex, hand, applyChan,
                       m_last_RequestId, reflected, m_requestId, floor, handler>>
        /\ loop' = [loop EXCEPT ![s] = None] /\ loop[s] # None
    BY DEF SendMessageToWaitChan, raftVars, nodeVars, storeVars, clerkVars
  <1>3. PICK m : m = loop[s]
    OBVIOUS
  <1>4. PICK queues : queues = waitApplyCh[s]
    OBVIOUS
  <1>5. PICK new : new = [i \in DOMAIN queues |-> IF i = m.index THEN Append(queues[i], m.op)
                                                 ELSE queues[i]]
    OBVIOUS
  <1>6. waitApplyCh' = [waitApplyCh EXCEPT ![s] = new]
    BY <1>3, <1>4, <1>5 DEF SendMessageToWaitChan
  <1>7. waitApplyCh'[s] = new /\ \A t \in Server : t # s => waitApplyCh'[t] = waitApplyCh[t]
    BY <1>6 DEF CommitInv, QueuesInv
  <1>8. loop'[s] = None /\ \A t \in Server : t # s => loop'[t] = loop[t]
    BY <1>2, ServerTypes
  <1>9. \A t \in Server : t # s => StoreKept(t) /\ NothingQueued(t)
    BY <1>2, <1>7, <1>8 DEF StoreKept, DeliveryKept, NothingQueued
  <1>10. \A i : Executed(s, i) <=> Executed(s, i)'
    BY <1>2 DEF Executed
  <1>11. ExecutedKept(s)
    BY <1>10 DEF ExecutedKept
  <1>12. Executed(s, m.index)
    BY <1>1, <1>2, <1>3 DEF ExecutedAt
  <1>13. ASSUME NEW i \in DOMAIN new, new[i] # << >> PROVE Executed(s, i)'
    <2>1. CASE i = m.index
      BY <1>10, <1>12, <2>1
    <2>2. CASE i # m.index
      <3>1. i \in DOMAIN queues /\ queues[i] # << >>
        BY <1>5, <1>13, <2>2
      <3>2. QED
        BY <1>1, <1>4, <1>10, <3>1 DEF ExecutedAt
    <2>3. QED
      BY <2>1, <2>2
  <1>14. ExecutedAt(s)'
    BY <1>7, <1>8, <1>13 DEF ExecutedAt
  <1>15. HasSnapshot(s)' => HasSnapshot(s)
    BY <1>2, <1>8 DEF HasSnapshot
  <1>16. StoreNext(s)
    BY <1>1, <1>2, <1>15 DEF StoreNext, StoreAt
  <1>17. StoreAt(s)'
    BY <1>2, <1>16, StoreNextHolds
  <1>18. ChannelAt(s)'
    BY <1>1, <1>2 DEF ChannelAt
  <1>19. QED
    BY <1>2, <1>9, <1>11, <1>14, <1>17, <1>18, ServerStep DEF RecentAt

\* raft at s gives more to apply: what was executed stays so.
LEMMA RaftDelivers ==
    ASSUME CommitInv, RecentInv, NEW s \in Server,
           UNCHANGED <<log, loop, m_last_RequestId, reflected, waitApplyCh, m_requestId, floor,
                       handler>>,
           \A t \in Server : t # s => DeliveryKept(t) /\ lastApplied'[t] = lastApplied[t],
           StoreNext(s), ChannelAt(s)', ExecutedKept(s),
           loop[s] # None /\ loop[s].pc = "saved" => loop[s].index <= snapshotFile'[s].at
    PROVE  RecentInv'
  <1>1. \A t \in Server : t # s => StoreKept(t) /\ NothingQueued(t)
    BY DEF StoreKept, NothingQueued
  <1>2. NothingQueued(s)
    BY DEF NothingQueued
  <1>3. PICK m : m = loop[s]
    OBVIOUS
  <1>4. m # None => m.index \in Nat /\ Executed(s, m.index)
    BY <1>3, IndexTypes, RecentOf DEF ExecutedAt
  <1>5. m # None => Executed(s, m.index)'
    BY <1>4 DEF ExecutedKept
  <1>6. loop'[s] = m
    BY <1>3
  <1>7. m # None /\ m.pc = "saved" => m.index <= snapshotFile'[s].at
    BY <1>3
  <1>8. ExecutedAt(s)'
    BY <1>2, <1>5, <1>6, <1>7, ExecutedNext
  <1>9. StoreAt(s)'
    BY StoreNextHolds
  <1>10. RecentAt(s)'
    BY <1>8, <1>9 DEF RecentAt
  <1>11. QED
    BY <1>1, <1>10, ServerStep

LEMMA CopyLogsRecent ==
    ASSUME CommitInv, RecentInv, NEW s \in Server, CopyLogs(s)
    PROVE  RecentInv'
  <1>1. StoreAt(s) /\ ChannelAt(s) /\ ExecutedAt(s)
    BY RecentOf
  <1>2. PICK n, a : n = Len(log) /\ a = lastApplied[s]
    OBVIOUS
  <1>3. PICK new : new = [k \in 1..(n - a) |-> [op |-> log[a + k], index |-> a + k]]
    OBVIOUS
  <1>4. /\ UNCHANGED <<log, loop, m_last_RequestId, reflected, waitApplyCh, m_requestId, floor,
                       handler, m_lastSnapshotIndex, snapshotFile, applyChan>>
        /\ hand' = [hand EXCEPT ![s] = new]
        /\ lastApplied' = [lastApplied EXCEPT ![s] = n] /\ a < n
    BY <1>2, <1>3 DEF CopyLogs, raftVars, storeVars, clerkVars
  <1>5. n \in Nat /\ a \in Nat
    BY <1>2, LogTypes, ServerTypes
  <1>6. lastApplied'[s] = n /\ hand'[s] = new
    BY <1>4, ServerTypes
  <1>7. \A t \in Server : t # s => DeliveryKept(t) /\ lastApplied'[t] = lastApplied[t]
    BY <1>4, ServerTypes DEF DeliveryKept
  <1>8. ASSUME NEW m \in Range(new) PROVE m.index <= n
    <2>1. PICK k \in 1..(n - a) : m = [op |-> log[a + k], index |-> a + k]
      BY <1>3 DEF Range
    <2>2. QED
      BY <1>5, <2>1
  <1>9. ASSUME NEW m \in Range(applyChan[s]) PROVE m.index <= n
    <2>1. m.index \in Nat
      BY DeliveryOf DEF CommitInv, DeliveryAt, EntryInv
    <2>2. m.index <= a
      BY <1>1, <1>2 DEF ChannelAt
    <2>3. QED
      BY <1>4, <1>5, <2>1, <2>2
  <1>10. ChannelAt(s)'
    BY <1>1, <1>4, <1>6, <1>8, <1>9 DEF ChannelAt
  <1>11. ASSUME NEW i \in Nat, Executed(s, i) PROVE Executed(s, i)'
    <2>1. i <= n
      BY <1>2, <1>4, <1>5, <1>11 DEF Executed
    <2>2. QED
      BY <1>4, <1>6, <1>11, <2>1 DEF Executed
  <1>12. ExecutedKept(s)
    BY <1>11 DEF ExecutedKept
  <1>13. HasSnapshot(s)' => HasSnapshot(s)
    BY <1>4 DEF HasSnapshot
  <1>14. StoreNext(s)
    BY <1>1, <1>4, <1>13 DEF StoreNext, StoreAt
  <1>15. loop[s] # None /\ loop[s].pc = "saved" => loop[s].index <= snapshotFile'[s].at
    BY <1>1, <1>4 DEF ExecutedAt
  <1>16. QED
    BY <1>4, <1>7, <1>10, <1>12, <1>14, <1>15, RaftDelivers

LEMMA PushLogsRecent ==
    ASSUME CommitInv, RecentInv, NEW s \in Server, PushLogs(s)
    PROVE  RecentInv'
  <1>1. StoreAt(s) /\ ChannelAt(s) /\ ExecutedAt(s)
    BY RecentOf
  <1>2. PICK q, w, m : q = applyChan[s] /\ w = hand[s] /\ m = Head(w)
    OBVIOUS
  <1>3. /\ UNCHANGED <<log, loop, m_last_RequestId, reflected, waitApplyCh, m_requestId, floor,
                       handler, m_lastSnapshotIndex, snapshotFile, lastApplied>>
        /\ hand' = [hand EXCEPT ![s] = Tail(w)]
        /\ applyChan' = [applyChan EXCEPT ![s] = Append(q, m)]
        /\ w # << >>
    BY <1>2 DEF PushLogs, raftVars, storeVars, clerkVars
  <1>4. hand'[s] = Tail(w) /\ applyChan'[s] = Append(q, m)
    BY <1>3, ServerTypes
  <1>5. \A t \in Server : t # s => DeliveryKept(t) /\ lastApplied'[t] = lastApplied[t]
    BY <1>3, ServerTypes DEF DeliveryKept
  <1>6. IsSeq(q) /\ IsSeq(w) /\ \A e \in Range(w) : EntryInv(e)
    BY <1>2, DeliveryOf DEF CommitInv, DeliveryAt
  <1>7. Range(Append(q, m)) = Range(q) \cup {m}
    BY <1>6, IsSeqFacts
  <1>8. m \in Range(w) /\ Range(Tail(w)) \subseteq Range(w)
    BY <1>2, <1>3, <1>6, IsSeqFacts
  <1>9. m.op # None
    BY <1>6, <1>8, NoneAssumption DEF EntryInv
  <1>10. /\ DOMAIN q = 1..Len(q) /\ Len(q) \in Nat
         /\ DOMAIN Append(q, m) = 1..(Len(q) + 1) /\ Append(q, m)[Len(q) + 1] = m
         /\ \A k \in 1..Len(q) : Append(q, m)[k] = q[k]
    <2>1. q \in Seq(Range(q))
      BY <1>6 DEF IsSeq
    <2>2. q \in Seq(Range(q) \cup {m}) /\ m \in Range(q) \cup {m}
      BY <2>1, SeqWiden
    <2>3. QED
      BY <2>2
  <1>11. \A a, b \in DOMAIN q : a < b /\ q[b].op = None => q[a].index < q[b].index
    BY <1>1, <1>2 DEF ChannelAt
  <1>12. ASSUME NEW a \in DOMAIN Append(q, m), NEW b \in DOMAIN Append(q, m), a < b,
                Append(q, m)[b].op = None
         PROVE  Append(q, m)[a].index < Append(q, m)[b].index
    <2>1. b # Len(q) + 1
      BY <1>9, <1>10, <1>12
    <2>2. b \in DOMAIN q /\ a \in DOMAIN q
      BY <1>10, <1>12, <2>1
    <2>3. Append(q, m)[a] = q[a] /\ Append(q, m)[b] = q[b]
      BY <1>10, <2>2
    <2>4. QED
      BY <1>11, <1>12, <2>2, <2>3
  <1>13. \A e \in Range(hand'[s]) \cup Range(applyChan'[s]) : e.index <= lastApplied'[s]
    BY <1>1, <1>2, <1>3, <1>4, <1>7, <1>8 DEF ChannelAt
  <1>14. ChannelAt(s)'
    BY <1>4, <1>12, <1>13 DEF ChannelAt
  <1>15. ASSUME NEW i \in Nat, Executed(s, i) PROVE Executed(s, i)'
    BY <1>2, <1>3, <1>4, <1>7, <1>9, <1>15 DEF Executed
  <1>16. ExecutedKept(s)
    BY <1>15 DEF ExecutedKept
  <1>17. HasSnapshot(s)' => HasSnapshot(s)
    BY <1>3 DEF HasSnapshot
  <1>18. StoreNext(s)
    BY <1>1, <1>2, <1>3, <1>4, <1>7, <1>9, <1>17 DEF StoreNext, StoreAt
  <1>19. loop[s] # None /\ loop[s].pc = "saved" => loop[s].index <= snapshotFile'[s].at
    BY <1>1, <1>3 DEF ExecutedAt
  <1>20. QED
    BY <1>3, <1>5, <1>14, <1>16, <1>18, <1>19, RaftDelivers

\* A snapshot that is newer than what s has applied, and than what is on its way.
LEMMA InstallSnapshotRecent ==
    ASSUME CommitInv, RecentInv, ~OldInstall, NEW s \in Server, InstallSnapshot(s)
    PROVE  RecentInv'
  <1>1. StoreAt(s) /\ ChannelAt(s) /\ ExecutedAt(s)
    BY RecentOf
  <1>2. PICK index, file : index = m_lastSnapshotIndex[leader] /\ file = snapshotFile[leader]
    OBVIOUS
  <1>3. PICK m : m = [op |-> None, index |-> index, snapshot |-> file]
    OBVIOUS
  <1>4. /\ UNCHANGED <<log, loop, m_last_RequestId, reflected, waitApplyCh, m_requestId, floor,
                       handler, hand>>
        /\ lastApplied' = [lastApplied EXCEPT ![s] = IF index > @ THEN index ELSE @]
        /\ snapshotFile' = [snapshotFile EXCEPT ![s] = file]
        /\ m_lastSnapshotIndex' = [m_lastSnapshotIndex EXCEPT ![s] = index]
        /\ applyChan' = [applyChan EXCEPT ![s] = Append(@, m)]
        /\ leader # None /\ index > m_lastSnapshotIndex[s] /\ index > lastApplied[s]
    BY <1>2, <1>3 DEF InstallSnapshot, Accepts, raftVars, storeVars, clerkVars
  <1>5. leader \in Server
    BY <1>4 DEF CommitInv, DeliveryInv, DeliveryTypes
  <1>6. index \in Nat /\ index > 0 /\ lastApplied[s] \in Nat
    BY <1>2, <1>4, <1>5, ServerTypes
  <1>7. CoveredFrom(file, index)
    BY <1>2, <1>5, <1>6, RecentOf DEF StoreAt, HasSnapshot
  <1>8. PICK q, p : q = applyChan[s] /\ p = Append(q, m)
    OBVIOUS
  <1>9. /\ lastApplied'[s] = index /\ snapshotFile'[s] = file /\ m_lastSnapshotIndex'[s] = index
        /\ applyChan'[s] = p
    BY <1>4, <1>6, <1>8, ServerTypes
  <1>10. \A t \in Server : t # s => DeliveryKept(t) /\ lastApplied'[t] = lastApplied[t]
    BY <1>4, ServerTypes DEF DeliveryKept
  <1>11. IsSeq(q)
    BY <1>8, DeliveryOf DEF CommitInv, DeliveryAt
  <1>12. Range(p) = Range(q) \cup {m}
    BY <1>8, <1>11, IsSeqFacts
  <1>13. /\ DOMAIN q = 1..Len(q) /\ Len(q) \in Nat /\ DOMAIN p = 1..Len(q) + 1
         /\ \A k \in 1..Len(q) : p[k] = q[k]
         /\ p[Len(q) + 1] = m
    <2>1. q \in Seq(Range(q) \cup {m})
      BY <1>11, SeqWiden DEF IsSeq
    <2>2. QED
      BY <1>8, <2>1
  <1>14. m.op = None /\ m.index = index /\ m.snapshot = file
    BY <1>3
  <1>15. \A k \in Range(hand[s]) \cup Range(q) : k.index \in Nat /\ k.index <= lastApplied[s]
    <2>1. \A k \in Range(hand[s]) \cup Range(q) : k.index \in Nat
      BY <1>8, DeliveryOf DEF CommitInv, DeliveryAt, EntryInv
    <2>2. QED
      BY <1>1, <1>8, <2>1 DEF ChannelAt
  <1>16. \A k \in Range(hand[s]) \cup Range(q) : k.index < index
    BY <1>4, <1>6, <1>15
  <1>17. ASSUME NEW a \in DOMAIN p, NEW b \in DOMAIN p, a < b, p[b].op = None
         PROVE  p[a].index < p[b].index
    <2>1. a \in DOMAIN q /\ p[a] = q[a]
      BY <1>13, <1>17
    <2>2. CASE b \in DOMAIN q
      <3>1. p[b] = q[b]
        BY <1>13, <2>2
      <3>2. QED
        BY <1>1, <1>8, <1>17, <2>1, <2>2, <3>1 DEF ChannelAt
    <2>3. CASE b \notin DOMAIN q
      <3>1. p[b] = m
        BY <1>13, <2>3
      <3>2. q[a] \in Range(q)
        BY <2>1 DEF Range
      <3>3. QED
        BY <1>14, <1>16, <2>1, <3>1, <3>2
    <2>4. QED
      BY <2>2, <2>3
  <1>18. \A k \in Range(hand'[s]) \cup Range(applyChan'[s]) : k.index <= lastApplied'[s]
    <2>1. \A k \in Range(hand[s]) \cup Range(q) : k.index <= index
      BY <1>6, <1>15, <1>16
    <2>2. m.index <= index
      BY <1>6, <1>14
    <2>3. QED
      BY <1>4, <1>9, <1>12, <2>1, <2>2
  <1>19. ChannelAt(s)'
    BY <1>9, <1>17, <1>18 DEF ChannelAt
  <1>20. ASSUME NEW i \in Nat, Executed(s, i) PROVE Executed(s, i)'
    <2>1. i < index
      BY <1>4, <1>6, <1>20 DEF Executed
    <2>2. i <= index
      BY <1>6, <2>1
    <2>3. \A k \in Range(applyChan'[s]) : k.op = None => i < k.index
      BY <1>8, <1>9, <1>12, <1>14, <1>20, <2>1 DEF Executed
    <2>4. QED
      BY <1>4, <1>9, <1>20, <2>2, <2>3 DEF Executed
  <1>21. ExecutedKept(s)
    BY <1>20 DEF ExecutedKept
  <1>22. StoreNext(s)
    BY <1>1, <1>4, <1>7, <1>8, <1>9, <1>12, <1>14 DEF StoreNext, StoreAt
  <1>23. ASSUME loop[s] # None PROVE loop[s].index <= snapshotFile'[s].at
    <2>1. loop[s].index \in Nat /\ loop[s].index <= lastApplied[s]
      BY <1>1, <1>23, IndexTypes DEF ExecutedAt, Executed
    <2>2. file.at \in Nat /\ index <= file.at
      <3>1. SnapshotInv(file)
        BY <1>2, <1>5, <1>6, DeliveryOf DEF CommitInv, DeliveryAt, HasSnapshot
      <3>2. QED
        BY <1>7, <3>1 DEF CoveredFrom, SnapshotInv
    <2>3. QED
      BY <1>4, <1>6, <1>9, <2>1, <2>2
  <1>24. QED
    BY <1>4, <1>10, <1>19, <1>21, <1>22, <1>23, RaftDelivers

\* A restarted server has the store of its snapshot file, and nothing on its way.
LEMMA RestartRecent ==
    ASSUME CommitInv, RecentInv, NEW s \in Server, Restart(s)
    PROVE  RecentInv'
  <1>1. StoreAt(s)
    BY RecentOf
  <1>2. PICK sn, none : sn = snapshotFile'[s] /\ none = [c \in Clerk |-> 0]
    OBVIOUS
  <1>3. /\ applyChan' = [applyChan EXCEPT ![s] = << >>]
        /\ hand' = [hand EXCEPT ![s] = << >>]
        /\ loop' = [loop EXCEPT ![s] = None]
        /\ waitApplyCh' = [waitApplyCh EXCEPT ![s] = << >>]
        /\ lastApplied' = [lastApplied EXCEPT ![s] = m_lastSnapshotIndex[s]]
        /\ handler' = {h \in handler : h.server # s \/ h.pc = "done"}
        /\ UNCHANGED <<log, m_lastSnapshotIndex, m_requestId, floor>>
        /\ \A t \in Server : t # s => snapshotFile'[t] = snapshotFile[t]
    BY RestartFile DEF Restart, clerkVars
  <1>12. HasSnapshot(s)' => CoveredFrom(sn, m_lastSnapshotIndex[s])
    <2>1. CASE sn = snapshotFile[s] /\ (HasSnapshot(s)' => HasSnapshot(s))
      BY <1>1, <2>1 DEF StoreAt
    <2>2. ASSUME NEW l \in Server, HasSnapshot(l), sn = snapshotFile[l],
                 m_lastSnapshotIndex[s] < m_lastSnapshotIndex[l]
          PROVE  CoveredFrom(sn, m_lastSnapshotIndex[s])
      <3>1. CoveredFrom(sn, m_lastSnapshotIndex[l]) /\ SnapshotInv(sn)
        BY <2>2, RecentOf, DeliveryOf DEF StoreAt, DeliveryAt, CommitInv
      <3>2. m_lastSnapshotIndex[s] \in Nat /\ m_lastSnapshotIndex[l] \in Nat /\ sn.at \in Nat
        BY <3>1, ServerTypes DEF SnapshotInv
      <3>3. QED
        BY <2>2, <3>1, <3>2 DEF CoveredFrom
    <2>3. QED
      BY <1>2, <2>1, <2>2, RestartFile
  <1>4. \/ /\ m_last_RequestId' = [m_last_RequestId EXCEPT ![s] = none]
           /\ reflected' = [reflected EXCEPT ![s] = 0]
        \/ /\ sn # None
           /\ m_last_RequestId' = [m_last_RequestId EXCEPT ![s] = sn.last]
           /\ reflected' = [reflected EXCEPT ![s] = sn.at]
    BY <1>2 DEF Restart, parseFromString
  <1>5. waitApplyCh'[s] = << >> /\ \A t \in Server : t # s => waitApplyCh'[t] = waitApplyCh[t]
    BY <1>3 DEF CommitInv, QueuesInv
  <1>6. \A t \in Server : t # s => StoreKept(t) /\ NothingQueued(t)
    BY <1>3, <1>4, <1>5, ServerTypes DEF StoreKept, DeliveryKept, NothingQueued
  <1>7. \A t \in Server : t # s => RecentAt(t)' /\ ExecutedKept(t)
    BY <1>3, <1>6, StoreKeptHolds DEF RecentAt
  <1>8. hand'[s] = << >> /\ applyChan'[s] = << >> /\ loop'[s] = None
    BY <1>3, ServerTypes
  <1>9. Range(<< >>) = {} /\ DOMAIN << >> = {}
    BY DEF Range
  <1>10. ChannelAt(s)' /\ ExecutedAt(s)'
    BY <1>5, <1>8, <1>9 DEF ChannelAt, ExecutedAt
  <1>11. CoveredBy(m_last_RequestId'[s], reflected'[s])
    <2>1. CASE m_last_RequestId'[s] = none /\ reflected'[s] = 0
      <3>1. CoveredBy(none, 0)
        BY <1>2 DEF CoveredBy
      <3>2. QED
        BY <2>1, <3>1
    <2>2. CASE sn # None /\ m_last_RequestId'[s] = sn.last /\ reflected'[s] = sn.at
      <3>1. HasSnapshot(s)'
        BY <1>2, <2>2 DEF HasSnapshot
      <3>2. QED
        BY <1>12, <2>2, <3>1 DEF CoveredFrom
    <2>3. QED
      BY <1>4, <2>1, <2>2, ServerTypes
  <1>13. StoreNext(s)
    BY <1>2, <1>3, <1>8, <1>9, <1>11, <1>12 DEF StoreNext
  <1>14. RecentAt(s)'
    BY <1>3, <1>10, <1>13, StoreNextHolds DEF RecentAt
  <1>15. ASSUME NEW h \in handler' PROVE HandlerRecent(h)'
    <2>1. h \in handler /\ (h.server # s \/ h.pc = "done") /\ h.server \in Server
      BY <1>3, HandlerOf
    <2>2. CASE h.server # s
      BY <1>3, <1>7, <2>1, <2>2, HandlerRecentKept
    <2>3. CASE h.pc = "done"
      BY <1>3, <2>1, <2>3 DEF RecentInv, HandlerRecent
    <2>4. QED
      BY <2>1, <2>2, <2>3
  <1>16. LogInOrder' /\ FloorInLog'
    BY <1>3, OrderSame
  <1>17. QED
    BY <1>7, <1>14, <1>15, <1>16 DEF RecentInv

\* A step that leaves the servers alone.
LEMMA ServersKept ==
    ASSUME CommitInv, RecentInv, log' = log \/ Commit,
           UNCHANGED <<nodeVars, snapshotFile, applyChan, storeVars, waitApplyCh, loop>>
    PROVE  \A t \in Server : RecentAt(t)' /\ ExecutedKept(t)
  <1>1. \A t \in Server : StoreKept(t) /\ NothingQueued(t)
    BY DEF StoreKept, DeliveryKept, NothingQueued, nodeVars, storeVars
  <1>2. QED
    BY <1>1, StoreKeptHolds DEF RecentAt

LEMMA RaftStepRecent ==
    ASSUME CommitInv, RecentInv, ~OldInstall, RaftStep
    PROVE  RecentInv'
  <1>1. ASSUME Commit \/ \E s \in Server : Elect(s) PROVE RecentInv'
    <2>1. UNCHANGED <<nodeVars, snapshotFile, applyChan, storeVars, waitApplyCh, loop, handler,
                      m_requestId, floor>>
      BY <1>1 DEF Commit, Elect, clerkVars
    <2>2. log' = log \/ Commit
      BY <1>1 DEF Elect
    <2>3. \A t \in Server : RecentAt(t)' /\ ExecutedKept(t)
      BY <2>1, <2>2, ServersKept
    <2>4. LogInOrder' /\ FloorInLog'
      BY <2>1, <2>2, OrderSame, OrderCommit
    <2>5. \A h \in handler : HandlerRecent(h)'
      BY <2>1, <2>3, HandlerOf, HandlerRecentKept
    <2>6. QED
      BY <2>1, <2>3, <2>4, <2>5 DEF RecentInv
  <1>2. ASSUME NEW s \in Server, CopyLogs(s) \/ PushLogs(s) \/ InstallSnapshot(s) \/ Restart(s)
        PROVE  RecentInv'
    BY <1>2, CopyLogsRecent, PushLogsRecent, InstallSnapshotRecent, RestartRecent
  <1>3. QED
    BY <1>1, <1>2 DEF RaftStep

----------------------------------------------------------------------------
\* The handlers.

\* A step of the handlers over the same log.
LEMMA HandlersStep ==
    ASSUME CommitInv, RecentInv, UNCHANGED <<log, m_requestId, floor>>,
           \A t \in Server : RecentAt(t)' /\ ExecutedKept(t),
           \A k \in handler' : k \in handler \/ HandlerRecent(k)'
    PROVE  RecentInv'
  <1>1. \A h \in handler : HandlerRecent(h)'
    BY HandlerOf, HandlerRecentKept
  <1>2. LogInOrder' /\ FloorInLog'
    BY OrderSame
  <1>3. QED
    BY <1>1, <1>2 DEF RecentInv

\* A step of the handlers that leaves the stores alone, and queues nothing.
LEMMA StoresKept ==
    ASSUME CommitInv, RecentInv, log' = log,
           UNCHANGED <<nodeVars, snapshotFile, applyChan, storeVars, loop>>,
           \A t \in Server : NothingQueued(t)
    PROVE  \A t \in Server : RecentAt(t)' /\ ExecutedKept(t)
  <1>1. \A t \in Server : StoreKept(t)
    BY DEF StoreKept, DeliveryKept, nodeVars, storeVars
  <1>2. QED
    BY <1>1, StoreKeptHolds DEF RecentAt

\* A Get puts its request into the table of a store that reflects its entry.
LEMMA TableRecent ==
    ASSUME CommitInv, RecentInv, NEW s \in Server, NEW o \in Operation, NEW i, IsEntry(o, i),
           i <= reflected[s],
           m_last_RequestId' = [m_last_RequestId EXCEPT ![s][o[1]] = o[2]],
           UNCHANGED <<log, nodeVars, snapshotFile, applyChan, loop, reflected>>,
           \A t \in Server : NothingQueued(t)
    PROVE  \A t \in Server : RecentAt(t)' /\ ExecutedKept(t)
  <1>1. StoreAt(s) /\ ChannelAt(s) /\ ExecutedAt(s) /\ LogInOrder
    BY RecentOf DEF RecentInv
  <1>2. UNCHANGED <<lastApplied, hand, m_lastSnapshotIndex, applyChan, loop, reflected, snapshotFile>>
    BY DEF nodeVars
  <1>3. /\ m_last_RequestId'[s] = [m_last_RequestId[s] EXCEPT ![o[1]] = o[2]]
        /\ \A t \in Server : t # s => m_last_RequestId'[t] = m_last_RequestId[t]
    BY ServerTypes
  <1>4. \A t \in Server : t # s => StoreKept(t)
    BY <1>2, <1>3 DEF StoreKept, DeliveryKept
  <1>5. \A t \in Server : t # s => RecentAt(t)' /\ ExecutedKept(t)
    BY <1>4, StoreKeptHolds DEF RecentAt
  <1>6. CoveredBy(m_last_RequestId'[s], reflected'[s])
    <2>1. PICK t, n : t = m_last_RequestId[s] /\ n = reflected[s]
      OBVIOUS
    <2>2. TableInv(t) /\ CoveredBy(t, n) /\ n \in Nat
      BY <1>1, <2>1, DeliveryOf, ServerTypes DEF CommitInv, DeliveryAt, StoreAt
    <2>3. CoveredBy([t EXCEPT ![o[1]] = o[2]], n)
      BY <1>1, <2>1, <2>2, CoveredSet
    <2>4. QED
      BY <1>2, <1>3, <2>1, <2>3
  <1>7. HasSnapshot(s)' <=> HasSnapshot(s)
    BY <1>2 DEF HasSnapshot
  <1>8. StoreNext(s)
    BY <1>1, <1>2, <1>6, <1>7 DEF StoreNext, StoreAt
  <1>9. StoreAt(s)' /\ ChannelAt(s)'
    BY <1>1, <1>2, <1>8, StoreNextHolds DEF ChannelAt
  <1>10. \A k : Executed(s, k) <=> Executed(s, k)'
    BY <1>2 DEF Executed
  <1>11. ExecutedKept(s)
    BY <1>10 DEF ExecutedKept
  <1>12. PICK m : m = loop[s]
    OBVIOUS
  <1>13. loop'[s] = m /\ (m # None => Executed(s, m.index)'
                                      /\ (m.pc = "saved" => m.index <= snapshotFile'[s].at))
    BY <1>1, <1>2, <1>10, <1>12 DEF ExecutedAt
  <1>14. ExecutedAt(s)'
    BY <1>11, <1>13, ExecutedNext
  <1>15. QED
    BY <1>5, <1>9, <1>11, <1>14 DEF RecentAt

\* The end of a handler: who waited on its queue keeps executed operations, its own answer is recent.
LEMMA FinishRecent ==
    ASSUME CommitInv, RecentInv, NEW h \in handler, NEW err, Finish(h, err),
           IsGet(h.op) /\ err # "ErrWrongLeader" /\ ~Abandoned(h)
               => reflected[h.server] >= floor[h.op[1]],
           UNCHANGED <<log, floor>>,
           \A t \in Server : ExecutedKept(t)
    PROVE  \A k \in handler' : k \in handler \/ HandlerRecent(k)'
  <1>1. PICK queues : queues = waitApplyCh[h.server]
    OBVIOUS
  <1>2. PICK gone : gone = IF h.index \in DOMAIN queues THEN queues[h.index] ELSE << >>
    OBVIOUS
  <1>3. PICK done : done = [h EXCEPT !.pc = "done", !.err = err, !.index = 0, !.freed = None,
                                   !.at = IF IsGet(h.op) /\ err # "ErrWrongLeader"
                                          THEN reflected[h.server] ELSE 0]
    OBVIOUS
  <1>4. handler' = {IF o.server = h.server /\ o.index = h.index /\ o.pc = "wait"
                    THEN [o EXCEPT !.freed = IF o.freed # None THEN o.freed ELSE gone] ELSE o
                      : o \in handler \ {h}}
                   \cup IF Abandoned(h) THEN {} ELSE {done}
    BY <1>1, <1>2, <1>3, Zenon DEF Finish
  <1>5. h \in HandlerType /\ h.server \in Server
    BY HandlerOf
  <1>6. gone # << >> => Executed(h.server, h.index)
    BY <1>1, <1>2, <1>5, RecentOf DEF ExecutedAt
  <1>7. ASSUME NEW o \in handler, o.server = h.server, o.index = h.index, o.pc = "wait",
               NEW k, k = [o EXCEPT !.freed = IF o.freed # None THEN o.freed ELSE gone]
        PROVE  HandlerRecent(k)'
    <2>1. o \in HandlerType
      BY HandlerOf
    <2>2. /\ k.pc = "wait" /\ k.index = h.index /\ k.server = h.server
          /\ k.freed = IF o.freed # None THEN o.freed ELSE gone
      BY <1>7, <2>1 DEF HandlerType
    <2>3. k.freed # None /\ k.freed # << >> => Executed(h.server, h.index)
      BY <1>6, <1>7, <2>2 DEF RecentInv, HandlerRecent
    <2>4. h.index \in Nat
      BY <1>5 DEF HandlerType
    <2>5. k.freed # None /\ k.freed # << >> => Executed(h.server, h.index)'
      BY <1>5, <2>3, <2>4 DEF ExecutedKept
    <2>6. QED
      BY <2>2, <2>5 DEF HandlerRecent
  <1>8. ASSUME ~Abandoned(h) PROVE HandlerRecent(done)'
    <2>1. /\ done.pc = "done" /\ done.err = err /\ done.op = h.op
          /\ done.at = IF IsGet(h.op) /\ err # "ErrWrongLeader" THEN reflected[h.server] ELSE 0
      BY <1>3, <1>5 DEF HandlerType
    <2>2. IsGet(h.op) /\ err # "ErrWrongLeader" => done.at >= floor'[h.op[1]]
      BY <1>8, <2>1
    <2>3. QED
      BY <2>1, <2>2 DEF HandlerRecent, IsGet, What
  <1>9. ASSUME NEW k \in handler' PROVE k \in handler \/ HandlerRecent(k)'
    <2>1. CASE ~Abandoned(h) /\ k = done
      BY <1>8, <2>1
    <2>2. CASE ~(~Abandoned(h) /\ k = done)
      <3>1. PICK o \in handler : k = IF o.server = h.server /\ o.index = h.index /\ o.pc = "wait"
                THEN [o EXCEPT !.freed = IF o.freed # None THEN o.freed ELSE gone] ELSE o
        BY <1>4, <2>2
      <3>2. CASE o.server = h.server /\ o.index = h.index /\ o.pc = "wait"
        BY <1>7, <3>1, <3>2
      <3>3. CASE ~(o.server = h.server /\ o.index = h.index /\ o.pc = "wait")
        BY <3>1, <3>3
      <3>4. QED
        BY <3>2, <3>3
    <2>3. QED
      BY <2>1, <2>2
  <1>10. QED
    BY <1>9

\* The end of a handler queues nothing.
LEMMA FinishQueues ==
    ASSUME CommitInv, NEW h \in handler, NEW err, Finish(h, err)
    PROVE  \A t \in Server : NothingQueued(t)
  <1>1. PICK queues : queues = waitApplyCh[h.server]
    OBVIOUS
  <1>2. PICK rest : rest = [i \in DOMAIN queues \ {h.index} |-> queues[i]]
    OBVIOUS
  <1>3. waitApplyCh' = [waitApplyCh EXCEPT ![h.server] = rest]
    BY <1>1, <1>2 DEF Finish, Restrict
  <1>4. h.server \in Server
    BY HandlerOf
  <1>5. waitApplyCh'[h.server] = rest
        /\ \A t \in Server : t # h.server => waitApplyCh'[t] = waitApplyCh[t]
    BY <1>3, <1>4 DEF CommitInv, QueuesInv
  <1>6. NothingQueued(h.server)
    BY <1>1, <1>2, <1>5 DEF NothingQueued
  <1>7. QED
    BY <1>5, <1>6 DEF NothingQueued

\* A Get is answered from a store that reflects its entry.
LEMMA ExecuteGetRecent ==
    ASSUME CommitInv, RecentInv, NEW h \in handler, ExecuteGetOpOnKVDB(h),
           NEW i, IsEntry(h.op, i), i <= reflected[h.server],
           UNCHANGED <<raftVars, nodeVars, snapshotFile, applyChan, m_skipList,
                       m_lastSnapShotRaftLogIndex, reflected, loop, clerkVars>>
    PROVE  RecentInv'
  <1>1. h.op \in Operation /\ h.server \in Server /\ CallIsCurrent(h)
    BY HandlerOf
  <1>2. PICK err \in {"OK", "ErrNoKey"} : Finish(h, err)
    BY Zenon DEF ExecuteGetOpOnKVDB
  <1>3. UNCHANGED <<log, m_requestId, floor>>
    BY DEF raftVars, clerkVars
  <1>4. \A t \in Server : NothingQueued(t)
    BY <1>2, FinishQueues
  <1>5. m_last_RequestId' = [m_last_RequestId EXCEPT ![h.server][h.op[1]] = h.op[2]]
    BY DEF ExecuteGetOpOnKVDB
  <1>6. \A t \in Server : RecentAt(t)' /\ ExecutedKept(t)
    <2>1. PICK s, o : s = h.server /\ o = h.op
      OBVIOUS
    <2>2. s \in Server /\ o \in Operation /\ IsEntry(o, i) /\ i <= reflected[s]
          /\ m_last_RequestId' = [m_last_RequestId EXCEPT ![s][o[1]] = o[2]]
      BY <1>1, <1>5, <2>1
    <2>3. QED
      BY <1>3, <1>4, <2>2, TableRecent
  <1>7. ~Abandoned(h) => reflected[h.server] >= floor[h.op[1]]
    <2>1. ~Abandoned(h) => h.op[2] = m_requestId[h.op[1]]
      BY <1>1 DEF CallIsCurrent
    <2>2. LogInOrder /\ reflected[h.server] \in Nat
      BY <1>1, ServerTypes DEF RecentInv
    <2>3. QED
      BY <1>1, <2>1, <2>2, EntryRecent
  <1>8. \A k \in handler' : k \in handler \/ HandlerRecent(k)'
    BY <1>2, <1>3, <1>6, <1>7, FinishRecent
  <1>9. QED
    BY <1>3, <1>6, <1>8, HandlersStep

LEMMA GetRecent ==
    ASSUME CommitInv, RecentInv, NEW h \in handler, Get(h)
    PROVE  RecentInv'
  <1>1. HandlerInv(h) /\ HandlerRecent(h)
    BY HandlerOf DEF RecentInv
  <1>2. h.pc = "popped" /\ ExecuteGetOpOnKVDB(h)
        /\ UNCHANGED <<raftVars, nodeVars, snapshotFile, applyChan, m_skipList,
                       m_lastSnapShotRaftLogIndex, reflected, loop, clerkVars>>
    BY DEF Get
  <1>3. IsEntry(h.op, h.index) /\ h.index <= reflected[h.server]
    BY <1>1, <1>2 DEF HandlerInv, HandlerRecent, Executed
  <1>4. QED
    BY <1>2, <1>3, ExecuteGetRecent

\* A handler ends, and the stores stay.
LEMMA EndRecent ==
    ASSUME CommitInv, RecentInv, NEW h \in handler, NEW err, Finish(h, err),
           ~IsGet(h.op) \/ err = "ErrWrongLeader",
           UNCHANGED <<raftVars, nodeVars, snapshotFile, applyChan, storeVars, loop, clerkVars>>
    PROVE  RecentInv'
  <1>1. UNCHANGED <<log, m_requestId, floor>>
    BY DEF raftVars, clerkVars
  <1>2. \A t \in Server : NothingQueued(t)
    BY FinishQueues
  <1>3. \A t \in Server : RecentAt(t)' /\ ExecutedKept(t)
    BY <1>1, <1>2, StoresKept
  <1>4. \A k \in handler' : k \in handler \/ HandlerRecent(k)'
    BY <1>1, <1>3, FinishRecent
  <1>5. QED
    BY <1>1, <1>3, <1>4, HandlersStep

LEMMA AfterTimeOutRecent ==
    ASSUME CommitInv, RecentInv, NEW h \in handler, AfterTimeOut(h)
    PROVE  RecentInv'
  <1>1. h.op \in Operation /\ h.server \in Server
    BY HandlerOf
  <1>2. UNCHANGED <<raftVars, nodeVars, snapshotFile, applyChan, m_skipList,
                    m_lastSnapShotRaftLogIndex, reflected, restores, loop, clerkVars>>
    BY DEF AfterTimeOut
  <1>3. \/ ifRequestDuplicate(h.server, h.op) /\ ExecuteGetOpOnKVDB(h)
        \/ /\ m_last_RequestId' = m_last_RequestId
           /\ \/ ~IsGet(h.op) /\ Finish(h, "OK")
              \/ Finish(h, "ErrWrongLeader")
    BY Zenon DEF AfterTimeOut
  <1>4. CASE ifRequestDuplicate(h.server, h.op) /\ ExecuteGetOpOnKVDB(h)
    <2>1. CoveredBy(m_last_RequestId[h.server], reflected[h.server])
      BY <1>1, RecentOf DEF StoreAt
    <2>2. TableInv(m_last_RequestId[h.server])
      BY <1>1, DeliveryOf DEF CommitInv, DeliveryAt
    <2>3. h.op[1] \in Clerk /\ h.op[2] \in Nat /\ h.op[2] >= 1 /\ h.op = <<h.op[1], h.op[2]>>
      BY <1>1, OperationFact
    <2>4. h.op[2] \in 1..m_last_RequestId[h.server][h.op[1]]
      BY <1>4, <2>2, <2>3 DEF TableInv, ifRequestDuplicate
    <2>5. PICK i \in DOMAIN log : i <= reflected[h.server] /\ log[i] = <<h.op[1], h.op[2]>>
      BY <2>1, <2>3, <2>4 DEF CoveredBy
    <2>6. IsEntry(h.op, i)
      BY <2>3, <2>5 DEF IsEntry
    <2>7. QED
      BY <1>2, <1>4, <2>5, <2>6, ExecuteGetRecent
  <1>5. CASE /\ m_last_RequestId' = m_last_RequestId
             /\ \/ ~IsGet(h.op) /\ Finish(h, "OK")
                \/ Finish(h, "ErrWrongLeader")
    <2>1. UNCHANGED storeVars
      BY <1>2, <1>5 DEF storeVars
    <2>2. QED
      BY <1>2, <1>5, <2>1, EndRecent
  <1>6. QED
    BY <1>3, <1>4, <1>5

\* A handler goes on, and the stores stay.
LEMMA GoOnRecent ==
    ASSUME CommitInv, RecentInv, NEW h \in handler, NEW new, Step(h, new),
           UNCHANGED <<log, m_requestId, floor, nodeVars, snapshotFile, applyChan, storeVars, loop>>,
           \A t \in Server : NothingQueued(t),
           new.pc # "done", new.server = h.server,
           new.pc = "popped" \/ (new.pc = "wait" /\ new.freed # None /\ new.freed # << >>)
               => Executed(h.server, new.index) /\ new.index \in Nat
    PROVE  RecentInv'
  <1>1. \A t \in Server : RecentAt(t)' /\ ExecutedKept(t)
    BY StoresKept
  <1>2. h.server \in Server
    BY HandlerOf
  <1>3. HandlerRecent(new)'
    BY <1>1, <1>2 DEF HandlerRecent, ExecutedKept
  <1>4. \A k \in handler' : k \in handler \/ HandlerRecent(k)'
    BY <1>3 DEF Step
  <1>5. QED
    BY <1>1, <1>4, HandlersStep

LEMMA StartRecent ==
    ASSUME CommitInv, RecentInv, NEW h \in handler, Start(h)
    PROVE  RecentInv'
  <1>1. h \in HandlerType
    BY HandlerOf
  <1>2. UNCHANGED <<log, m_requestId, floor, nodeVars, snapshotFile, applyChan, storeVars, loop,
                    waitApplyCh>>
    BY DEF Start, clerkVars
  <1>3. \A t \in Server : NothingQueued(t)
    BY <1>2 DEF NothingQueued
  <1>4. CASE leader # h.server
    <2>1. PICK new : new = [h EXCEPT !.pc = "done", !.err = "ErrWrongLeader"]
      OBVIOUS
    <2>2. \A k \in handler' : k \in handler \/ k = new
      BY <1>4, <2>1 DEF Start
    <2>3. new.pc = "done" /\ new.err = "ErrWrongLeader"
      BY <1>1, <2>1 DEF HandlerType
    <2>4. HandlerRecent(new)'
      BY <2>3 DEF HandlerRecent
    <2>5. \A k \in handler' : k \in handler \/ HandlerRecent(k)'
      BY <2>2, <2>4
    <2>6. \A t \in Server : RecentAt(t)' /\ ExecutedKept(t)
      BY <1>2, <1>3, StoresKept
    <2>7. QED
      BY <1>2, <2>5, <2>6, HandlersStep
  <1>5. CASE leader = h.server
    <2>1. PICK new : new = [h EXCEPT !.pc = "started", !.index = Len(log) + Len(pending) + 1]
      OBVIOUS
    <2>2. new.pc = "started" /\ new.server = h.server
      BY <1>1, <2>1 DEF HandlerType
    <2>3. Step(h, new)
      BY <1>5, <2>1 DEF Start
    <2>4. QED
      BY <1>2, <1>3, <2>2, <2>3, GoOnRecent
  <1>6. QED
    BY <1>4, <1>5

LEMMA RegisterRecent ==
    ASSUME CommitInv, RecentInv, NEW h \in handler, Register(h)
    PROVE  RecentInv'
  <1>1. h \in HandlerType /\ HandlerInv(h) /\ h.server \in Server
    BY HandlerOf
  <1>2. /\ h.pc = "started"
        /\ UNCHANGED <<log, m_requestId, floor, nodeVars, snapshotFile, applyChan, storeVars, loop>>
    BY DEF Register, raftVars, clerkVars
  <1>3. PICK old : old = waitApplyCh[h.server]
    OBVIOUS
  <1>4. PICK q : q = [i \in DOMAIN old \cup {h.index} |-> IF i \in DOMAIN old THEN old[i] ELSE << >>]
    OBVIOUS
  <1>5. waitApplyCh' = [waitApplyCh EXCEPT ![h.server] = q]
    BY <1>3, <1>4 DEF Register
  <1>6. waitApplyCh'[h.server] = q
        /\ \A t \in Server : t # h.server => waitApplyCh'[t] = waitApplyCh[t]
    BY <1>1, <1>5 DEF CommitInv, QueuesInv
  <1>7. \A i \in DOMAIN q : q[i] # << >> => i \in DOMAIN old /\ old[i] # << >>
    BY <1>4
  <1>8. NothingQueued(h.server)
    BY <1>3, <1>6, <1>7 DEF NothingQueued
  <1>9. \A t \in Server : NothingQueued(t)
    BY <1>6, <1>8 DEF NothingQueued
  <1>10. PICK new : new = [h EXCEPT !.pc = "wait"]
    OBVIOUS
  <1>11. new.pc = "wait" /\ new.server = h.server /\ new.freed = None
    BY <1>1, <1>2, <1>10 DEF HandlerType, HandlerInv
  <1>12. Step(h, new)
    BY <1>10 DEF Register
  <1>13. QED
    BY <1>2, <1>9, <1>11, <1>12, GoOnRecent

LEMMA TimeOutRecent ==
    ASSUME CommitInv, RecentInv, NEW h \in handler, TimeOut(h)
    PROVE  RecentInv'
  <1>1. h \in HandlerType
    BY HandlerOf
  <1>2. UNCHANGED <<log, m_requestId, floor, nodeVars, snapshotFile, applyChan, storeVars, loop,
                    waitApplyCh>>
    BY DEF TimeOut, raftVars, clerkVars
  <1>3. PICK new : new = [h EXCEPT !.pc = "timedout"]
    OBVIOUS
  <1>4. new.pc = "timedout" /\ new.server = h.server
    BY <1>1, <1>3 DEF HandlerType
  <1>5. Step(h, new) /\ \A t \in Server : NothingQueued(t)
    BY <1>2, <1>3 DEF TimeOut, NothingQueued
  <1>6. QED
    BY <1>2, <1>4, <1>5, GoOnRecent

LEMMA PoppedRecent ==
    ASSUME CommitInv, RecentInv, NEW h \in handler, Step(h, [h EXCEPT !.pc = "popped"]),
           UNCHANGED <<log, m_requestId, floor, nodeVars, snapshotFile, applyChan, storeVars, loop>>,
           \A t \in Server : NothingQueued(t),
           Executed(h.server, h.index)
    PROVE  RecentInv'
  <1>1. h \in HandlerType
    BY HandlerOf
  <1>2. PICK new : new = [h EXCEPT !.pc = "popped"]
    OBVIOUS
  <1>3. new.pc = "popped" /\ new.server = h.server /\ new.index = h.index /\ h.index \in Nat
    BY <1>1, <1>2 DEF HandlerType
  <1>4. Step(h, new)
    BY <1>2
  <1>5. QED
    BY <1>3, <1>4, GoOnRecent

LEMMA PopRecent ==
    ASSUME CommitInv, RecentInv, NEW h \in handler, Pop(h)
    PROVE  RecentInv'
  <1>1. HandlerInv(h) /\ h.server \in Server
    BY HandlerOf
  <1>2. PICK queues : queues = waitApplyCh[h.server]
    OBVIOUS
  <1>3. PICK queue : queue = queues[h.index]
    OBVIOUS
  <1>4. /\ h.pc = "wait" /\ h.freed = None /\ queue # << >>
        /\ UNCHANGED <<raftVars, nodeVars, snapshotFile, applyChan, storeVars, loop, clerkVars>>
    BY <1>2, <1>3 DEF Pop
  <1>5. h.index \in DOMAIN queues
    BY <1>1, <1>2, <1>4 DEF HandlerInv
  <1>6. CASE IsGet(h.op) /\ Head(queue) = h.op
    <2>1. /\ Step(h, [h EXCEPT !.pc = "popped"])
          /\ waitApplyCh' = [waitApplyCh EXCEPT ![h.server][h.index] = Tail(@)]
      BY <1>2, <1>3, <1>6 DEF Pop
    <2>2. PICK new : new = [queues EXCEPT ![h.index] = Tail(queue)]
      OBVIOUS
    <2>3. waitApplyCh' = [waitApplyCh EXCEPT ![h.server] = new]
      BY <1>2, <1>3, <2>1, <2>2
    <2>4. waitApplyCh'[h.server] = new
          /\ \A t \in Server : t # h.server => waitApplyCh'[t] = waitApplyCh[t]
      BY <1>1, <2>3 DEF CommitInv, QueuesInv
    <2>5. \A i \in DOMAIN new : i \in DOMAIN queues /\ (i # h.index => new[i] = queues[i])
      BY <2>2
    <2>6. NothingQueued(h.server)
      BY <1>2, <1>3, <1>4, <2>4, <2>5 DEF NothingQueued
    <2>7. \A t \in Server : NothingQueued(t)
      BY <2>4, <2>6 DEF NothingQueued
    <2>8. Executed(h.server, h.index)
      BY <1>1, <1>2, <1>3, <1>4, <1>5, RecentOf DEF ExecutedAt
    <2>9. UNCHANGED <<log, m_requestId, floor>>
      BY <1>4 DEF raftVars, clerkVars
    <2>10. QED
      BY <1>4, <2>1, <2>7, <2>8, <2>9, PoppedRecent
  <1>7. CASE ~(IsGet(h.op) /\ Head(queue) = h.op)
    <2>1. PICK err : err = IF Head(queue) = h.op THEN "OK" ELSE "ErrWrongLeader"
      OBVIOUS
    <2>2. Finish(h, err)
      BY <1>2, <1>3, <1>7, <2>1 DEF Pop
    <2>3. ~IsGet(h.op) \/ err = "ErrWrongLeader"
      BY <1>7, <2>1
    <2>4. QED
      BY <1>4, <2>2, <2>3, EndRecent
  <1>8. QED
    BY <1>6, <1>7

LEMMA PopFreedRecent ==
    ASSUME CommitInv, RecentInv, NEW h \in handler, PopFreed(h)
    PROVE  RecentInv'
  <1>1. HandlerRecent(h) /\ h.server \in Server
    BY HandlerOf DEF RecentInv
  <1>2. /\ h.pc = "wait" /\ h.freed # None
        /\ UNCHANGED <<raftVars, nodeVars, snapshotFile, applyChan, storeVars, loop, clerkVars>>
    BY DEF PopFreed
  <1>3. PICK own \in {FALSE, h.freed # None /\ h.op \in Range(h.freed)} :
          IF own /\ IsGet(h.op)
          THEN Step(h, [h EXCEPT !.pc = "popped"]) /\ UNCHANGED waitApplyCh
          ELSE Finish(h, IF own THEN "OK" ELSE "ErrWrongLeader")
    BY Zenon DEF PopFreed
  <1>4. CASE own /\ IsGet(h.op)
    <2>1. Step(h, [h EXCEPT !.pc = "popped"]) /\ UNCHANGED waitApplyCh
      BY <1>3, <1>4
    <2>2. h.freed # << >>
      <3>1. h.op \in Range(h.freed)
        BY <1>3, <1>4
      <3>2. DOMAIN << >> = {}
        OBVIOUS
      <3>3. Range(<< >>) = {}
        BY <3>2 DEF Range
      <3>4. QED
        BY <3>1, <3>3
    <2>3. Executed(h.server, h.index)
      BY <1>1, <1>2, <2>2 DEF HandlerRecent
    <2>4. \A t \in Server : NothingQueued(t)
      BY <2>1 DEF NothingQueued
    <2>5. UNCHANGED <<log, m_requestId, floor>>
      BY <1>2 DEF raftVars, clerkVars
    <2>6. QED
      BY <1>2, <2>1, <2>3, <2>4, <2>5, PoppedRecent
  <1>5. CASE ~(own /\ IsGet(h.op))
    <2>1. PICK err : err = IF own THEN "OK" ELSE "ErrWrongLeader"
      OBVIOUS
    <2>2. Finish(h, err)
      BY <1>3, <1>5, <2>1, Zenon
    <2>3. ~IsGet(h.op) \/ err = "ErrWrongLeader"
      BY <1>5, <2>1
    <2>4. QED
      BY <1>2, <2>2, <2>3, EndRecent
  <1>6. QED
    BY <1>4, <1>5

LEMMA HandlerStepRecent ==
    ASSUME CommitInv, RecentInv, HandlerStep
    PROVE  RecentInv'
  <1>1. PICK h \in handler : \/ Start(h) \/ Register(h) \/ Pop(h) \/ PopFreed(h)
                             \/ TimeOut(h) \/ Get(h) \/ AfterTimeOut(h)
    BY DEF HandlerStep
  <1>2. QED
    BY <1>1, StartRecent, RegisterRecent, PopRecent, PopFreedRecent, TimeOutRecent, GetRecent,
       AfterTimeOutRecent

LEMMA LoopStepRecent ==
    ASSUME CommitInv, RecentInv, LoopStep
    PROVE  RecentInv'
  BY ReadLoopRecent, MakeSnapShotRecent, PersistSnapshotIndexRecent, SendMessageRecent
     DEF LoopStep

----------------------------------------------------------------------------
\* The clerks.

LEMMA NewRpcRecent ==
    ASSUME NEW c, NEW id, NEW n, NEW s
    PROVE  HandlerRecent(Rpc(c, id, n, s))'
  <1>1. PICK new : new = Rpc(c, id, n, s)
    OBVIOUS
  <1>2. new.pc = "called"
    BY <1>1 DEF Rpc
  <1>3. HandlerRecent(new)'
    BY <1>2 DEF HandlerRecent
  <1>4. QED
    BY <1>1, <1>3

\* A clerk's new call may have a later floor than the handlers of its earlier ones, none of which
\* has an answer that the clerk would take.
LEMMA CallRecent ==
    ASSUME CommitInv, RecentInv, NEW c \in Clerk, Call(c)
    PROVE  RecentInv'
  <1>1. PICK f, n, id, s : /\ f = Max({FirstIndex(o) : o \in acked} \cup {0})
                           /\ n = Fresh(c, handler) /\ id = m_requestId[c] + 1
                           /\ s = m_recentLeaderId[c]
    OBVIOUS
  <1>2. /\ ~call[c].waiting /\ floor' = [floor EXCEPT ![c] = f]
        /\ handler' = handler \cup {Rpc(c, id, n, s)} /\ log' = log
        /\ UNCHANGED <<nodeVars, snapshotFile, applyChan, storeVars, waitApplyCh, loop>>
    BY <1>1 DEF Call, raftVars
  <1>3. LogInOrder' /\ FloorInLog'
    BY OrderCall
  <1>4. \A t \in Server : RecentAt(t)' /\ ExecutedKept(t)
    BY <1>2, ServersKept
  <1>5. ASSUME NEW h \in handler PROVE HandlerRecent(h)'
    <2>1. h.server \in Server /\ h.op[1] \in Clerk /\ floor \in [Clerk -> Nat]
      BY HandlerOf, OperationFact DEF CommitInv, ClerkInv, ClerkTypes
    <2>2. CASE h.op[1] # c
      <3>1. floor'[h.op[1]] = floor[h.op[1]]
        BY <1>2, <2>1, <2>2
      <3>2. QED
        BY <1>4, <2>1, <3>1, HandlerRecentKept
    <2>3. CASE h.op[1] = c
      <3>1. h.pc # "done"
        BY <1>2, <2>3, DoneIsCurrent
      <3>2. HandlerRecent(h) /\ h.index \in Nat
        BY HandlerOf DEF RecentInv, HandlerType
      <3>3. Executed(h.server, h.index) => Executed(h.server, h.index)'
        BY <1>4, <2>1, <3>2 DEF ExecutedKept
      <3>4. QED
        BY <3>1, <3>2, <3>3 DEF HandlerRecent
    <2>4. QED
      BY <2>2, <2>3
  <1>6. \A h \in handler' : HandlerRecent(h)'
    BY <1>2, <1>5, NewRpcRecent
  <1>7. QED
    BY <1>3, <1>4, <1>6 DEF RecentInv

\* An answer or a failure: some handlers go, and perhaps one more is called.
LEMMA AnsweredRecent ==
    ASSUME CommitInv, RecentInv, NEW c \in Clerk, NEW gone,
           Retry(c, gone) \/ \E h \in handler : Return(c, h),
           UNCHANGED <<raftVars, nodeVars, snapshotFile, applyChan, storeVars, waitApplyCh, loop>>
    PROVE  RecentInv'
  <1>1. PICK new : new = Rpc(c, m_requestId[c], Fresh(c, handler \ gone),
                             (server[c] + 1) % NumServers)
    OBVIOUS
  <1>2. UNCHANGED <<log, m_requestId, floor>> /\ handler' \subseteq handler \cup {new}
    BY <1>1 DEF Retry, Return, raftVars
  <1>3. \A t \in Server : RecentAt(t)' /\ ExecutedKept(t)
    BY <1>2, ServersKept
  <1>4. HandlerRecent(new)'
    <2>1. new.pc = "called"
      BY <1>1 DEF Rpc
    <2>2. QED
      BY <2>1 DEF HandlerRecent
  <1>5. QED
    BY <1>2, <1>3, <1>4, HandlersStep

LEMMA ClerkStepRecent ==
    ASSUME CommitInv, RecentInv, ClerkStep
    PROVE  RecentInv'
  <1>1. PICK c \in Clerk : Call(c) \/ Answer(c) \/ RpcFails(c)
    BY DEF ClerkStep
  <1>2. ASSUME ~Call(c) PROVE RecentInv'
    <2>1. UNCHANGED <<raftVars, nodeVars, snapshotFile, applyChan, storeVars, waitApplyCh, loop>>
      BY <1>1, <1>2 DEF Answer, RpcFails
    <2>2. \E gone : Retry(c, gone) \/ \E h \in handler : Return(c, h)
      <3>1. Answer(c) => \E h \in Current(c) : Retry(c, {h}) \/ Return(c, h)
        BY Zenon DEF Answer
      <3>2. RpcFails(c) => Retry(c, {h \in Current(c) : h.pc = "done"})
        BY Zenon DEF RpcFails
      <3>3. Current(c) \subseteq handler
        BY DEF Current
      <3>4. QED
        BY <1>1, <1>2, <3>1, <3>2, <3>3
    <2>3. QED
      BY <2>1, <2>2, AnsweredRecent
  <1>3. QED
    BY <1>1, <1>2, CallRecent

----------------------------------------------------------------------------
\* What is proved of the answers to Gets.

LEMMA InitRecent == Init => RecentInv
  <1> SUFFICES ASSUME Init PROVE RecentInv
    OBVIOUS
  <1>1. Range(<< >>) = {} /\ DOMAIN << >> = {} /\ Len(<< >>) = 0
    BY DEF Range
  <1>2. LogInOrder /\ FloorInLog
    BY <1>1 DEF Init, LogInOrder, FloorInLog
  <1>3. ASSUME NEW s \in Server PROVE RecentAt(s)
    <2>1. /\ hand[s] = << >> /\ applyChan[s] = << >> /\ loop[s] = None /\ waitApplyCh[s] = << >>
          /\ m_last_RequestId[s] = [c \in Clerk |-> 0]
          /\ snapshotFile[s] = None /\ m_lastSnapshotIndex[s] = 0
      BY DEF Init
    <2>2. CoveredBy(m_last_RequestId[s], reflected[s])
      BY <2>1 DEF CoveredBy
    <2>3. ~HasSnapshot(s)
      BY <2>1 DEF HasSnapshot
    <2>4. StoreAt(s)
      BY <1>1, <2>1, <2>2, <2>3 DEF StoreAt
    <2>5. ChannelAt(s) /\ ExecutedAt(s)
      BY <1>1, <2>1 DEF ChannelAt, ExecutedAt
    <2>6. QED
      BY <2>4, <2>5 DEF RecentAt
  <1>4. QED
    BY <1>2, <1>3 DEF Init, RecentInv

LEMMA StutterRecent == CommitInv /\ RecentInv /\ UNCHANGED vars => RecentInv'
  <1> SUFFICES ASSUME CommitInv, RecentInv, UNCHANGED vars PROVE RecentInv'
    OBVIOUS
  <1>1. UNCHANGED <<nodeVars, snapshotFile, applyChan, storeVars, waitApplyCh, loop, handler, log,
                    m_requestId, floor>>
    BY DEF vars, raftVars, clerkVars
  <1>2. \A t \in Server : RecentAt(t)' /\ ExecutedKept(t)
    BY <1>1, ServersKept
  <1>3. QED
    BY <1>1, <1>2, HandlersStep

\* While InstallSnapshot brings no old snapshot, a store never loses what its handlers' operations
\* wait for: the log is in the order of the clerks' calls, a request table covers a part of the log
\* that the store reflects, and what is in a queue of waitApplyCh has been executed
\* (GetCommandFromRaft, GetSnapShotFromRaft, IfNeedToSendSnapShotCommand, ifRequestDuplicate).
THEOREM RecentInvariant == ASSUME ~OldInstall PROVE Spec => []RecentInv
  <1>1. Init => RecentInv
    BY InitRecent
  <1>2. CommitInv /\ RecentInv /\ [Next]_vars => RecentInv'
    BY StutterRecent, ClerkStepRecent, HandlerStepRecent, LoopStepRecent, RaftStepRecent DEF Next
  <1>3. QED
    BY <1>1, <1>2, CommitInvariant, PTL DEF Spec

\* While InstallSnapshot brings no old snapshot, a Get is answered from a store that reflects every
\* operation that had returned to any clerk before the Get began (KvServer::Get, with the queues
\* freed by other handlers, its timeout, the request table and restarts).
THEOREM ReadsAreRecentHolds == ASSUME ~OldInstall PROVE Spec => []ReadsAreRecent
  <1>1. RecentInv => ReadsAreRecent
    BY DEF RecentInv, HandlerRecent, ReadsAreRecent
  <1>2. QED
    BY <1>1, RecentInvariant, PTL
=============================================================================
