------------------------------ MODULE KvLogInv ------------------------------
(***************************************************************************)
(* The inductive invariant behind ReplicaIsLog: what a store, a snapshot   *)
(* and the messages on their way to a store have to do with the log.       *)
(***************************************************************************)
EXTENDS KvInv, SkipListInv

\* The keys that the first n entries of a log write.
WrittenBy(l, n) == UNION {DOMAIN WriteOf(l[i]) : i \in 1..n}

\* The keys of a store that reflects the first n entries: what they write, and nothing that no entry writes.
HasKeys(l, K, n) == n <= Len(l) /\ WrittenBy(l, n) \subseteq K /\ K \subseteq WrittenBy(l, Len(l))

\* A table of request ids covers every write among the first n entries.
CoversAll(l, last, n) ==
    \A i \in DOMAIN l : i <= n /\ ~IsGet(l[i]) => l[i][2] <= last[l[i][1]]

\* A store, by its list and its table, and how much of the log it reflects.
StoreHolds(l, sl, last, n) ==
    /\ ListOK(sl)
    /\ \A k \in DOMAIN sl.value : sl.value[k] \in Value \cup Key
    /\ HasKeys(l, DOMAIN sl.value, n)
    /\ CoversAll(l, last, n)

SnapshotHolds(l, snapshot) ==
    /\ snapshot \in Snapshot
    /\ HasKeys(l, Range(snapshot.dump.keyDumpVt_), snapshot.at)
    /\ CoversAll(l, snapshot.last, snapshot.at)

SnapshotsAt(s) ==
    /\ HasSnapshot(s) => SnapshotHolds(log, snapshotFile[s])
    /\ \A m \in Range(applyChan[s]) : m.op = None => SnapshotHolds(log, m.snapshot)

\* The messages on their way to the store of s, in the order in which it gets them.
Coming(s) == applyChan[s] \o hand[s]

\* Before the store gets message a of q, it reflects entry i: it gets there with the messages before
\* or is there already, and no snapshot is in between.
Ready(n, q, a, i) ==
    \/ \E b \in 1..(a - 1) : q[b].index >= i
    \/ i <= n /\ \A b \in 1..(a - 1) : q[b].op # None

\* No entry is missed on the way, and none after those on their way.
NoGap(n, q, applied) ==
    /\ \A a \in 1..Len(q) : q[a].op # None => Ready(n, q, a, q[a].index - 1)
    /\ Ready(n, q, Len(q) + 1, applied)

ReplicaAt(s) ==
    /\ StoreHolds(log, m_skipList[s], m_last_RequestId[s], reflected[s])
    /\ m_lastSnapShotRaftLogIndex[s] <= reflected[s]
    /\ SnapshotsAt(s)
    /\ NoGap(reflected[s], Coming(s), lastApplied[s])

ReplicaInv == DOMAIN m_skipList = Server /\ \A s \in Server : ReplicaAt(s)
=============================================================================
