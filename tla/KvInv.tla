------------------------------- MODULE KvInv -------------------------------
(***************************************************************************)
(* The inductive invariants behind the answers of KvServer.  CommitInv     *)
(* says what has passed through the log and which handler a clerk waits    *)
(* for, RecentInv how much of the log a store reflects.                    *)
(***************************************************************************)
EXTENDS KvServer

Passed(o)     == \E i \in DOMAIN log : log[i] = o
IsEntry(o, i) == i \in DOMAIN log /\ log[i] = o

\* The clerk has called for the operation.
Asked(o) == o[2] <= m_requestId[o[1]]

IsSeq(q) == q \in Seq(Range(q))

----------------------------------------------------------------------------
\* What has passed through the log.

ClerkTypes ==
    /\ m_requestId \in [Clerk -> Nat]
    /\ \A c \in Clerk : m_requestId[c] <= Len(Script[c]) /\ (call[c].waiting => m_requestId[c] > 0)
    /\ call \in [Clerk -> [n : Nat, waiting : BOOLEAN]]
    /\ server \in [Clerk -> Server]
    /\ m_recentLeaderId \in [Clerk -> Server]
    /\ floor \in [Clerk -> Nat]
    /\ acked \subseteq Operation

\* A clerk's earlier requests have returned.
EarlierAcked ==
    \A c \in Clerk : \A r \in 1..m_requestId[c] :
        r < m_requestId[c] \/ ~call[c].waiting => <<c, r>> \in acked

ClerkInv == ClerkTypes /\ EarlierAcked /\ AckedIsCommitted

LogInv ==
    /\ log \in Seq(Operation) /\ pending \in Seq(Operation)
    /\ \A o \in Range(log) \cup Range(pending) : Asked(o)

\* A table of request ids covers only operations of the log.
TableInv(last) ==
    /\ last \in [Clerk -> Nat]
    /\ \A c \in Clerk : \A r \in 1..last[c] : Passed(<<c, r>>)

SnapshotInv(snapshot) == TableInv(snapshot.last) /\ snapshot.at \in Nat

EntryInv(m) == m \in [op : Operation, index : Nat] /\ IsEntry(m.op, m.index)

\* The messages on their way to the service and the one in its loop.
LoopInv(m) ==
    /\ m \in [op : Operation, index : Nat, pc : {"executed", "saved", "persisted"}]
    /\ IsEntry(m.op, m.index)

DeliveryTypes ==
    /\ leader \in Server \cup {None}
    /\ lastApplied \in [Server -> Nat]
    /\ m_lastSnapshotIndex \in [Server -> Nat]
    /\ m_lastSnapShotRaftLogIndex \in [Server -> Nat]
    /\ reflected \in [Server -> Nat]
    /\ DOMAIN hand = Server /\ DOMAIN applyChan = Server /\ DOMAIN loop = Server
    /\ DOMAIN snapshotFile = Server /\ DOMAIN m_last_RequestId = Server

\* Server s has a snapshot file: as it is there, as its index is stored or about to be.
HasSnapshot(s) ==
    \/ snapshotFile[s] # None
    \/ m_lastSnapshotIndex[s] > 0
    \/ loop[s] # None /\ loop[s].pc = "saved"

DeliveryAt(s) ==
    /\ IsSeq(hand[s]) /\ \A m \in Range(hand[s]) : EntryInv(m)
    /\ IsSeq(applyChan[s])
    /\ \A m \in Range(applyChan[s]) :
           IF m.op = None THEN SnapshotInv(m.snapshot) /\ m.index \in Nat ELSE EntryInv(m)
    /\ loop[s] # None => LoopInv(loop[s])
    /\ TableInv(m_last_RequestId[s])
    /\ HasSnapshot(s) => SnapshotInv(snapshotFile[s])

DeliveryInv == DeliveryTypes /\ \A s \in Server : DeliveryAt(s)

\* A queue has the operation of its index.
QueueInv(i, q) == q \in Seq(Operation) /\ \A o \in Range(q) : IsEntry(o, i)

QueuesInv ==
    /\ DOMAIN waitApplyCh = Server
    /\ \A s \in Server : \A i \in DOMAIN waitApplyCh[s] : QueueInv(i, waitApplyCh[s][i])

HandlerType ==
    [op : Operation, call : Nat, server : Server,
     pc : {"called", "started", "wait", "popped", "timedout", "done"}, index : Nat,
     freed : Seq(Operation) \cup {None}, err : {None, "OK", "ErrNoKey", "ErrWrongLeader"}, at : Nat]

\* What a handler knows of its operation.
HandlerInv(h) ==
    /\ h \in HandlerType
    /\ Asked(h.op)
    /\ h.freed # None => h.pc \notin {"called", "started"} /\ QueueInv(h.index, h.freed)
    /\ h.pc = "wait" /\ h.freed = None => h.index \in DOMAIN waitApplyCh[h.server]
    /\ h.pc = "popped" => IsEntry(h.op, h.index)
    /\ h.pc = "done" => h.err = "ErrWrongLeader" \/ Passed(h.op)

\* The number of a call tells the handler of a clerk's current request; only that one's answer is
\* kept.
CallsDiffer ==
    \A h, k \in handler : h.op[1] = k.op[1] /\ h.call = k.call => h = k

CallIsCurrent(h) ==
    /\ ~Abandoned(h) => h.op[2] = m_requestId[h.op[1]]
    /\ h.pc = "done" => ~Abandoned(h)

HandlersInv ==
    /\ IsFiniteSet(handler)
    /\ \A h \in handler : HandlerInv(h) /\ CallIsCurrent(h)
    /\ CallsDiffer

CommitInv == ClerkInv /\ LogInv /\ DeliveryInv /\ QueuesInv /\ HandlersInv

----------------------------------------------------------------------------
\* How much of the log a store reflects.

\* An operation comes after the first entry of every earlier request of its clerk, and after what
\* had returned when it was called.
LogInOrder ==
    \A i \in DOMAIN log :
        /\ \A r \in 1..(log[i][2] - 1) : \E j \in DOMAIN log : j < i /\ log[j] = <<log[i][1], r>>
        /\ log[i][2] = m_requestId[log[i][1]] => i > floor[log[i][1]]

FloorInLog == \A c \in Clerk : floor[c] <= Len(log)

\* A table of request ids covers only what the first n entries of the log hold.
CoveredBy(last, n) ==
    \A c \in Clerk : \A r \in 1..last[c] : \E i \in DOMAIN log : i <= n /\ log[i] = <<c, r>>

\* A snapshot stored with an index reflects the log up to there at least.
CoveredFrom(snapshot, index) ==
    CoveredBy(snapshot.last, snapshot.at) /\ index <= snapshot.at

StoreAt(s) ==
    /\ CoveredBy(m_last_RequestId[s], reflected[s])
    /\ HasSnapshot(s) => CoveredFrom(snapshotFile[s], m_lastSnapshotIndex[s])
    /\ \A m \in Range(applyChan[s]) : m.op = None => CoveredFrom(m.snapshot, m.index)

\* A snapshot on its way is newer than anything before it.
ChannelAt(s) ==
    /\ \A m \in Range(hand[s]) \cup Range(applyChan[s]) : m.index <= lastApplied[s]
    /\ \A a, b \in DOMAIN applyChan[s] :
           a < b /\ applyChan[s][b].op = None => applyChan[s][a].index < applyChan[s][b].index

\* The store of s reflects entry i, and no snapshot on its way takes that back.
Executed(s, i) ==
    /\ i <= reflected[s] /\ i <= lastApplied[s]
    /\ \A m \in Range(applyChan[s]) : m.op = None => i < m.index

\* What the loop gives to a queue has been executed.
ExecutedAt(s) ==
    /\ loop[s] # None =>
           /\ Executed(s, loop[s].index)
           /\ loop[s].pc = "saved" => loop[s].index <= snapshotFile[s].at
    /\ \A i \in DOMAIN waitApplyCh[s] : waitApplyCh[s][i] # << >> => Executed(s, i)

RecentAt(s) == StoreAt(s) /\ ChannelAt(s) /\ ExecutedAt(s)

\* A handler has the operation of an executed entry; a Get's answer is as recent as its call.
HandlerRecent(h) ==
    /\ h.pc = "popped" \/ (h.pc = "wait" /\ h.freed # None /\ h.freed # << >>)
           => Executed(h.server, h.index)
    /\ h.pc = "done" /\ IsGet(h.op) /\ h.err # "ErrWrongLeader" => h.at >= floor[h.op[1]]

RecentInv ==
    /\ LogInOrder /\ FloorInLog
    /\ \A s \in Server : RecentAt(s)
    /\ \A h \in handler : HandlerRecent(h)
=============================================================================
