---------------------------- MODULE PersisterInv ----------------------------
(***************************************************************************)
(* Inductive invariants of Persister: WalInv says that the segment files,  *)
(* in the order of replay, are what was written, and AckedInv where the    *)
(* entries of raft's log are.                                              *)
(***************************************************************************)
EXTENDS Persister

\* No entry is written below the first index of its segment.  Indexes do go back, after a failed batch;
\* here they do so within the open segment.
WithinSegment ==
    \A f \in DOMAIN files : \A k \in DOMAIN files[f] : files[f][k].index >= f.first

\* What the process has to survive is none of Fault.
NoFaults == Faults = {}

\* A failed write forgets no batch that another failed write could leave in raft's log.
NoForgotten == MaxFailures <= 1 \/ kSyncBatchCount = 1

----------------------------------------------------------------------------
\* Types.

Entry   == [index : Nat, id : Nat]
Segment == [first : Nat \ {0}, last : Int, inprogress : BOOLEAN]

\* One of the first n requests: it brings at least one entry, and its entries follow one another and bear
\* its number.
Request(n) ==
    {r \in [kind : {"wait", "async"}, logs : Seq(Entry)] :
        /\ Len(r.logs) >= 1
        /\ r.logs[1].id \in 1 .. n
        /\ \A k \in 1 .. Len(r.logs) : /\ r.logs[k].index = r.logs[1].index + k - 1
                                       /\ r.logs[k].id = r.logs[1].id}

TypeInv ==
    /\ m_queue_log \in Seq(Request(requests)) /\ batches \in Seq(Request(requests))
    /\ waiters \in Seq(Request(requests)) /\ callbacks \in Seq(Request(requests))
    /\ walPc \in {"pop", "write", "sync", "full", "rename", "open", "notify"}
    /\ sync_ok \in BOOLEAN
    /\ log_fd \in Segment \cup {NoFile} /\ offset \in Nat /\ m_segmentLastIndex \in Int
    /\ m_segmentEntryCount \in Nat
    /\ raftPc \in {"idle", "compact", "rewrite"}
    /\ snapshot_index \in Nat
    /\ m_logs \in Seq(Entry) /\ requests \in Nat
    /\ failures \in Nat
    /\ outcome \in Seq({"none", "stable", "failed"}) /\ Len(outcome) = requests
    /\ written \in Seq(Entry)
    /\ \A k \in 1 .. Len(m_logs) : m_logs[k].id \in 1 .. requests
    /\ \A k \in 1 .. Len(written) : written[k].id \in 1 .. requests

----------------------------------------------------------------------------
\* The threads.

\* The WAL thread has Persister's mutex from the end of a write to the last callback, the thread of raft
\* has raft's mutex throughout, and Persister's while it rewrites the log.
MutexesHeld ==
    /\ m_mtx = IF walPc \in {"sync", "full", "rename", "open", "notify"} THEN "wal"
               ELSE IF raftPc = "rewrite" THEN "raft" ELSE Free
    /\ raftPc = "rewrite" => walPc \in {"pop", "write"}
    /\ raft_mtx = IF raftPc = "idle" THEN Free ELSE "raft"

----------------------------------------------------------------------------
\* The segment files.

\* The files are listed by first index; names is the list.
Listed(names, fs) ==
    /\ names \in Seq(Segment)
    /\ DOMAIN fs = {names[k] : k \in 1 .. Len(names)}
    /\ \A i, j \in 1 .. Len(names) : i < j => names[i].first < names[j].first

\* Every file but the open one is closed, bears the index of its last entry and is on the disk; the open
\* one comes last.  Between the removal and the rewrite there is no file.
FilesInv ==
    LET names == ListSegments(files)
        n     == Len(names)
    IN  /\ Listed(names, files)
        /\ files \in [DOMAIN files -> Seq(Entry)] /\ synced \in [DOMAIN files -> Nat]
        /\ raftPc = "rewrite" <=> names = <<>>
        /\ log_fd = NoFile <=> (walPc = "open" \/ raftPc = "rewrite")
        /\ log_fd # NoFile => n >= 1 /\ log_fd = names[n] /\ log_fd.inprogress
        /\ \A k \in 1 .. n : names[k] # log_fd => /\ ~names[k].inprogress
                                                  /\ names[k].first <= names[k].last
                                                  /\ synced[names[k]] = Len(files[names[k]])
        /\ walPc = "open" => names[n].last = m_segmentLastIndex

\* What was written is in the files, in this order; during the rewrite, in memory.
ContentsInv ==
    /\ raftPc # "rewrite" => WalContents(files) = written
    /\ raftPc = "rewrite" => compacted = ReadPersistedLogs(written, snapshot_index)

\* The counters of the open segment fit the file, and it is written where it ends, except after a restart.
OpenInv ==
    /\ CountersFitSegment
    /\ log_fd # NoFile => synced[log_fd] <= Len(files[log_fd]) /\ offset <= Len(files[log_fd])
    /\ walPc \in {"full", "rename"} => files[log_fd] # <<>>
    /\ walPc = "rename" => synced[log_fd] = Len(files[log_fd])

WalInv == TypeInv /\ MutexesHeld /\ FilesInv /\ ContentsInv /\ OpenInv

----------------------------------------------------------------------------
\* The entries of raft's log.

\* The entries that are still to be written.
Queue  == batches \o m_queue_log
Queued == Logs(Queue)
All    == written \o Queued

\* The entry e is among the first n of w, and none behind it takes its place, or the place of one before
\* it, when w is replayed above snapshot s.
Holds(e, w, n, s) ==
    \E p \in 1 .. n : /\ p <= Len(w)
                      /\ w[p] = e
                      /\ \A q \in p + 1 .. Len(w) : w[q].index \notin s + 1 .. e.index

\* How many of the written entries a crash of the machine leaves.
Durable == Len(written) - IF log_fd = NoFile THEN 0 ELSE Len(files[log_fd]) - synced[log_fd]

\* Whoever is told how a request went, when the WAL thread gets there.
Collected == ToSet(waiters) \cup ToSet(callbacks)

\* An entry that a failed write has dropped: a request that is going to be told of it will cut it off.
Lost(e) == /\ walPc = "notify" /\ ~sync_ok
           /\ \E r \in Collected : r.logs[1].index <= e.index

\* The entries of raft's log follow the snapshot, and each is written or going to be, unless it is lost.
LogHeld ==
    /\ \A k \in 1 .. Len(m_logs) : m_logs[k].index = snapshot_index + k
    /\ \A k \in 1 .. Len(m_logs) : Holds(m_logs[k], All, Len(All), snapshot_index) \/ Lost(m_logs[k])

\* What was reported stable is on the disk, and so is all that comes before it in raft's log.
StableHeld ==
    \A k \in 1 .. Len(m_logs), j \in 1 .. Len(m_logs) :
        outcome[m_logs[k].id] = "stable" /\ j <= k => Holds(m_logs[j], All, Durable, snapshot_index)

\* What will be reported stable is written, and so is all that comes before it; when it is about to be
\* reported, it is on the disk.
CollectedHeld ==
    /\ walPc # "notify" \/ sync_ok =>
          \A r \in Collected, k \in 1 .. Len(m_logs), j \in 1 .. Len(m_logs) :
              m_logs[k].id = r.logs[1].id /\ j <= k => Holds(m_logs[j], All, Len(written), snapshot_index)
    /\ walPc \in {"rename", "open"} \/ (walPc = "notify" /\ sync_ok) => Durable = Len(written)

\* Requests wait in the order in which they were made.  Until a write fails, so do their indexes, which
\* the log goes on behind.
QueueInOrder ==
    /\ \A i, j \in 1 .. Len(Queue) : i < j => Queue[i].logs[1].id < Queue[j].logs[1].id
    /\ walPc # "write" => batches = <<>>
    /\ Len(batches) <= 1
    /\ ~sync_ok => failures > 0
    /\ failures <= MaxFailures
    /\ failures = 0 =>
          /\ \A i, j \in 1 .. Len(Queue) : i < j => Queue[i].logs[1].index < Queue[j].logs[1].index
          /\ \A i \in 1 .. Len(Queue) : Queue[i].logs[1].index <= snapshot_index + Len(m_logs)

AckedInv == WalInv /\ LogHeld /\ StableHeld /\ CollectedHeld /\ QueueInOrder
=============================================================================
