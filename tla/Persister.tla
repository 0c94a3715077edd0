------------------------------ MODULE Persister ------------------------------
(***************************************************************************)
(* The write-ahead log of one node (src/src/persist/Persister.cc): the     *)
(* queue of batches, the WAL thread that writes and syncs them and tells   *)
(* whoever waits, the segment files, and the compaction that a thread of   *)
(* raft runs inside persistState.  Module Raft uses all of this as one     *)
(* sequence of written entries; SegmentsAreTheLog says that it may.        *)
(*                                                                         *)
(* Persister::m_mtx is held by the WAL thread from the write of a batch to *)
(* the last callback, and by CompactWal; raft::m_mtx by a thread of raft   *)
(* around persistState and by the callback onLogStable.  A step ends where *)
(* another thread, or the death of the process, can make a difference.     *)
(***************************************************************************)
EXTENDS Integers, Sequences, FiniteSets, FiniteSetsExt, SequencesExt, WalReplay, SeqPick

CONSTANTS
    kSyncBatchCount,        \* batches the WAL thread takes at once; entries after which it syncs
    kMaxSegmentNumEntries,  \* entries after which a segment is closed
    SnapshotAt,             \* the snapshot indexes persistState may store
    MaxRequests,            \* bound: calls of AppendLogAsync and AppendLogAndWaitStable
    MaxBatch,               \* bound: entries of one call
    MaxFailures,            \* bound: writes and syncs of a batch that fail
    MaxCrashes,             \* bound: deaths of the process or the machine
    Faults                  \* faults that an instance explores besides, see Fault

\* A process that dies between the removal of the segments and the end of the rewrite, a rewrite that
\* fails, and a batch that fails right after the segment has been reopened.
Fault == {"crash in rewrite", "rewrite fails", "write fails after reopen"}

ASSUME PersisterAssumption ==
    /\ kSyncBatchCount \in Nat \ {0}
    /\ kMaxSegmentNumEntries \in Nat \ {0}
    /\ SnapshotAt \subseteq Nat
    /\ MaxFailures \in Nat
    /\ Faults \subseteq Fault

VARIABLES
    m_queue_log,     \* batches that wait for the WAL thread
    \* the WAL thread
    walPc, batches, waiters, callbacks, pending_count, sync_ok,
    \* the segment files, and how much of each is on the disk for sure
    files, synced,
    \* the open segment
    log_fd, offset, m_segmentLastIndex, m_segmentEntryCount,
    \* the two mutexes, and the thread of raft that runs persistState
    m_mtx, raft_mtx, raftPc, compacted,
    \* fmp->snapshot_index, and the snapshot the WAL was compacted for
    snapshot_index, m_compactedSnapshotIndex,
    \* raft above: its log, and how many requests it has made
    m_logs, requests,
    failures, crashes,
    \* history, read by no action: what each request was told, and all that was written
    outcome, written

walVars     == <<walPc, batches, waiters, callbacks, pending_count, sync_ok>>
fileVars    == <<files, synced>>
segmentVars == <<log_fd, offset, m_segmentLastIndex, m_segmentEntryCount>>
raftVars    == <<raft_mtx, raftPc, compacted, snapshot_index, m_compactedSnapshotIndex>>
clientVars  == <<m_logs, requests>>
vars == <<m_queue_log, walVars, fileVars, segmentVars, m_mtx, raftVars, clientVars,
          failures, crashes, outcome, written>>

Free   == "free"
NoFile == [first |-> 0, last |-> 0, inprogress |-> FALSE]

----------------------------------------------------------------------------
\* Segment files.

openSegmentName(first) == [first |-> first, last |-> 0, inprogress |-> TRUE]
closedSegmentName(first, last) == [first |-> first, last |-> last, inprogress |-> FALSE]

\* The comparison of the sort.  Faulty: the segment in progress comes first.
FaultyBefore(a, b) ==
    \/ a.inprogress /\ ~b.inprogress
    \/ a.inprogress = b.inprogress /\ a.first < b.first

Before(a, b) ==
    \/ a.first < b.first
    \/ a.first = b.first /\ ~a.inprogress /\ b.inprogress

\* The segments in the order of replay.
ListSegments(fs) ==
    CHOOSE names \in Injection(1 .. Cardinality(DOMAIN fs), DOMAIN fs) :
        \A i, j \in DOMAIN names : i < j => ~Before(names[j], names[i])

WalContents(fs) ==
    LET names == ListSegments(fs) IN FlattenSeq([k \in DOMAIN names |-> fs[names[k]]])

\* O_CREAT: a file that exists is kept.
Touch(fs, name, empty) ==
    [n \in DOMAIN fs \cup {name} |-> IF n \in DOMAIN fs THEN fs[n] ELSE empty]

OpenSegment(fs, sync, first) ==
    /\ files' = Touch(fs, openSegmentName(first), <<>>)
    /\ synced' = Touch(sync, openSegmentName(first), 0)
    /\ log_fd' = openSegmentName(first)
    /\ offset' = 0
    /\ m_segmentLastIndex' = first - 1
    /\ m_segmentEntryCount' = 0

\* The constructor: the last segment goes on where it ends, or a new one is opened behind it.
ReopenLatestSegment(fs, sync) ==
    LET names  == ListSegments(fs)
        latest == names[Len(names)]
    IN  CASE names = <<>>         -> OpenSegment(fs, sync, 1)
          [] ~latest.inprogress   -> OpenSegment(fs, sync, latest.last + 1)
          [] OTHER -> /\ files' = fs
                      /\ synced' = sync
                      /\ log_fd' = latest
                      /\ offset' = 0
                      /\ m_segmentLastIndex' = IF fs[latest] = <<>> THEN latest.first - 1
                                               ELSE Last(fs[latest]).index
                      /\ m_segmentEntryCount' = Len(fs[latest])

----------------------------------------------------------------------------
Init ==
    /\ m_queue_log = <<>>
    /\ walPc = "pop" /\ batches = <<>> /\ waiters = <<>> /\ callbacks = <<>>
    /\ pending_count = 0 /\ sync_ok = TRUE
    /\ files = [n \in {openSegmentName(1)} |-> <<>>]
    /\ synced = [n \in {openSegmentName(1)} |-> 0]
    /\ log_fd = openSegmentName(1) /\ offset = 0
    /\ m_segmentLastIndex = 0 /\ m_segmentEntryCount = 0
    /\ m_mtx = Free /\ raft_mtx = Free /\ raftPc = "idle" /\ compacted = <<>>
    /\ snapshot_index = 0 /\ m_compactedSnapshotIndex = 0
    /\ m_logs = <<>> /\ requests = 0
    /\ failures = 0 /\ crashes = 0
    /\ outcome = <<>>
    /\ written = <<>>

----------------------------------------------------------------------------
\* Callers.  An entry is the index and the request that brought it.

NextIndex == IF m_logs = <<>> THEN snapshot_index + 1 ELSE Last(m_logs).index + 1

\* AppendLogAndWaitStable ("wait") and AppendLogAsync ("async") of n entries that continue the log.
\* Start runs persistState before AppendLogAsync, so nothing is left to compact then; AppendEntries
\* waits for the WAL first.
AppendLog(kind, n) ==
    LET id   == requests + 1
        logs == [k \in 1 .. n |-> [index |-> NextIndex + k - 1, id |-> id]]
    IN  /\ requests < MaxRequests
        /\ raft_mtx = Free
        /\ kind = "async" => m_compactedSnapshotIndex = snapshot_index
        /\ requests' = id
        /\ m_logs' = m_logs \o logs
        /\ m_queue_log' = Append(m_queue_log, [kind |-> kind, logs |-> logs])
        /\ outcome' = Append(outcome, "none")
        /\ UNCHANGED <<walVars, fileVars, segmentVars, m_mtx, raftVars, failures, crashes, written>>

\* What raft does when requests fail: the first of their entries and all behind it leave its log.
\* Faulty: the first stays.
FaultyWithoutFailed(failed) ==
    LET left == {n \in 0 .. Len(m_logs) :
                    \A k \in 1 .. n, r \in failed : m_logs[k].index <= r.logs[1].index}
    IN  SubSeq(m_logs, 1, Max(left))

WithoutFailed(failed) ==
    LET left == {n \in 0 .. Len(m_logs) :
                    \A k \in 1 .. n, r \in failed : m_logs[k].index < r.logs[1].index}
    IN  SubSeq(m_logs, 1, Max(left))

Told(told, ok) ==
    /\ outcome' = [id \in DOMAIN outcome |->
                      IF id \in {r.logs[1].id : r \in told} THEN (IF ok THEN "stable" ELSE "failed") ELSE outcome[id]]
    /\ m_logs' = IF ok THEN m_logs ELSE WithoutFailed(told)

----------------------------------------------------------------------------
\* The WAL thread.

Take(q, n) == SubSeq(q, 1, Min({n, Len(q)}))
Drop(q, n) == SubSeq(q, n + 1, Len(q))

\* timeOutPop, without a mutex: a batch, or nothing while entries wait for a sync.
WalPop ==
    /\ walPc = "pop"
    /\ m_queue_log # <<>> \/ pending_count > 0
    /\ batches' = Take(m_queue_log, 1)
    /\ m_queue_log' = Drop(m_queue_log, 1)
    /\ walPc' = "write"
    /\ UNCHANGED <<waiters, callbacks, pending_count, sync_ok, fileVars, segmentVars, m_mtx,
                   raftVars, clientVars, failures, crashes, outcome, written>>

\* TryPopBulk.
Bulk == batches \o Take(m_queue_log, kSyncBatchCount - 1)
Rest == Drop(m_queue_log, kSyncBatchCount - 1)

\* The entries of requests.
Logs(reqs) == FlattenSeq([k \in DOMAIN reqs |-> reqs[k].logs])

OfKind(reqs, kind) == Pick(reqs, {k \in DOMAIN reqs : reqs[k].kind = kind})

JoinWaiting(reqs) ==
    /\ waiters' = waiters \o OfKind(reqs, "wait")
    /\ callbacks' = callbacks \o OfKind(reqs, "async")

\* All batches are written.  They are synced when the segment is full, when there are enough of
\* them, or when the interval is over, which it may be at any time.
WalWrite ==
    LET logs == Logs(Bulk)
        now  == files[log_fd] \o logs
    IN  /\ walPc = "write" /\ batches # <<>>
        /\ m_mtx = Free
        /\ files' = [files EXCEPT ![log_fd] = now]
        /\ offset' = Len(now)
        /\ m_segmentLastIndex' = Last(logs).index
        /\ m_segmentEntryCount' = m_segmentEntryCount + Len(logs)
        /\ written' = written \o logs
        /\ m_queue_log' = Rest
        /\ batches' = <<>>
        /\ JoinWaiting(Bulk)
        /\ pending_count' = pending_count + Len(logs)
        /\ \/ /\ walPc' = IF m_segmentEntryCount' >= kMaxSegmentNumEntries THEN "full" ELSE "sync"
              /\ m_mtx' = "wal"
           \/ /\ m_segmentEntryCount' < kMaxSegmentNumEntries
              /\ pending_count' < kSyncBatchCount
              /\ walPc' = "pop" /\ UNCHANGED m_mtx
        /\ UNCHANGED <<sync_ok, synced, log_fd, raftVars, clientVars, failures, crashes, outcome>>

\* Nothing came, and the interval is over.
WalTimeout ==
    /\ walPc = "write" /\ batches = <<>>
    /\ m_mtx = Free
    /\ walPc' = "sync" /\ m_mtx' = "wal"
    /\ UNCHANGED <<m_queue_log, batches, waiters, callbacks, pending_count, sync_ok, fileVars,
                   segmentVars, raftVars, clientVars, failures, crashes, outcome, written>>

\* The counter after the failed write is taken back.  Faulty: it keeps what was counted.
FaultyCountRestored == m_segmentEntryCount + 1
CountRestored == m_segmentEntryCount

\* A write fails in batch b: the file is cut at the descriptor's offset before the write, everyone
\* collected so far will be told, and the batches behind b are forgotten.
WalWriteFails ==
    /\ walPc = "write" /\ batches # <<>>
    /\ m_mtx = Free
    /\ failures < MaxFailures
    /\ offset < Len(files[log_fd]) => "write fails after reopen" \in Faults
    /\ failures' = failures + 1
    /\ files' = [files EXCEPT ![log_fd] = SubSeq(@, 1, offset)]
    /\ synced' = [synced EXCEPT ![log_fd] = offset]
    /\ m_segmentEntryCount' = CountRestored
    /\ m_queue_log' = Rest
    /\ batches' = <<>>
    /\ \E b \in DOMAIN Bulk : JoinWaiting(SubSeq(Bulk, 1, b))
    /\ pending_count' = 0
    /\ sync_ok' = FALSE
    /\ walPc' = "notify" /\ m_mtx' = "wal"
    /\ UNCHANGED <<log_fd, offset, m_segmentLastIndex, raftVars, clientVars, crashes, outcome,
                   written>>

\* fdatasync.  Faulty: nothing is forced out.
FaultyForcedOut == synced
ForcedOut == [synced EXCEPT ![log_fd] = Len(files[log_fd])]

\* Only a write that has filled the segment goes on to close it (need_roll).
WalSync ==
    /\ walPc \in {"sync", "full"}
    /\ pending_count' = 0
    /\ \/ /\ sync_ok' = TRUE
          /\ synced' = ForcedOut
          /\ walPc' = IF walPc = "full" THEN "rename" ELSE "notify"
          /\ UNCHANGED failures
       \/ /\ failures < MaxFailures
          /\ failures' = failures + 1
          /\ sync_ok' = FALSE
          /\ walPc' = "notify"
          /\ UNCHANGED synced
    /\ UNCHANGED <<m_queue_log, batches, waiters, callbacks, files, segmentVars, m_mtx, raftVars,
                   clientVars, crashes, outcome, written>>

\* RollSegment, up to the rename and from there on.
Renamed(f, new) == [n \in (DOMAIN f \ {log_fd}) \cup {new} |-> IF n = new THEN f[log_fd] ELSE f[n]]

RollSegment ==
    /\ walPc = "rename"
    /\ LET closed == closedSegmentName(log_fd.first, m_segmentLastIndex)
       IN  files' = Renamed(files, closed) /\ synced' = Renamed(synced, closed)
    /\ log_fd' = NoFile
    /\ walPc' = "open"
    /\ UNCHANGED <<m_queue_log, batches, waiters, callbacks, pending_count, sync_ok, offset,
                   m_segmentLastIndex, m_segmentEntryCount, m_mtx, raftVars, clientVars, failures,
                   crashes, outcome, written>>

RollOpens ==
    /\ walPc = "open"
    /\ OpenSegment(files, synced, m_segmentLastIndex + 1)
    /\ walPc' = "notify"
    /\ UNCHANGED <<m_queue_log, batches, waiters, callbacks, pending_count, sync_ok, m_mtx, raftVars,
                   clientVars, failures, crashes, outcome, written>>

NotifyWaiters ==
    /\ walPc = "notify" /\ waiters # <<>>
    /\ Told(ToSet(waiters), sync_ok)
    /\ waiters' = <<>>
    /\ UNCHANGED <<m_queue_log, walPc, batches, callbacks, pending_count, sync_ok, fileVars,
                   segmentVars, m_mtx, raftVars, requests, failures, crashes, written>>

\* A callback is onLogStable, which takes raft::m_mtx while the WAL thread has Persister::m_mtx.
NotifyCallbacks ==
    /\ walPc = "notify" /\ waiters = <<>> /\ callbacks # <<>>
    /\ raft_mtx = Free
    /\ Told({Head(callbacks)}, sync_ok)
    /\ callbacks' = Tail(callbacks)
    /\ UNCHANGED <<m_queue_log, walPc, batches, waiters, pending_count, sync_ok, fileVars,
                   segmentVars, m_mtx, raftVars, requests, failures, crashes, written>>

WalUnlock ==
    /\ walPc = "notify" /\ waiters = <<>> /\ callbacks = <<>>
    /\ m_mtx' = Free
    /\ walPc' = "pop"
    /\ UNCHANGED <<m_queue_log, batches, waiters, callbacks, pending_count, sync_ok, fileVars,
                   segmentVars, raftVars, clientVars, failures, crashes, outcome, written>>

----------------------------------------------------------------------------
\* A thread of raft inside persistState, with raft::m_mtx.

\* A new snapshot index, or the one of the state file after a restart, makes Save compact the WAL.
SaveRaftState(s) ==
    /\ raft_mtx = Free
    /\ s > m_compactedSnapshotIndex
    /\ s >= snapshot_index
    /\ raft_mtx' = "raft"
    /\ raftPc' = "compact"
    /\ snapshot_index' = s
    /\ m_logs' = SubSeq(m_logs, s - snapshot_index + 1, Len(m_logs))
    /\ UNCHANGED <<m_queue_log, walVars, fileVars, segmentVars, m_mtx, compacted,
                   m_compactedSnapshotIndex, requests, failures, crashes, outcome, written>>

\* CompactWal reads the segments and removes them ...
CompactWal ==
    /\ raftPc = "compact"
    /\ m_mtx = Free
    /\ m_mtx' = "raft"
    /\ compacted' = ReadPersistedLogs(WalContents(files), snapshot_index)
    /\ files' = <<>> /\ synced' = <<>>
    /\ log_fd' = NoFile
    /\ raftPc' = "rewrite"
    /\ UNCHANGED <<m_queue_log, walVars, offset, m_segmentLastIndex, m_segmentEntryCount, raft_mtx,
                   snapshot_index, m_compactedSnapshotIndex, clientVars, failures, crashes, outcome,
                   written>>

\* ... and writes what is left to a new one.  A write that fails ends the rewrite, which nobody notices.
RewriteWalFrom ==
    LET name == openSegmentName(snapshot_index + 1)
    IN  /\ raftPc = "rewrite"
        /\ \E n \in IF "rewrite fails" \in Faults THEN 0 .. Len(compacted) ELSE {Len(compacted)} :
               /\ files' = [f \in {name} |-> SubSeq(compacted, 1, n)]
               /\ synced' = [f \in {name} |-> IF n = Len(compacted) THEN n ELSE 0]
               /\ offset' = n
               /\ m_segmentLastIndex' = snapshot_index + n
               /\ m_segmentEntryCount' = n
        /\ log_fd' = name
        /\ m_compactedSnapshotIndex' = snapshot_index
        /\ compacted' = <<>>
        /\ m_mtx' = Free
        /\ raft_mtx' = Free
        /\ raftPc' = "idle"
        /\ written' = ReadPersistedLogs(written, snapshot_index)
        /\ UNCHANGED <<m_queue_log, walVars, snapshot_index, clientVars, failures, crashes, outcome>>

----------------------------------------------------------------------------
\* The process or the machine dies, and the node starts again.  Of what was written and not synced a
\* prefix is left.  (The node state has reached the disk; see README.)
Restart ==
    /\ crashes < MaxCrashes
    /\ crashes' = crashes + 1
    /\ raftPc = "rewrite" => "crash in rewrite" \in Faults
    /\ LET len == IF log_fd = NoFile THEN 0 ELSE Len(files[log_fd])
       IN  \E keep \in (IF log_fd = NoFile THEN 0 ELSE synced[log_fd]) .. len :
               LET cut  == IF log_fd = NoFile THEN files
                           ELSE [files EXCEPT ![log_fd] = SubSeq(@, 1, keep)]
                   sync == IF log_fd = NoFile THEN synced ELSE [synced EXCEPT ![log_fd] = keep]
               IN  /\ ReopenLatestSegment(cut, sync)
                   /\ written' = SubSeq(written, 1, Len(written) - (len - keep))
                   /\ m_logs' = ReadPersistedLogs(WalContents(cut), snapshot_index)
    /\ m_queue_log' = <<>>
    /\ walPc' = "pop" /\ batches' = <<>> /\ waiters' = <<>> /\ callbacks' = <<>>
    /\ pending_count' = 0 /\ sync_ok' = TRUE
    /\ m_mtx' = Free /\ raft_mtx' = Free /\ raftPc' = "idle" /\ compacted' = <<>>
    /\ m_compactedSnapshotIndex' = 0
    /\ UNCHANGED <<snapshot_index, requests, failures, outcome>>

----------------------------------------------------------------------------
WalThread ==
    \/ WalPop
    \/ WalWrite
    \/ WalTimeout
    \/ WalSync
    \/ RollSegment
    \/ RollOpens
    \/ NotifyWaiters
    \/ NotifyCallbacks
    \/ WalUnlock

Next ==
    \/ \E kind \in {"wait", "async"}, n \in 1 .. MaxBatch : AppendLog(kind, n)
    \/ WalThread
    \/ WalWriteFails
    \/ \E s \in SnapshotAt : SaveRaftState(s)
    \/ CompactWal
    \/ RewriteWalFrom
    \/ Restart

Spec == Init /\ [][Next]_vars

\* The WAL thread and a thread that has called persistState go on whenever they can.
FairSpec == Spec /\ WF_vars(WalThread) /\ WF_vars(CompactWal) /\ WF_vars(RewriteWalFrom)

----------------------------------------------------------------------------
\* Properties.

\* Between two compactions the segment files are, for a replay, the entries in the order in which they
\* were written: what module Raft takes the WAL for.
SegmentsAreTheLog ==
    raftPc # "rewrite" =>
        ReadPersistedLogs(WalContents(files), snapshot_index)
            = ReadPersistedLogs(written, snapshot_index)

\* An entry of raft's log that was reported stable, and that no snapshot covers, is replayed after the
\* process or the machine has died at this moment.
StableSurvives ==
    raftPc # "rewrite" =>
        LET onDisk == [f \in DOMAIN files |-> SubSeq(files[f], 1, synced[f])]
            replay == ReadPersistedLogs(WalContents(onDisk), snapshot_index)
        IN  \A k \in DOMAIN m_logs :
                outcome[m_logs[k].id] = "stable" => Contains(replay, m_logs[k])

\* The counters that decide when the open segment is closed, and under which name, fit the file.
CountersFitSegment ==
    log_fd # NoFile =>
        /\ m_segmentEntryCount = Len(files[log_fd])
        /\ files[log_fd] # <<>> => m_segmentLastIndex = Last(files[log_fd]).index

\* persistState returns: SaveRaftState does not wait for the WAL.
SaveReturns == raftPc = "compact" ~> raftPc = "idle"
=============================================================================
