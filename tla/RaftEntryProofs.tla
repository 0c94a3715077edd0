-------------------------- MODULE RaftEntryProofs --------------------------
(***************************************************************************)
(* First, where log entries come from: proofs that an index and a term     *)
(* name one command in all logs, WALs and requests, and that a leader only *)
(* adds to its log.                                                        *)
(*                                                                         *)
(* Then, from "Indexes" on, what a node has committed, applied and         *)
(* acknowledged: proofs that the indexes of a node stay in order and never *)
(* go back, that the types of class raft hold, and that what a follower    *)
(* has acknowledged stays in its log while the term lasts                  *)
(* (AckedEntriesKept), over the window in which AppendEntries has left the *)
(* mutex and waits for the WAL.                                            *)
(***************************************************************************)
EXTENDS RaftProofs

\* The assumption of these results: no batch fails to be written.  A leader whose write fails cuts
\* its log and then gives the same indexes to other commands of the same term.
NoFailedWrites == MaxWalFailures = 0

----------------------------------------------------------------------------
\* Entries are copied, never made, except by Start.

LogsIn(K) == \A i \in Server : m_logs[i] \in Seq(K)
WalsIn(K) == \A i \in Server : wal[i] \in Seq(K)

JobIn(job, K) ==
    /\ job.kind = "start" => job.entry \in K
    /\ job.kind = "append" => /\ job.args.entries \in Seq(K)
                              /\ \A k \in DOMAIN job.pending : job.pending[k].log \in K

JobsIn(K) == \A i \in Server : \A job \in jobs[i] : JobIn(job, K)
ArgsIn(K) == \A m \in appendArgs : m.entries \in Seq(K)

\* Every entry there is belongs to K.
HeldIn(K) == LogsIn(K) /\ WalsIn(K) /\ JobsIn(K) /\ ArgsIn(K)

\* The elements of a sequence.
LEMMA ElemsIn ==
    ASSUME NEW S, NEW s \in Seq(S), NEW K
    PROVE  s \in Seq(K) <=> Elems(s) \subseteq K
  <1>1. Len(s) \in Nat /\ DOMAIN s = 1 .. Len(s)
    OBVIOUS
  <1>2. ASSUME Elems(s) \subseteq K PROVE s \in Seq(K)
    <2>1. \A k \in 1 .. Len(s) : s[k] \in K
      BY <1>1, <1>2 DEF Elems
    <2>2. QED
      BY <1>1, <2>1
  <1>3. ASSUME s \in Seq(K) PROVE Elems(s) \subseteq K
    BY <1>3 DEF Elems
  <1>4. QED
    BY <1>2, <1>3

\* Known is what there is, and nothing else.
LEMMA KnownHolds ==
    ASSUME LogInv
    PROVE  HeldIn(Known) /\ Known \subseteq Entry
  <1>1. ASSUME NEW i \in Server PROVE Elems(m_logs[i]) \subseteq Known /\ Elems(wal[i]) \subseteq Known
    <2>1. Elems(m_logs[i]) \subseteq InLogs
      BY SMT DEF InLogs
    <2>2. Elems(wal[i]) \subseteq InWals
      BY SMT DEF InWals
    <2>3. QED
      BY <2>1, <2>2 DEF Known
  <1>2. ASSUME NEW i \in Server, NEW job \in jobs[i] PROVE JobHolds(job) \subseteq Known
    <2>1. JobHolds(job) \subseteq InJobs
      BY SMT DEF InJobs
    <2>2. QED
      BY <2>1 DEF Known
  <1>3. ASSUME NEW m \in appendArgs PROVE Elems(m.entries) \subseteq Known
    <2>1. Elems(m.entries) \subseteq InCalls
      BY SMT DEF InCalls
    <2>2. QED
      BY <2>1 DEF Known
  <1>4. LogsIn(Known)
    <2>1. ASSUME NEW i \in Server PROVE m_logs[i] \in Seq(Known)
      <3>1. m_logs[i] \in Seq(Entry)
        BY DEF LogInv, LogTypes
      <3>2. QED
        BY <1>1, <3>1, ElemsIn
    <2>2. QED
      BY <2>1 DEF LogsIn
  <1>5. WalsIn(Known)
    <2>1. ASSUME NEW i \in Server PROVE wal[i] \in Seq(Known)
      <3>1. wal[i] \in Seq(Entry)
        BY DEF LogInv, DiskTypes
      <3>2. QED
        BY <1>1, <3>1, ElemsIn
    <2>2. QED
      BY <2>1 DEF WalsIn
  <1>6. JobsIn(Known)
    <2>1. ASSUME NEW i \in Server, NEW job \in jobs[i] PROVE JobIn(job, Known)
      <3>1. JobOK(i, job) /\ JobHolds(job) \subseteq Known
        BY <1>2 DEF LogInv, JobTypes
      <3>2. CASE job.kind = "start"
        <4>1. job.entry \in Known
          BY <3>1, <3>2 DEF JobHolds
        <4>2. QED
          BY <3>2, <4>1 DEF JobIn
      <3>3. CASE job.kind = "append"
        <4>1. job.args.entries \in Seq(Entry)
          BY <3>1, <3>3 DEF JobOK, AppendArgsOK
        <4>2. Elems(job.args.entries) \subseteq Known
          BY <3>1, <3>3 DEF JobHolds
        <4>3. \A k \in DOMAIN job.pending : job.pending[k].log \in Known
          BY <3>1, <3>3 DEF JobHolds
        <4>4. job.args.entries \in Seq(Known)
          BY <4>1, <4>2, ElemsIn
        <4>5. QED
          BY <3>3, <4>3, <4>4 DEF JobIn
      <3>4. QED
        BY <3>1, <3>2, <3>3 DEF JobOK
    <2>2. QED
      BY <2>1 DEF JobsIn
  <1>7. ArgsIn(Known)
    <2>1. ASSUME NEW m \in appendArgs PROVE m.entries \in Seq(Known)
      <3>1. m.entries \in Seq(Entry)
        BY DEF LogInv, AppendCallTypes, AppendArgsOK
      <3>2. QED
        BY <1>3, <3>1, ElemsIn
    <2>2. QED
      BY <2>1 DEF ArgsIn
  <1>8. Known \subseteq Entry
    <2>1. ASSUME NEW i \in Server PROVE Elems(m_logs[i]) \subseteq Entry /\ Elems(wal[i]) \subseteq Entry
      BY DEF LogInv, LogTypes, DiskTypes, Elems
    <2>2. ASSUME NEW i \in Server, NEW job \in jobs[i] PROVE JobHolds(job) \subseteq Entry
      <3>1. JobOK(i, job)
        BY DEF LogInv, JobTypes
      <3>2. CASE job.kind = "start"
        BY <3>1, <3>2 DEF JobOK, JobHolds
      <3>3. CASE job.kind = "append"
        <4>1. job.args.entries \in Seq(Entry) /\ job.pending \in Seq(Writes)
          BY <3>1, <3>3 DEF JobOK, AppendArgsOK
        <4>2. Elems(job.args.entries) \subseteq Entry
          BY <4>1 DEF Elems
        <4>3. {job.pending[k].log : k \in DOMAIN job.pending} \subseteq Entry
          <5>1. ASSUME NEW k \in DOMAIN job.pending PROVE job.pending[k].log \in Entry
            <6>1. job.pending[k] \in Writes
              BY <4>1
            <6>2. QED
              BY <6>1 DEF Writes
          <5>2. QED
            BY <5>1
        <4>4. QED
          BY <3>3, <4>2, <4>3 DEF JobHolds
      <3>4. QED
        BY <3>1, <3>2, <3>3 DEF JobOK
    <2>3. ASSUME NEW m \in appendArgs PROVE Elems(m.entries) \subseteq Entry
      BY DEF LogInv, AppendCallTypes, AppendArgsOK, Elems
    <2>4. InLogs \subseteq Entry /\ InWals \subseteq Entry
      BY <2>1 DEF InLogs, InWals
    <2>5. InJobs \subseteq Entry
      BY <2>2 DEF InJobs
    <2>6. InCalls \subseteq Entry
      BY <2>3 DEF InCalls
    <2>7. QED
      BY <2>4, <2>5, <2>6 DEF Known
  <1>9. QED
    BY <1>4, <1>5, <1>6, <1>7, <1>8 DEF HeldIn

LEMMA KnownIsLeast ==
    ASSUME LogInv', NEW K, HeldIn(K)'
    PROVE  Known' \subseteq K
  <1>1. ASSUME NEW i \in Server
        PROVE  Elems(m_logs'[i]) \subseteq K /\ Elems(wal'[i]) \subseteq K
    BY DEF HeldIn, LogsIn, WalsIn, Elems
  <1>2. ASSUME NEW i \in Server, NEW job \in jobs'[i] PROVE JobHolds(job) \subseteq K
    <2>1. JobOK(i, job) /\ JobIn(job, K)
      BY DEF LogInv, JobTypes, HeldIn, JobsIn
    <2>2. QED
      BY <2>1 DEF JobOK, JobIn, JobHolds, Elems
  <1>3. ASSUME NEW m \in appendArgs' PROVE Elems(m.entries) \subseteq K
    BY DEF HeldIn, ArgsIn, Elems
  <1>4. InLogs' \subseteq K /\ InWals' \subseteq K
    BY <1>1 DEF InLogs, InWals
  <1>5. InJobs' \subseteq K
    BY <1>2 DEF InJobs
  <1>6. InCalls' \subseteq K
    BY <1>3 DEF InCalls
  <1>7. QED
    BY <1>4, <1>5, <1>6 DEF Known

\* An entry of a log.
LEMMA EntryAtIn ==
    ASSUME LogInv, NEW K, LogsIn(K), NEW i \in Server, NEW k \in Int, InLog(i, k)
    PROVE  EntryAt(i, k) \in K
  <1>1. m_logs[i] \in Seq(K)
    BY DEF LogsIn
  <1>2. QED
    BY <1>1 DEF InLog, EntryAt

\* Storing a node state writes nothing into the WAL that was not there.
LEMMA WalsSave ==
    ASSUME LogInv, NEW K, WalsIn(K), NEW i \in Server, NEW meta \in MetaType, SaveRaftState(i, meta)
    PROVE  WalsIn(K)'
  <1>1. PICK w \in Seq(Entry), s \in Int : w = wal[i] /\ s = meta.snapshot_index
    BY DEF LogInv, DiskTypes, MetaType
  <1>2. ReadPersistedLogs(w, s) \in Seq({w[k] : k \in 1 .. Len(w)})
    <2>1. \A e \in Entry : e.index \in Int
      BY DEF Entry
    <2>2. QED
      BY <2>1, ReplayFacts
  <1>3. w \in Seq(K)
    BY <1>1 DEF WalsIn
  <1>4. {w[k] : k \in 1 .. Len(w)} \subseteq K
    BY <1>3
  <1>5. ReadPersistedLogs(w, s) \in Seq(K)
    BY <1>2, <1>4, SeqWiden
  <1>6. \/ wal' = wal
        \/ wal' = [wal EXCEPT ![i] = ReadPersistedLogs(w, s)]
    BY <1>1 DEF SaveRaftState
  <1>7. QED
    BY <1>5, <1>6 DEF WalsIn, LogInv, DiskTypes

LEMMA WalsStep ==
    ASSUME LogInv, LogInv', NEW K, WalsIn(K), NEW i \in Server, persistState(i) \/ UNCHANGED diskVars
    PROVE  WalsIn(K)'
  <1>1. CASE persistState(i)
    <2>1. Meta(i)' \in MetaType
      BY MetaTypedAfter DEF LogInv
    <2>2. QED
      BY <1>1, <2>1, WalsSave DEF persistState
  <1>2. CASE UNCHANGED diskVars
    BY <1>2 DEF diskVars, WalsIn
  <1>3. QED
    BY <1>1, <1>2

\* A step that adds no job, no request and nothing to a log.
LEMMA HeldQuiet ==
    ASSUME NEW K, HeldIn(K), WalsIn(K)', m_logs' = m_logs, appendArgs' \subseteq appendArgs,
           \A i \in Server : jobs'[i] \subseteq jobs[i]
    PROVE  HeldIn(K)'
  BY DEF HeldIn, LogsIn, JobsIn, ArgsIn

\* Nodes that act without a call, and callbacks.
LEMMA HeldLocal ==
    ASSUME LogInv, LogInv', NEW K, HeldIn(K), NEW i \in Server,
           \/ doElection(i)
           \/ LoadElectionState(i)
           \/ PersistElection(i)
           \/ doHeartBeatAborts(i)
           \/ applierTicker(i)
           \/ \E j \in Server : leaderSendSnapShot(i, j)
           \/ \E job \in jobs[i] : onLogStable(i, job)
    PROVE  HeldIn(K)'
  <1> USE DEF threadVars, diskVars, appendMsgs, logVars
  <1>1. CASE PersistElection(i)
    <2>1. PICK meta : SaveRaftState(i, meta) /\ meta \in MetaType
      <3>1. PICK stale \in IF electPersist[i] = Deferred THEN {{}} ELSE SUBSET MetaFields :
                SaveRaftState(i, [f \in MetaFields |->
                                     IF f \in stale THEN electPersist[i][2][f] ELSE Meta(i)[f]])
        BY <1>1 DEF PersistElection
      <3>2. PICK meta : meta = [f \in MetaFields |->
                                   IF f \in stale THEN electPersist[i][2][f] ELSE Meta(i)[f]]
        OBVIOUS
      <3>3. fmp'[i] = meta
        BY <3>1, <3>2 DEF SaveRaftState, LogInv, DiskTypes
      <3>4. fmp'[i] \in MetaType
        BY DEF LogInv, DiskTypes
      <3>5. QED
        BY <3>1, <3>2, <3>3, <3>4
    <2>2. WalsIn(K)'
      BY <2>1, WalsSave DEF HeldIn
    <2>3. QED
      BY <1>1, <2>2, HeldQuiet DEF PersistElection
  <1>2. CASE \E job \in jobs[i] : onLogStable(i, job)
    <2>1. PICK job \in jobs[i] : onLogStable(i, job)
      BY <1>2
    <2>2. WalsIn(K)'
      <3>1. persistState(i) \/ UNCHANGED diskVars
        BY <2>1 DEF onLogStable
      <3>2. QED
        BY <3>1, WalsStep DEF HeldIn
    <2>3. \A k \in Server : jobs'[k] \subseteq jobs[k]
      BY <2>1 DEF onLogStable, LogInv, JobTypes
    <2>4. QED
      BY <2>1, <2>2, <2>3, HeldQuiet DEF onLogStable
  <1>3. CASE \/ doElection(i) \/ LoadElectionState(i) \/ doHeartBeatAborts(i) \/ applierTicker(i)
             \/ \E j \in Server : leaderSendSnapShot(i, j)
    <2>1. UNCHANGED <<m_logs, jobs, appendArgs, wal>>
      BY <1>3 DEF doElection, LoadElectionState, doHeartBeatAborts, Abort, applierTicker,
         leaderSendSnapShot
    <2>2. QED
      BY <2>1 DEF HeldIn, LogsIn, WalsIn, JobsIn, ArgsIn
  <1>4. QED
    BY <1>1, <1>2, <1>3

\* Calls that leave the logs alone.
LEMMA HeldCalls ==
    ASSUME LogInv, LogInv', NEW K, HeldIn(K), NEW i \in Server,
           \/ \E m \in voteArgs : RequestVote(i, m)
           \/ \E r \in voteReplies : handleRequestVoteResponse(i, r)
           \/ \E r \in appendReplies : handleAppendEntries(i, r)
           \/ \E r \in snapReplies : leaderSendSnapShotHandler(i, r)
    PROVE  HeldIn(K)'
  <1> USE DEF threadVars, appendMsgs, logVars
  <1>1. /\ m_logs' = m_logs /\ jobs' = jobs /\ appendArgs' \subseteq appendArgs
        /\ persistState(i) \/ UNCHANGED diskVars
    <2>1. CASE \E m \in voteArgs : RequestVote(i, m)
      BY <2>1 DEF RequestVote, RequestVoteStale, RequestVoteCurrent
    <2>2. CASE \E r \in voteReplies : handleRequestVoteResponse(i, r)
      BY <2>2 DEF handleRequestVoteResponse, VoteResponseNewTerm, VoteResponseCounted
    <2>3. CASE \E r \in appendReplies : handleAppendEntries(i, r)
      BY <2>3 DEF handleAppendEntries
    <2>4. CASE \E r \in snapReplies : leaderSendSnapShotHandler(i, r)
      BY <2>4 DEF leaderSendSnapShotHandler
    <2>5. QED
      BY <2>1, <2>2, <2>3, <2>4
  <1>2. WalsIn(K)'
    BY <1>1, WalsStep DEF HeldIn
  <1>3. QED
    BY <1>1, <1>2, HeldQuiet

\* A lost call.
LEMMA HeldLost ==
    ASSUME NEW K, HeldIn(K), LoseCall \/ UNCHANGED vars
    PROVE  HeldIn(K)'
  <1> USE DEF vars, threadVars, diskVars, appendMsgs, snapMsgs, logVars
  <1>1. UNCHANGED <<m_logs, jobs, wal>> /\ appendArgs' \subseteq appendArgs
    BY DEF LoseCall
  <1>2. QED
    BY <1>1 DEF HeldIn, LogsIn, WalsIn, JobsIn, ArgsIn

\* A heartbeat sends entries of the leader's log.
LEMMA HeldHeartBeat ==
    ASSUME LogInv, NEW K, HeldIn(K), NEW i \in Server, doHeartBeat(i)
    PROVE  HeldIn(K)'
  <1>1. UNCHANGED <<m_logs, jobs, wal>>
    BY DEF doHeartBeat, logVars, diskVars
  <1>2. ASSUME NEW m \in appendArgs' PROVE m.entries \in Seq(K)
    <2>1. CASE m \in appendArgs
      BY <2>1 DEF HeldIn, ArgsIn
    <2>2. CASE m \notin appendArgs
      <3>1. PICK j \in Server \ {i} :
                /\ m = AppendEntriesArgs(i, j)
                /\ HeartBeatAsserts(i, j)
                /\ ~(m_nextIndex[i][j] <= m_lastSnapshotIndex[i])
        BY <2>2 DEF doHeartBeat
      <3>2. /\ m.entries \in Seq(Entry) /\ m.prevLogIndex \in Nat
            /\ \A k \in 1 .. Len(m.entries) : /\ InLog(i, m.prevLogIndex + k)
                                              /\ m.entries[k] = EntryAt(i, m.prevLogIndex + k)
        BY <3>1, HeartBeatArgs DEF AppendArgsOK
      <3>3. ASSUME NEW k \in 1 .. Len(m.entries) PROVE m.entries[k] \in K
        <4>1. PICK x \in Int : x = m.prevLogIndex + k
          BY <3>2
        <4>2. QED
          BY <3>2, <4>1, EntryAtIn DEF HeldIn
      <3>4. QED
        BY <3>2, <3>3
    <2>3. QED
      BY <2>1, <2>2
  <1>3. QED
    BY <1>1, <1>2 DEF HeldIn, LogsIn, WalsIn, JobsIn, ArgsIn

\* A restart reads entries from the WAL.
LEMMA HeldRestart ==
    ASSUME LogInv, NEW K, HeldIn(K), NEW i \in Server, Restart(i)
    PROVE  HeldIn(K)'
  <1>1. PICK w \in Seq(Entry), s \in Int : w = wal[i] /\ s = fmp[i].snapshot_index
    BY DEF LogInv, DiskTypes, MetaType
  <1>2. PICK logs : /\ logs = ReadPersistedLogs(w, s)
                    /\ logs \in Seq({w[k] : k \in 1 .. Len(w)})
    <2>1. \A e \in Entry : e.index \in Int
      BY DEF Entry
    <2>2. QED
      BY <2>1, ReplayFacts
  <1>3. w \in Seq(K)
    BY <1>1 DEF HeldIn, WalsIn
  <1>4. {w[k] : k \in 1 .. Len(w)} \subseteq K
    BY <1>3
  <1>5. logs \in Seq(K)
    BY <1>2, <1>4, SeqWiden
  <1>6. /\ m_logs' = [m_logs EXCEPT ![i] = logs]
        /\ jobs' = [jobs EXCEPT ![i] = {}]
        /\ UNCHANGED <<wal, appendArgs>>
    BY <1>1, <1>2 DEF Restart, appendMsgs
  <1>7. QED
    BY <1>5, <1>6 DEF HeldIn, LogsIn, WalsIn, JobsIn, ArgsIn, LogInv, LogTypes, JobTypes

\* A snapshot keeps the entries above it.
LEMMA HeldAbove ==
    ASSUME LogInv, NEW K, LogsIn(K), NEW i \in Server, NEW index \in Nat,
           index > m_lastSnapshotIndex[i], m_logs' = [m_logs EXCEPT ![i] = LogAbove(i, index)]
    PROVE  LogsIn(K)'
  <1>1. PICK new \in Seq(Entry) :
            /\ new = LogAbove(i, index)
            /\ Len(new) = IF index < LastLogIndex(i) THEN LastLogIndex(i) - index ELSE 0
            /\ \A k \in 1 .. Len(new) : new[k] = EntryAt(i, index + k)
    BY LogAboveFacts
  <1>2. ASSUME NEW k \in 1 .. Len(new) PROVE new[k] \in K
    <2>1. LastLogIndex(i) \in Nat /\ m_lastSnapshotIndex[i] \in Nat
      BY LastIndexFact DEF LogInv, NodeTypes
    <2>2. PICK x \in Int : x = index + k
      OBVIOUS
    <2>3. m_lastSnapshotIndex[i] < x /\ x <= LastLogIndex(i)
      <3>1. Len(new) \in Nat
        OBVIOUS
      <3>2. QED
        BY <1>1, <2>1, <2>2, <3>1
    <2>4. InLog(i, x)
      BY <2>3, EntryAtFact DEF LogInv
    <2>5. QED
      BY <1>1, <2>2, <2>4, EntryAtIn
  <1>3. new \in Seq(K)
    BY <1>2
  <1>4. QED
    BY <1>1, <1>3 DEF LogsIn, LogInv, LogTypes

LEMMA HeldSnapshot ==
    ASSUME LogInv, LogInv', NEW K, HeldIn(K), NEW i \in Server,
           \/ \E index \in SnapshotAt : Snapshot(i, index)
           \/ \E m \in snapArgs : InstallSnapshot(i, m)
    PROVE  HeldIn(K)'
  <1> USE DEF threadVars, appendMsgs, logVars
  <1>1. jobs' = jobs /\ appendArgs' = appendArgs /\ (persistState(i) \/ UNCHANGED diskVars)
    <2>1. CASE \E index \in SnapshotAt : Snapshot(i, index)
      BY <2>1 DEF Snapshot
    <2>2. CASE \E m \in snapArgs : InstallSnapshot(i, m)
      BY <2>2 DEF InstallSnapshot, InstallSnapshotStale, InstallSnapshotCovered,
         InstallSnapshotInstalls
    <2>3. QED
      BY <2>1, <2>2
  <1>2. WalsIn(K)'
    BY <1>1, WalsStep DEF HeldIn
  <1>3. \/ m_logs' = m_logs
        \/ \E index \in Nat : /\ index > m_lastSnapshotIndex[i]
                              /\ m_logs' = [m_logs EXCEPT ![i] = LogAbove(i, index)]
    <2>1. CASE \E index \in SnapshotAt : Snapshot(i, index)
      BY <2>1, SnapshotAtAssumption DEF Snapshot
    <2>2. CASE \E m \in snapArgs : InstallSnapshot(i, m)
      BY <2>2 DEF InstallSnapshot, InstallSnapshotStale, InstallSnapshotCovered,
         InstallSnapshotInstalls, LogInv, SnapCallTypes, SnapArgsOK
    <2>3. QED
      BY <2>1, <2>2
  <1>4. LogsIn(K)'
    BY <1>3, HeldAbove DEF HeldIn, LogsIn
  <1>5. QED
    BY <1>1, <1>2, <1>4 DEF HeldIn, JobsIn, ArgsIn

\* The WAL thread writes the entries of a job.
LEMMA HeldWalWrite ==
    ASSUME LogInv, NEW K, HeldIn(K), NEW i \in Server, NEW job \in jobs[i], WalWrite(i, job)
    PROVE  HeldIn(K)'
  <1>1. JobOK(i, job) /\ JobIn(job, K)
    BY DEF LogInv, JobTypes, HeldIn, JobsIn
  <1>2. JobEntries(job) \in Seq(K)
    <2>1. CASE job.kind = "start"
      BY <1>1, <2>1 DEF JobIn, JobEntries
    <2>2. CASE job.kind = "append"
      <3>1. job.pending \in Seq(Writes)
        BY <1>1, <2>2 DEF JobOK
      <3>2. Len(job.pending) \in Nat /\ DOMAIN job.pending = 1 .. Len(job.pending)
        BY <3>1
      <3>3. JobEntries(job) = [k \in 1 .. Len(job.pending) |-> job.pending[k].log]
        BY <2>2 DEF JobEntries
      <3>4. QED
        BY <1>1, <2>2, <3>2, <3>3 DEF JobIn
    <2>3. QED
      BY <1>1, <2>1, <2>2 DEF JobOK
  <1>3. WalsIn(K)'
    <2>1. PICK new \in Seq(K) : new = JobEntries(job)
      BY <1>2
    <2>2. wal' = [wal EXCEPT ![i] = @ \o new]
      BY <2>1 DEF WalWrite
    <2>3. wal[i] \o new \in Seq(K)
      BY <2>1 DEF HeldIn, WalsIn
    <2>4. QED
      BY <2>2, <2>3 DEF HeldIn, WalsIn, LogInv, DiskTypes
  <1>4. JobsIn(K)'
    <2>1. PICK done : done = [job EXCEPT !.written = TRUE]
      OBVIOUS
    <2>2. JobIn(done, K)
      <3>1. done.kind = job.kind
        BY <1>1, <2>1 DEF JobOK
      <3>2. CASE job.kind = "start"
        <4>1. done.entry = job.entry
          BY <2>1
        <4>2. QED
          BY <1>1, <3>1, <3>2, <4>1 DEF JobIn
      <3>3. CASE job.kind = "append"
        <4>1. done.args = job.args /\ done.pending = job.pending
          BY <2>1
        <4>2. QED
          BY <1>1, <3>1, <3>3, <4>1 DEF JobIn
      <3>4. QED
        BY <1>1, <3>2, <3>3 DEF JobOK
    <2>3. jobs' = [jobs EXCEPT ![i] = (@ \ {job}) \cup {done}]
      BY <2>1, Zenon DEF WalWrite
    <2>4. QED
      BY <2>2, <2>3 DEF HeldIn, JobsIn, LogInv, JobTypes
  <1>5. UNCHANGED <<m_logs, appendArgs>>
    BY DEF WalWrite, logVars, appendMsgs
  <1>6. QED
    BY <1>3, <1>4, <1>5 DEF HeldIn, LogsIn, ArgsIn

\* Start makes one entry.
LEMMA HeldStart ==
    ASSUME LogInv, LogInv', NEW K, HeldIn(K), NEW i \in Server, NEW cmd \in Command,
           NewEntry(i, cmd) \in K, Start(i, cmd)
    PROVE  HeldIn(K)'
  <1>1. PICK entry \in K : entry = NewEntry(i, cmd)
    OBVIOUS
  <1>2. PICK job : job = [kind |-> "start", entry |-> entry, written |-> FALSE]
    OBVIOUS
  <1>3. /\ m_logs' = [m_logs EXCEPT ![i] = Append(@, entry)]
        /\ persistState(i)
        /\ UNCHANGED appendArgs
    BY <1>1 DEF Start, appendMsgs
  <1>4. jobs' = [jobs EXCEPT ![i] = @ \cup {job}]
    BY <1>1, <1>2, Zenon DEF Start
  <1>5. JobIn(job, K)
    <2>1. job.kind = "start" /\ job.entry = entry
      BY <1>2
    <2>2. QED
      BY <2>1 DEF JobIn
  <1>6. JobsIn(K)'
    BY <1>4, <1>5 DEF HeldIn, JobsIn, LogInv, JobTypes
  <1>7. LogsIn(K)'
    <2>1. Append(m_logs[i], entry) \in Seq(K)
      BY DEF HeldIn, LogsIn
    <2>2. QED
      BY <1>3, <2>1 DEF HeldIn, LogsIn, LogInv, LogTypes
  <1>8. WalsIn(K)'
    BY <1>3, WalsStep DEF HeldIn
  <1>9. QED
    BY <1>3, <1>6, <1>7, <1>8 DEF HeldIn, ArgsIn

\* The first half of AppendEntries takes its writes from the request.
LEMMA HeldAppendEntries ==
    ASSUME LogInv, LogInv', NEW K, HeldIn(K), NEW j \in Server, NEW m \in appendArgs,
           AppendEntries(j, m)
    PROVE  HeldIn(K)'
  <1>1. UNCHANGED m_logs /\ appendArgs' \subseteq appendArgs
    BY DEF AppendEntries, logVars
  <1>2. WalsIn(K)'
    <2>1. persistState(j) \/ UNCHANGED diskVars
      BY DEF AppendEntries, AppendEntriesStale, AppendEntriesMismatch, AppendEntriesMatch
    <2>2. QED
      BY <2>1, WalsStep DEF HeldIn
  <1>3. CASE UNCHANGED jobs
    BY <1>1, <1>2, <1>3, HeldQuiet
  <1>4. CASE ~UNCHANGED jobs
    <2>1. PICK slot, written :
              jobs' = [jobs EXCEPT ![j] = @ \cup
                          {[kind |-> "append", slot |-> slot, args |-> m,
                            pending |-> PendingWrites(j, m), written |-> written]}]
      <3>1. AppendEntriesMatch(j, m)
        BY <1>4 DEF AppendEntries, AppendEntriesStale, AppendEntriesMismatch
      <3>2. ~SameTermOtherCommand(j, m)
        BY <1>4, <3>1 DEF AppendEntriesMatch
      <3>3. QED
        BY <3>1, <3>2, Zenon DEF AppendEntriesMatch
    <2>2. PICK job : job = [kind |-> "append", slot |-> slot, args |-> m,
                            pending |-> PendingWrites(j, m), written |-> written]
      OBVIOUS
    <2>3. job.kind = "append" /\ job.args = m /\ job.pending = PendingWrites(j, m)
      BY <2>2
    <2>4. jobs' = [jobs EXCEPT ![j] = @ \cup {job}]
      BY <2>1, <2>2, Zenon
    <2>5. JobIn(job, K)
      <3>1. AppendArgsOK(m) /\ m.entries \in Seq(K)
        BY DEF LogInv, AppendCallTypes, HeldIn, ArgsIn
      <3>2. \A n \in DOMAIN PendingWrites(j, m) :
                \E k \in DOMAIN m.entries : PendingWrites(j, m)[n].log = m.entries[k]
        BY <3>1, PendingWritesTyped
      <3>3. ASSUME NEW n \in DOMAIN PendingWrites(j, m) PROVE PendingWrites(j, m)[n].log \in K
        <4>1. PICK k \in DOMAIN m.entries : PendingWrites(j, m)[n].log = m.entries[k]
          BY <3>2
        <4>2. m.entries[k] \in K
          BY <3>1
        <4>3. QED
          BY <4>1, <4>2
      <3>4. QED
        BY <2>3, <3>1, <3>3 DEF JobIn
    <2>6. JobsIn(K)'
      BY <2>4, <2>5 DEF HeldIn, JobsIn, LogInv, JobTypes
    <2>7. QED
      BY <1>1, <1>2, <2>6 DEF HeldIn, LogsIn, ArgsIn
  <1>5. QED
    BY <1>3, <1>4

\* The second half puts its pending writes into the log.
LEMMA HeldResume ==
    ASSUME LogInv, LogInv', NEW K, HeldIn(K), NEW j \in Server, NEW job \in jobs[j],
           AppendEntriesResume(j, job)
    PROVE  HeldIn(K)'
  <1>1. /\ \A k \in Server : jobs'[k] \subseteq jobs[k]
        /\ UNCHANGED appendArgs
        /\ job.kind = "append"
    BY DEF AppendEntriesResume, AppendJobs, LogInv, JobTypes
  <1>2. WalsIn(K)'
    <2>1. persistState(j) \/ UNCHANGED diskVars
      BY DEF AppendEntriesResume, AppendEntriesGivesUp, AppendEntriesApplies
    <2>2. QED
      BY <2>1, WalsStep DEF HeldIn
  <1>3. CASE AppendEntriesGivesUp(j, job, TRUE)
    BY <1>1, <1>2, <1>3, HeldQuiet DEF AppendEntriesGivesUp
  <1>4. CASE AppendEntriesApplies(j, job)
    <2>1. /\ m_logs' = [m_logs EXCEPT ![j] = AppliedLog(j, job)]
          /\ StillApplies(j, job)
      BY <1>4 DEF AppendEntriesApplies, StableReplyFails
    <2>2. job.pending \in Seq(Writes) /\ JobIn(job, K)
      BY <1>1 DEF LogInv, JobTypes, JobOK, HeldIn, JobsIn
    <2>3. PICK new \in Seq(Entry) :
              /\ new = AppliedLog(j, job)
              /\ \A k \in 1 .. Len(new) :
                    \/ k <= Len(m_logs[j]) /\ new[k] = m_logs[j][k]
                    \/ \E n \in LivePending(j, job) : new[k] = job.pending[n].log
      BY <2>1, <2>2, AppliedFacts
    <2>4. ASSUME NEW k \in 1 .. Len(new) PROVE new[k] \in K
      <3>1. CASE k <= Len(m_logs[j]) /\ new[k] = m_logs[j][k]
        <4>1. m_logs[j] \in Seq(K)
          BY DEF HeldIn, LogsIn
        <4>2. k \in 1 .. Len(m_logs[j])
          BY <3>1, <4>1
        <4>3. QED
          BY <3>1, <4>1, <4>2
      <3>2. CASE \E n \in LivePending(j, job) : new[k] = job.pending[n].log
        BY <1>1, <2>2, <3>2 DEF JobIn, LivePending
      <3>3. QED
        BY <2>3, <3>1, <3>2
    <2>5. new \in Seq(K)
      BY <2>4
    <2>6. LogsIn(K)'
      BY <2>1, <2>3, <2>5 DEF HeldIn, LogsIn, LogInv, LogTypes
    <2>7. QED
      BY <1>1, <1>2, <2>6 DEF HeldIn, JobsIn, ArgsIn
  <1>5. QED
    BY <1>3, <1>4 DEF AppendEntriesResume

\* No step but Start makes an entry.
AnyStart == \E i \in Server, cmd \in Command : Start(i, cmd)

LEMMA HeldNext ==
    ASSUME LogInv, LogInv', walFailures = 0, NoFailedWrites, NEW K, HeldIn(K), [Next]_vars, ~AnyStart
    PROVE  HeldIn(K)'
  <1>1. ASSUME NEW i \in Server, NEW job \in jobs[i]
        PROVE  ~onLogStableFails(i, job) /\ ~AppendEntriesWalFailed(i, job)
    BY DEF onLogStableFails, AppendEntriesWalFailed, NoFailedWrites
  <1>2. QED
    BY <1>1, HeldLocal, HeldCalls, HeldLost, HeldHeartBeat, HeldRestart, HeldSnapshot, HeldWalWrite,
       HeldAppendEntries, HeldResume DEF Next, AnyStart

----------------------------------------------------------------------------
\* Roles.

\* Every node keeps its role and term or becomes a follower; nobody is elected.
RolesKept ==
    /\ elected' = elected /\ votes \subseteq votes'
    /\ \A k \in Server : \/ m_state'[k] = Follower
                         \/ m_state'[k] = m_state[k] /\ m_currentTerm'[k] = m_currentTerm[k]

\* A candidate wins.
Wins(i) == m_state[i] = Candidate /\ BecomeLeader(i) /\ UNCHANGED m_currentTerm

LEMMA RolesFollow ==
    ASSUME LogInv, NEW i \in Server, NEW t, FollowTerm(i, t) \/ StepDown(i, t),
           UNCHANGED <<votes, elected>>
    PROVE  RolesKept
  BY DEF FollowTerm, StepDown, RolesKept, LogInv, NodeTypes

LEMMA RolesLocal ==
    ASSUME LogInv, NEW i \in Server,
           \/ LoadElectionState(i) \/ PersistElection(i) \/ doHeartBeat(i) \/ doHeartBeatAborts(i)
           \/ applierTicker(i)
           \/ \E cmd \in Command : Start(i, cmd)
           \/ \E index \in SnapshotAt : Snapshot(i, index)
           \/ \E j \in Server : leaderSendSnapShot(i, j)
           \/ \E job \in jobs[i] :
                  \/ WalWrite(i, job) \/ AppendEntriesResume(i, job) \/ AppendEntriesWalFailed(i, job)
                  \/ onLogStable(i, job) \/ onLogStableFails(i, job)
           \/ Restart(i)
    PROVE  RolesKept
  <1> USE DEF electionVars, historyVars
  <1>1. CASE \/ LoadElectionState(i) \/ PersistElection(i) \/ doHeartBeat(i) \/ doHeartBeatAborts(i)
             \/ applierTicker(i)
    BY <1>1 DEF LoadElectionState, PersistElection, doHeartBeat, doHeartBeatAborts, Abort,
       applierTicker, RolesKept
  <1>2. CASE \/ \E cmd \in Command : Start(i, cmd)
             \/ \E index \in SnapshotAt : Snapshot(i, index)
             \/ \E j \in Server : leaderSendSnapShot(i, j)
    BY <1>2 DEF Start, Snapshot, leaderSendSnapShot, RolesKept
  <1>3. CASE \E job \in jobs[i] :
                 \/ WalWrite(i, job) \/ AppendEntriesResume(i, job) \/ AppendEntriesWalFailed(i, job)
                 \/ onLogStable(i, job) \/ onLogStableFails(i, job)
    BY <1>3 DEF WalWrite, AppendEntriesResume, AppendEntriesWalFailed, onLogStable, onLogStableFails,
       RolesKept
  <1>4. CASE Restart(i)
    BY <1>4 DEF Restart, RolesKept, LogInv, NodeTypes
  <1>5. QED
    BY <1>1, <1>2, <1>3, <1>4

LEMMA RolesCalls ==
    ASSUME LogInv, NEW i \in Server,
           \/ \E m \in voteArgs : RequestVote(i, m)
           \/ \E r \in voteReplies : handleRequestVoteResponse(i, r)
           \/ \E m \in appendArgs : AppendEntries(i, m)
           \/ \E r \in appendReplies : handleAppendEntries(i, r)
           \/ \E m \in snapArgs : InstallSnapshot(i, m)
           \/ \E r \in snapReplies : leaderSendSnapShotHandler(i, r)
    PROVE  RolesKept \/ Wins(i)
  <1>1. CASE \E m \in voteArgs : RequestVote(i, m)
    <2>1. PICK m \in voteArgs : RequestVote(i, m)
      BY <1>1
    <2>2. elected' = elected /\ m.term \in Nat /\ m_currentTerm[i] \in Nat
      BY <2>1 DEF RequestVote, LogInv, NodeTypes, VoteCallTypes, Positive
    <2>3. CASE RequestVoteStale(i, m)
      BY <2>2, <2>3 DEF RequestVoteStale, electionVars, RolesKept
    <2>4. CASE RequestVoteCurrent(i, m)
      <3>1. votes \subseteq votes'
        BY <2>4 DEF RequestVoteCurrent
      <3>2. /\ m_state' = [m_state EXCEPT ![i] = IF m.term > m_currentTerm[i] THEN Follower ELSE @]
            /\ m_currentTerm' = [m_currentTerm EXCEPT ![i] = m.term]
            /\ m.term >= m_currentTerm[i]
        BY <2>4 DEF RequestVoteCurrent
      <3>3. ASSUME NEW k \in Server, m_state'[k] # Follower
            PROVE  m_state'[k] = m_state[k] /\ m_currentTerm'[k] = m_currentTerm[k]
        <4>1. CASE k = i
          <5>1. ~(m.term > m_currentTerm[i])
            BY <3>2, <3>3, <4>1 DEF LogInv, NodeTypes
          <5>2. m.term = m_currentTerm[i]
            BY <2>2, <3>2, <5>1
          <5>3. QED
            BY <3>2, <4>1, <5>1, <5>2 DEF LogInv, NodeTypes
        <4>2. CASE k # i
          BY <3>2, <4>2 DEF LogInv, NodeTypes
        <4>3. QED
          BY <4>1, <4>2
      <3>4. QED
        BY <2>2, <3>1, <3>3 DEF RolesKept
    <2>5. QED
      BY <2>1, <2>3, <2>4 DEF RequestVote
  <1>2. CASE \E r \in voteReplies : handleRequestVoteResponse(i, r)
    <2>1. PICK r \in voteReplies : handleRequestVoteResponse(i, r)
      BY <1>2
    <2>2. CASE VoteResponseNewTerm(i, r)
      BY <2>2, RolesFollow DEF VoteResponseNewTerm
    <2>3. CASE VoteResponseCounted(i, r)
      BY <2>3 DEF VoteResponseCounted, VoteCounts, RolesKept, Wins
    <2>4. QED
      BY <2>1, <2>2, <2>3 DEF handleRequestVoteResponse
  <1>3. CASE \E m \in appendArgs : AppendEntries(i, m)
    <2>1. PICK m \in appendArgs : AppendEntries(i, m)
      BY <1>3
    <2>2. UNCHANGED <<votes, elected>>
      BY <2>1 DEF AppendEntries, historyVars
    <2>3. FollowTerm(i, m.term) \/ UNCHANGED electionVars
      BY <2>1 DEF AppendEntries, AppendEntriesStale, AppendEntriesMismatch, AppendEntriesMatch
    <2>4. QED
      BY <2>2, <2>3, RolesFollow DEF electionVars, RolesKept
  <1>4. CASE \E r \in appendReplies : handleAppendEntries(i, r)
    <2>1. PICK r \in appendReplies : handleAppendEntries(i, r)
      BY <1>4
    <2>2. UNCHANGED <<votes, elected>>
      BY <2>1 DEF handleAppendEntries, historyVars
    <2>3. StepDown(i, r.term) \/ UNCHANGED electionVars
      BY <2>1 DEF handleAppendEntries, AppendResponseNewTerm, AppendResponseFailure,
         AppendResponseSuccess
    <2>4. QED
      BY <2>2, <2>3, RolesFollow DEF electionVars, RolesKept
  <1>5. CASE \E m \in snapArgs : InstallSnapshot(i, m)
    <2>1. PICK m \in snapArgs : InstallSnapshot(i, m)
      BY <1>5
    <2>2. UNCHANGED <<votes, elected>>
      BY <2>1 DEF InstallSnapshot, historyVars
    <2>3. FollowTerm(i, m.term) \/ UNCHANGED electionVars
      BY <2>1 DEF InstallSnapshot, InstallSnapshotStale, InstallSnapshotCovered,
         InstallSnapshotInstalls
    <2>4. QED
      BY <2>2, <2>3, RolesFollow DEF electionVars, RolesKept
  <1>6. CASE \E r \in snapReplies : leaderSendSnapShotHandler(i, r)
    <2>1. PICK r \in snapReplies : leaderSendSnapShotHandler(i, r)
      BY <1>6
    <2>2. UNCHANGED <<votes, elected>>
      BY <2>1 DEF leaderSendSnapShotHandler, historyVars
    <2>3. StepDown(i, r.term) \/ UNCHANGED electionVars
      BY <2>1 DEF leaderSendSnapShotHandler
    <2>4. QED
      BY <2>2, <2>3, RolesFollow DEF electionVars, RolesKept
  <1>7. QED
    BY <1>1, <1>2, <1>3, <1>4, <1>5, <1>6

\* The roles after any step.
LEMMA Roles ==
    ASSUME LogInv, [Next]_vars
    PROVE  RolesKept \/ \E i \in Server : doElection(i) \/ Wins(i)
  <1>1. CASE LoseCall \/ UNCHANGED vars
    BY <1>1 DEF LoseCall, vars, electionVars, historyVars, RolesKept
  <1>2. QED
    BY <1>1, RolesLocal, RolesCalls DEF Next

\* Who leads was elected, and nobody is elected twice in a term.
LEMMA RolesElected ==
    ASSUME ElectionInv, LogInv, LeadersElected, ElectedVoted, [Next]_vars
    PROVE  LeadersElected' /\ ElectedVoted' /\ elected \subseteq elected'
  <1>1. CASE RolesKept
    BY <1>1 DEF RolesKept, LeadersElected, ElectedVoted, Leader, Candidate, Follower
  <1>2. CASE \E i \in Server : doElection(i)
    <2>1. PICK i \in Server : doElection(i)
      BY <1>2
    <2>2. /\ m_state' = [m_state EXCEPT ![i] = Candidate]
          /\ m_currentTerm' = [m_currentTerm EXCEPT ![i] = @ + 1]
          /\ elected' = elected /\ votes' = votes
      BY <2>1 DEF doElection
    <2>3. <<m_currentTerm[i] + 1, i>> \notin elected
      <3>1. SUFFICES ASSUME <<m_currentTerm[i] + 1, i>> \in elected PROVE FALSE
        OBVIOUS
      <3>2. PICK t \in Nat : t = m_currentTerm[i] + 1 /\ m_currentTerm[i] \in Nat
        BY DEF LogInv, NodeTypes
      <3>3. PICK v \in votes : v = [voter |-> i, term |-> t, candidate |-> i]
        BY <3>1, <3>2 DEF ElectedVoted
      <3>4. v.voter = i /\ v.term = t
        BY <3>3
      <3>5. m_currentTerm[i] >= t
        BY <3>2, <3>4 DEF ElectionInv, VotesHeld, Remembers
      <3>6. QED
        BY <3>2, <3>5
    <2>4. LeadersElected'
      BY <2>2, <2>3 DEF LeadersElected, LogInv, NodeTypes, Leader, Candidate
    <2>5. QED
      BY <2>2, <2>4 DEF ElectedVoted
  <1>3. CASE \E i \in Server : Wins(i)
    <2>1. PICK i \in Server : Wins(i)
      BY <1>3
    <2>2. PICK t \in Nat : t = m_currentTerm[i]
      BY DEF LogInv, NodeTypes
    <2>3. /\ m_state' = [m_state EXCEPT ![i] = Leader]
          /\ m_currentTerm' = m_currentTerm
          /\ elected' = elected \cup {<<t, i>>}
          /\ votes' = votes \cup {[voter |-> i, term |-> t, candidate |-> i]}
      BY <2>1, <2>2 DEF Wins, BecomeLeader
    <2>4. LeadersElected'
      BY <2>2, <2>3 DEF LeadersElected, LogInv, NodeTypes, Leader, Candidate
    <2>5. ElectedVoted'
      <3>1. ASSUME NEW e \in elected'
            PROVE  [voter |-> e[2], term |-> e[1], candidate |-> e[2]] \in votes'
        <4>1. CASE e \in elected
          BY <2>3, <4>1 DEF ElectedVoted
        <4>2. CASE e = <<t, i>>
          <5>1. e[1] = t /\ e[2] = i
            BY <4>2
          <5>2. QED
            BY <2>3, <5>1
        <4>3. QED
          BY <2>3, <4>1, <4>2
      <3>2. QED
        BY <3>1 DEF ElectedVoted
    <2>6. QED
      BY <2>3, <2>4, <2>5
  <1>4. QED
    BY <1>1, <1>2, <1>3, Roles

----------------------------------------------------------------------------
\* Where requests and the handlers that wait for the WAL come from.

\* A new request is one of a heartbeat of a leader.
NewRequest(m) ==
    \E i \in Server : \E j \in Server \ {i} :
        /\ doHeartBeat(i)
        /\ m = AppendEntriesArgs(i, j)
        /\ HeartBeatAsserts(i, j)
        /\ ~(m_nextIndex[i][j] <= m_lastSnapshotIndex[i])

\* A new handler of node i has just taken its request.
NewHandler(i, job) ==
    \E m \in appendArgs :
        /\ AppendEntries(i, m) /\ AppendEntriesMatch(i, m)
        /\ FollowTerm(i, m.term) /\ ~SameTermOtherCommand(i, m)
        /\ job.args = m /\ job.pending = PendingWrites(i, m)

OldHandler(i, job) ==
    \E old \in jobs[i] :
        old.kind = "append" /\ old.args = job.args /\ old.pending = job.pending

Origins ==
    /\ \A m \in appendArgs' : m \in appendArgs \/ NewRequest(m)
    /\ \A i \in Server : \A job \in jobs'[i] :
           job.kind = "append" => OldHandler(i, job) \/ NewHandler(i, job)

LEMMA OriginsQuiet ==
    ASSUME appendArgs' \subseteq appendArgs, \A i \in Server : jobs'[i] \subseteq jobs[i]
    PROVE  Origins
  BY DEF Origins, OldHandler

LEMMA OriginsLocal ==
    ASSUME LogInv, NEW i \in Server,
           \/ doElection(i) \/ LoadElectionState(i) \/ PersistElection(i) \/ doHeartBeatAborts(i)
           \/ applierTicker(i) \/ Restart(i)
           \/ \E index \in SnapshotAt : Snapshot(i, index)
           \/ \E j \in Server : leaderSendSnapShot(i, j)
           \/ \E job \in jobs[i] :
                  \/ AppendEntriesResume(i, job) \/ AppendEntriesWalFailed(i, job)
                  \/ onLogStable(i, job) \/ onLogStableFails(i, job)
    PROVE  Origins
  <1> USE DEF appendMsgs, threadVars
  <1>1. CASE \/ doElection(i) \/ LoadElectionState(i) \/ PersistElection(i) \/ doHeartBeatAborts(i)
             \/ applierTicker(i)
             \/ \E index \in SnapshotAt : Snapshot(i, index)
             \/ \E j \in Server : leaderSendSnapShot(i, j)
    <2>1. UNCHANGED <<appendArgs, jobs>>
      BY <1>1 DEF doElection, LoadElectionState, PersistElection, doHeartBeatAborts, Abort,
         applierTicker, Snapshot, leaderSendSnapShot
    <2>2. QED
      BY <2>1, OriginsQuiet
  <1>2. CASE Restart(i)
    BY <1>2, OriginsQuiet DEF Restart, LogInv, JobTypes
  <1>3. CASE \E job \in jobs[i] :
                 \/ AppendEntriesResume(i, job) \/ AppendEntriesWalFailed(i, job)
                 \/ onLogStable(i, job) \/ onLogStableFails(i, job)
    <2>1. PICK job \in jobs[i] : /\ jobs' = [jobs EXCEPT ![i] = @ \ {job}]
                                 /\ appendArgs' = appendArgs
      BY <1>3 DEF AppendEntriesResume, AppendEntriesWalFailed, onLogStable, onLogStableFails
    <2>2. \A k \in Server : jobs'[k] \subseteq jobs[k]
      BY <2>1 DEF LogInv, JobTypes
    <2>3. QED
      BY <2>1, <2>2, OriginsQuiet
  <1>4. QED
    BY <1>1, <1>2, <1>3

LEMMA OriginsCalls ==
    ASSUME NEW i \in Server,
           \/ \E m \in voteArgs : RequestVote(i, m)
           \/ \E r \in voteReplies : handleRequestVoteResponse(i, r)
           \/ \E r \in appendReplies : handleAppendEntries(i, r)
           \/ \E m \in snapArgs : InstallSnapshot(i, m)
           \/ \E r \in snapReplies : leaderSendSnapShotHandler(i, r)
    PROVE  Origins
  <1>1. UNCHANGED <<appendArgs, jobs>>
    BY DEF RequestVote, handleRequestVoteResponse, handleAppendEntries, InstallSnapshot,
       leaderSendSnapShotHandler, appendMsgs, threadVars
  <1>2. QED
    BY <1>1, OriginsQuiet

LEMMA OriginsNew ==
    ASSUME LogInv, NEW i \in Server,
           \/ doHeartBeat(i)
           \/ \E cmd \in Command : Start(i, cmd)
           \/ \E job \in jobs[i] : WalWrite(i, job)
           \/ \E m \in appendArgs : AppendEntries(i, m)
    PROVE  Origins
  <1>1. CASE doHeartBeat(i)
    <2>1. jobs' = jobs
      BY <1>1 DEF doHeartBeat
    <2>2. ASSUME NEW m \in appendArgs', m \notin appendArgs PROVE NewRequest(m)
      <3>1. PICK j \in Server \ {i} :
                /\ m = AppendEntriesArgs(i, j)
                /\ HeartBeatAsserts(i, j)
                /\ ~(m_nextIndex[i][j] <= m_lastSnapshotIndex[i])
        BY <1>1, <2>2 DEF doHeartBeat
      <3>2. QED
        BY <1>1, <3>1 DEF NewRequest
    <2>3. QED
      BY <2>1, <2>2 DEF Origins, OldHandler
  <1>2. CASE \E cmd \in Command : Start(i, cmd)
    <2>1. PICK job : /\ job.kind = "start"
                     /\ jobs' = [jobs EXCEPT ![i] = @ \cup {job}]
                     /\ appendArgs' = appendArgs
      <3>1. PICK cmd \in Command : Start(i, cmd)
        BY <1>2
      <3>2. PICK job : job = [kind |-> "start", entry |-> NewEntry(i, cmd), written |-> FALSE]
        OBVIOUS
      <3>3. jobs' = [jobs EXCEPT ![i] = @ \cup {job}]
        BY <3>1, <3>2, Zenon DEF Start
      <3>4. job.kind = "start"
        BY <3>2
      <3>5. QED
        BY <3>1, <3>3, <3>4 DEF Start, appendMsgs
    <2>2. QED
      BY <2>1 DEF Origins, OldHandler, LogInv, JobTypes
  <1>3. CASE \E job \in jobs[i] : WalWrite(i, job)
    <2>1. PICK job \in jobs[i] : WalWrite(i, job)
      BY <1>3
    <2>2. PICK done : done = [job EXCEPT !.written = TRUE]
      OBVIOUS
    <2>3. jobs' = [jobs EXCEPT ![i] = (@ \ {job}) \cup {done}]
      BY <2>1, <2>2, Zenon DEF WalWrite
    <2>4. JobOK(i, job)
      BY DEF LogInv, JobTypes
    <2>5. done.kind = job.kind
      BY <2>2, <2>4 DEF JobOK
    <2>6. job.kind = "append" => done.args = job.args /\ done.pending = job.pending
      BY <2>2, <2>4 DEF JobOK
    <2>7. appendArgs' = appendArgs
      BY <2>1 DEF WalWrite, appendMsgs
    <2>8. QED
      BY <2>3, <2>5, <2>6, <2>7 DEF Origins, OldHandler, LogInv, JobTypes
  <1>4. CASE \E m \in appendArgs : AppendEntries(i, m)
    <2>1. PICK m \in appendArgs : AppendEntries(i, m)
      BY <1>4
    <2>2. appendArgs' \subseteq appendArgs
      BY <2>1 DEF AppendEntries
    <2>3. CASE UNCHANGED jobs
      BY <2>2, <2>3, OriginsQuiet
    <2>4. CASE ~UNCHANGED jobs
      <3>1. AppendEntriesMatch(i, m)
        BY <2>1, <2>4 DEF AppendEntries, AppendEntriesStale, AppendEntriesMismatch
      <3>2. ~SameTermOtherCommand(i, m)
        BY <2>4, <3>1 DEF AppendEntriesMatch
      <3>3. PICK slot, written :
                jobs' = [jobs EXCEPT ![i] = @ \cup
                            {[kind |-> "append", slot |-> slot, args |-> m,
                              pending |-> PendingWrites(i, m), written |-> written]}]
        BY <3>1, <3>2, Zenon DEF AppendEntriesMatch
      <3>4. PICK job : job = [kind |-> "append", slot |-> slot, args |-> m,
                              pending |-> PendingWrites(i, m), written |-> written]
        OBVIOUS
      <3>5. jobs' = [jobs EXCEPT ![i] = @ \cup {job}]
        BY <3>3, <3>4, Zenon
      <3>6. job.kind = "append" /\ job.args = m /\ job.pending = PendingWrites(i, m)
        BY <3>4
      <3>7. FollowTerm(i, m.term)
        BY <3>1, <3>2 DEF AppendEntriesMatch
      <3>8. NewHandler(i, job)
        BY <2>1, <3>1, <3>2, <3>6, <3>7, Zenon DEF NewHandler
      <3>9. QED
        BY <2>2, <3>5, <3>8 DEF Origins, OldHandler, LogInv, JobTypes
    <2>5. QED
      BY <2>3, <2>4
  <1>5. QED
    BY <1>1, <1>2, <1>3, <1>4

\* Requests and handlers after any step.
LEMMA OriginsNext ==
    ASSUME LogInv, [Next]_vars
    PROVE  Origins
  <1>1. CASE LoseCall \/ UNCHANGED vars
    <2>1. appendArgs' \subseteq appendArgs /\ jobs' = jobs
      BY <1>1 DEF LoseCall, vars, appendMsgs, threadVars
    <2>2. QED
      BY <2>1, OriginsQuiet
  <1>2. QED
    BY <1>1, OriginsLocal, OriginsCalls, OriginsNew DEF Next

LEMMA RequestsElectedNext ==
    ASSUME LogInv, LeadersElected, RequestsElected, elected \subseteq elected', [Next]_vars
    PROVE  RequestsElected'
  <1>1. ASSUME NEW m \in appendArgs' PROVE <<m.term, m.from>> \in elected'
    <2>1. CASE m \in appendArgs
      BY <2>1 DEF RequestsElected
    <2>2. CASE NewRequest(m)
      <3>1. PICK i \in Server, j \in Server : doHeartBeat(i) /\ m = AppendEntriesArgs(i, j)
        BY <2>2 DEF NewRequest
      <3>2. m.from = i /\ m.term = m_currentTerm[i]
        BY <3>1 DEF AppendEntriesArgs
      <3>3. m_state[i] = Leader
        BY <3>1 DEF doHeartBeat
      <3>4. QED
        BY <3>2, <3>3 DEF LeadersElected
    <2>3. QED
      BY <2>1, <2>2, OriginsNext DEF Origins
  <1>2. ASSUME NEW i \in Server, NEW job \in jobs'[i], job.kind = "append"
        PROVE  <<job.args.term, job.args.from>> \in elected'
    <2>1. CASE OldHandler(i, job)
      BY <2>1 DEF OldHandler, RequestsElected
    <2>2. CASE NewHandler(i, job)
      BY <2>2 DEF NewHandler, RequestsElected
    <2>3. QED
      BY <1>2, <2>1, <2>2, OriginsNext DEF Origins
  <1>3. QED
    BY <1>1, <1>2 DEF RequestsElected

----------------------------------------------------------------------------
\* The log of a leader.

\* Node i keeps the entries above its snapshot.
LogKept(i) ==
    \A k \in m_lastSnapshotIndex'[i] + 1 .. LastLogIndex(i) :
        InLog(i, k)' /\ EntryAt(i, k)' = EntryAt(i, k)

LEMMA LogSame ==
    ASSUME LogInv, LogInv', NEW i \in Server, m_logs'[i] = m_logs[i],
           m_lastSnapshotIndex'[i] = m_lastSnapshotIndex[i]
    PROVE  LogKept(i)
  <1>1. LastLogIndex(i) \in Nat /\ m_lastSnapshotIndex[i] \in Nat
    BY LastIndexFact DEF LogInv, NodeTypes
  <1>2. ASSUME NEW k \in m_lastSnapshotIndex[i] + 1 .. LastLogIndex(i)
        PROVE  InLog(i, k)' /\ EntryAt(i, k)' = EntryAt(i, k)
    <2>1. k \in Int /\ m_lastSnapshotIndex[i] < k /\ k <= LastLogIndex(i)
      BY <1>1
    <2>2. InLog(i, k)
      BY <2>1, EntryAtFact DEF LogInv
    <2>3. QED
      BY <2>2 DEF InLog, EntryAt
  <1>3. QED
    BY <1>2 DEF LogKept

LEMMA LogKeptStart ==
    ASSUME LogInv, LogInv', NEW i \in Server, NEW cmd \in Command, Start(i, cmd)
    PROVE  LogKept(i) /\ LastLogIndex(i)' = LastLogIndex(i) + 1
  <1>1. PICK L \in Seq(Entry), s \in Nat : L = m_logs[i] /\ s = m_lastSnapshotIndex[i]
    BY DEF LogInv, LogTypes, NodeTypes
  <1>2. m_logs'[i] = Append(L, NewEntry(i, cmd)) /\ m_lastSnapshotIndex'[i] = s
    BY <1>1 DEF Start, LogInv, LogTypes
  <1>3. LastLogIndex(i) = s + Len(L) /\ Len(L) \in Nat
    BY <1>1, LastIndexFact DEF LogInv
  <1>4. PICK M : M = Append(L, NewEntry(i, cmd))
    OBVIOUS
  <1>5. Len(M) = Len(L) + 1 /\ \A n \in 1 .. Len(L) : M[n] = L[n]
    BY <1>4
  <1>6. LastLogIndex(i)' = s + Len(M)
    <2>1. LastLogIndex(i)' = (m_lastSnapshotIndex[i] + Len(m_logs[i]))'
      BY LastIndexFactAfter DEF LogInv
    <2>2. QED
      BY <1>2, <1>4, <2>1
  <1>7. ASSUME NEW k \in s + 1 .. LastLogIndex(i)
        PROVE  InLog(i, k)' /\ EntryAt(i, k)' = EntryAt(i, k)
    <2>1. k - s \in 1 .. Len(L) /\ k - s \in 1 .. Len(M)
      BY <1>3, <1>5
    <2>2. InLog(i, k)'
      BY <1>2, <1>4, <2>1 DEF InLog
    <2>3. EntryAt(i, k)' = M[k - s] /\ EntryAt(i, k) = L[k - s]
      BY <1>1, <1>2, <1>4 DEF EntryAt
    <2>4. QED
      BY <1>5, <2>1, <2>2, <2>3
  <1>8. LogKept(i)
    BY <1>2, <1>7 DEF LogKept
  <1>9. QED
    BY <1>3, <1>5, <1>6, <1>8

LEMMA LogKeptAbove ==
    ASSUME LogInv, LogInv', NEW i \in Server, NEW index \in Nat, index > m_lastSnapshotIndex[i],
           m_logs' = [m_logs EXCEPT ![i] = LogAbove(i, index)],
           m_lastSnapshotIndex' = [m_lastSnapshotIndex EXCEPT ![i] = index]
    PROVE  /\ LogKept(i)
           /\ LastLogIndex(i)' = IF index < LastLogIndex(i) THEN LastLogIndex(i) ELSE index
  <1>1. PICK M \in Seq(Entry) :
            /\ M = LogAbove(i, index)
            /\ Len(M) = IF index < LastLogIndex(i) THEN LastLogIndex(i) - index ELSE 0
            /\ \A k \in 1 .. Len(M) : M[k] = EntryAt(i, index + k)
    BY LogAboveFacts
  <1>2. m_logs'[i] = M /\ m_lastSnapshotIndex'[i] = index
    BY <1>1 DEF LogInv, LogTypes, NodeTypes
  <1>3. LastLogIndex(i) \in Nat
    BY LastIndexFact DEF LogInv
  <1>4. ASSUME NEW k \in index + 1 .. LastLogIndex(i)
        PROVE  InLog(i, k)' /\ EntryAt(i, k)' = EntryAt(i, k)
    <2>1. PICK n \in Int : n = k - index
      BY <1>3
    <2>2. n \in 1 .. Len(M) /\ index + n = k
      BY <1>1, <1>3, <2>1
    <2>3. M[n] = EntryAt(i, k)
      BY <1>1, <2>2
    <2>4. InLog(i, k)' /\ EntryAt(i, k)' = M[n]
      BY <1>2, <2>1, <2>2 DEF InLog, EntryAt
    <2>5. QED
      BY <2>3, <2>4
  <1>5. LogKept(i)
    BY <1>2, <1>4 DEF LogKept
  <1>6. LastLogIndex(i)' = index + Len(M)
    <2>1. LastLogIndex(i)' = (m_lastSnapshotIndex[i] + Len(m_logs[i]))'
      BY LastIndexFactAfter DEF LogInv
    <2>2. QED
      BY <1>2, <2>1
  <1>7. QED
    BY <1>1, <1>3, <1>5, <1>6

\* What a step does to the log of a node that does not become a follower.
LogChange(i) ==
    \/ m_logs'[i] = m_logs[i] /\ m_lastSnapshotIndex'[i] = m_lastSnapshotIndex[i]
    \/ m_state'[i] = Follower
    \/ \E cmd \in Command : Start(i, cmd)
    \/ \E index \in SnapshotAt : Snapshot(i, index) /\ InLog(i, index)
    \/ \E job \in jobs[i] : job.kind = "append" /\ AppendEntriesApplies(i, job)

LEMMA LogChangeLocal ==
    ASSUME LogInv, NEW i \in Server,
           \/ doElection(i) \/ LoadElectionState(i) \/ PersistElection(i) \/ doHeartBeat(i)
           \/ doHeartBeatAborts(i) \/ applierTicker(i)
           \/ \E j \in Server : leaderSendSnapShot(i, j)
           \/ \E job \in jobs[i] : WalWrite(i, job) \/ onLogStable(i, job)
           \/ \E m \in voteArgs : RequestVote(i, m)
           \/ \E r \in voteReplies : handleRequestVoteResponse(i, r)
           \/ \E m \in appendArgs : AppendEntries(i, m)
           \/ \E r \in appendReplies : handleAppendEntries(i, r)
           \/ \E r \in snapReplies : leaderSendSnapShotHandler(i, r)
    PROVE  UNCHANGED <<m_logs, m_lastSnapshotIndex>>
  <1> USE DEF logVars
  <1>1. CASE \/ doElection(i) \/ LoadElectionState(i) \/ PersistElection(i) \/ doHeartBeat(i)
             \/ doHeartBeatAborts(i) \/ applierTicker(i)
             \/ \E j \in Server : leaderSendSnapShot(i, j)
             \/ \E job \in jobs[i] : WalWrite(i, job) \/ onLogStable(i, job)
    BY <1>1 DEF doElection, LoadElectionState, PersistElection, doHeartBeat, doHeartBeatAborts,
       Abort, applierTicker, leaderSendSnapShot, WalWrite, onLogStable
  <1>2. CASE \/ \E m \in voteArgs : RequestVote(i, m)
             \/ \E r \in voteReplies : handleRequestVoteResponse(i, r)
             \/ \E m \in appendArgs : AppendEntries(i, m)
             \/ \E r \in appendReplies : handleAppendEntries(i, r)
             \/ \E r \in snapReplies : leaderSendSnapShotHandler(i, r)
    BY <1>2 DEF RequestVote, handleRequestVoteResponse, AppendEntries, handleAppendEntries,
       leaderSendSnapShotHandler
  <1>3. QED
    BY <1>1, <1>2

LEMMA LogChangeWrites ==
    ASSUME LogInv, walFailures = 0, NoFailedWrites, NEW i \in Server,
           \/ Restart(i)
           \/ \E cmd \in Command : Start(i, cmd)
           \/ \E index \in SnapshotAt : Snapshot(i, index)
           \/ \E job \in jobs[i] :
                  \/ AppendEntriesResume(i, job) \/ AppendEntriesWalFailed(i, job)
                  \/ onLogStableFails(i, job)
           \/ \E m \in snapArgs : InstallSnapshot(i, m)
    PROVE  \A k \in Server : LogChange(k)
  <1> SUFFICES ASSUME NEW k \in Server PROVE LogChange(k)
    OBVIOUS
  <1> USE DEF logVars
  <1>1. CASE k # i
    <2>1. m_logs'[k] = m_logs[k] /\ m_lastSnapshotIndex'[k] = m_lastSnapshotIndex[k]
      <3> USE DEF LogInv, LogTypes, NodeTypes
      <3>1. CASE Restart(i)
        BY <1>1, <3>1 DEF Restart
      <3>2. CASE \E cmd \in Command : Start(i, cmd)
        BY <1>1, <3>2 DEF Start
      <3>3. CASE \E index \in SnapshotAt : Snapshot(i, index)
        <4>1. \/ UNCHANGED <<m_logs, m_lastSnapshotIndex>>
              \/ \E new, idx : /\ m_logs' = [m_logs EXCEPT ![i] = new]
                              /\ m_lastSnapshotIndex' = [m_lastSnapshotIndex EXCEPT ![i] = idx]
          BY <3>3, Zenon DEF Snapshot
        <4>2. QED
          BY <1>1, <4>1
      <3>4. CASE \E job \in jobs[i] : \/ AppendEntriesResume(i, job)
                                      \/ AppendEntriesWalFailed(i, job)
                                      \/ onLogStableFails(i, job)
        <4>1. CASE \E job \in jobs[i] : AppendEntriesResume(i, job)
          <5>1. /\ UNCHANGED m_lastSnapshotIndex
                /\ UNCHANGED m_logs \/ \E new : m_logs' = [m_logs EXCEPT ![i] = new]
            BY <4>1, Zenon DEF AppendEntriesResume, AppendEntriesGivesUp, AppendEntriesApplies
          <5>2. QED
            BY <1>1, <5>1
        <4>2. CASE \E job \in jobs[i] : AppendEntriesWalFailed(i, job)
          <5>1. UNCHANGED <<m_lastSnapshotIndex, m_logs>>
            BY <4>2, Zenon DEF AppendEntriesWalFailed, AppendEntriesGivesUp
          <5>2. QED
            BY <5>1
        <4>3. CASE \E job \in jobs[i] : onLogStableFails(i, job)
          BY <1>1, <4>3 DEF onLogStableFails
        <4>4. QED
          BY <3>4, <4>1, <4>2, <4>3
      <3>5. CASE \E m \in snapArgs : InstallSnapshot(i, m)
        <4>1. \/ UNCHANGED <<m_logs, m_lastSnapshotIndex>>
              \/ \E new, index : /\ m_logs' = [m_logs EXCEPT ![i] = new]
                                 /\ m_lastSnapshotIndex' = [m_lastSnapshotIndex EXCEPT ![i] = index]
          BY <3>5 DEF InstallSnapshot, InstallSnapshotStale, InstallSnapshotCovered,
             InstallSnapshotInstalls
        <4>2. QED
          BY <1>1, <4>1
      <3>6. QED
        BY <3>1, <3>2, <3>3, <3>4, <3>5
    <2>2. QED
      BY <2>1 DEF LogChange
  <1>2. CASE k = i
    <2>1. CASE Restart(i)
      <3>1. m_state'[i] = Follower
        BY <2>1 DEF Restart, LogInv, NodeTypes
      <3>2. QED
        BY <1>2, <3>1 DEF LogChange
    <2>2. CASE \E cmd \in Command : Start(i, cmd)
      BY <1>2, <2>2 DEF LogChange
    <2>3. CASE \E index \in SnapshotAt : Snapshot(i, index)
      <3>1. PICK index \in SnapshotAt : Snapshot(i, index)
        BY <2>3
      <3>2. CASE InLog(i, index)
        BY <1>2, <3>1, <3>2 DEF LogChange
      <3>3. CASE ~InLog(i, index)
        <4>1. UNCHANGED <<m_logs, m_lastSnapshotIndex>>
          BY <3>1, <3>3 DEF Snapshot
        <4>2. QED
          BY <4>1 DEF LogChange
      <3>4. QED
        BY <3>2, <3>3
    <2>4. CASE \E job \in jobs[i] : \/ AppendEntriesResume(i, job)
                                    \/ AppendEntriesWalFailed(i, job)
                                    \/ onLogStableFails(i, job)
      <3>1. PICK job \in jobs[i] : AppendEntriesResume(i, job)
        BY <2>4 DEF AppendEntriesWalFailed, onLogStableFails, NoFailedWrites
      <3>2. m_lastSnapshotIndex' = m_lastSnapshotIndex /\ job.kind = "append"
        BY <3>1 DEF AppendEntriesResume, AppendJobs
      <3>3. CASE AppendEntriesGivesUp(i, job, TRUE)
        BY <3>2, <3>3 DEF AppendEntriesGivesUp, LogChange
      <3>4. CASE AppendEntriesApplies(i, job)
        BY <1>2, <3>2, <3>4 DEF LogChange
      <3>5. QED
        BY <3>1, <3>3, <3>4 DEF AppendEntriesResume
    <2>5. CASE \E m \in snapArgs : InstallSnapshot(i, m)
      <3>1. PICK m \in snapArgs : InstallSnapshot(i, m)
        BY <2>5
      <3>2. UNCHANGED logVars \/ FollowTerm(i, m.term)
        BY <3>1 DEF InstallSnapshot, InstallSnapshotStale, InstallSnapshotCovered,
           InstallSnapshotInstalls
      <3>3. FollowTerm(i, m.term) => m_state'[i] = Follower
        BY DEF FollowTerm, LogInv, NodeTypes
      <3>4. QED
        BY <1>2, <3>2, <3>3 DEF LogChange
    <2>6. QED
      BY <2>1, <2>2, <2>3, <2>4, <2>5
  <1>3. QED
    BY <1>1, <1>2

LEMMA LogChangeNext ==
    ASSUME LogInv, walFailures = 0, NoFailedWrites, [Next]_vars
    PROVE  \A k \in Server : LogChange(k)
  <1>1. CASE LoseCall \/ UNCHANGED vars
    BY <1>1 DEF LoseCall, vars, logVars, LogChange
  <1>2. ASSUME UNCHANGED <<m_logs, m_lastSnapshotIndex>> PROVE \A k \in Server : LogChange(k)
    BY <1>2 DEF LogChange
  <1>3. QED
    BY <1>1, <1>2, LogChangeLocal, LogChangeWrites DEF Next

\* A leader never takes the entries of a request: the one elected in its term is itself, and it
\* sends no request to itself.
LEMMA LeaderKeepsLog ==
    ASSUME ElectionInv, LogInv, LogInv', EntryInv, NoFailedWrites, [Next]_vars,
           NEW i \in Server, m_state[i] = Leader, m_state'[i] = Leader
    PROVE  LogKept(i)
  <1>1. LogChange(i)
    BY LogChangeNext DEF EntryInv
  <1>2. CASE m_logs'[i] = m_logs[i] /\ m_lastSnapshotIndex'[i] = m_lastSnapshotIndex[i]
    BY <1>2, LogSame
  <1>3. CASE \E cmd \in Command : Start(i, cmd)
    BY <1>3, LogKeptStart
  <1>4. CASE \E index \in SnapshotAt : Snapshot(i, index) /\ InLog(i, index)
    <2>1. PICK index \in SnapshotAt : Snapshot(i, index) /\ InLog(i, index)
      BY <1>4
    <2>2. /\ index \in Nat /\ index > m_lastSnapshotIndex[i]
          /\ m_logs' = [m_logs EXCEPT ![i] = LogAbove(i, index)]
          /\ m_lastSnapshotIndex' = [m_lastSnapshotIndex EXCEPT ![i] = index]
      BY <2>1, SnapshotAtAssumption DEF Snapshot
    <2>3. QED
      BY <2>2, LogKeptAbove
  <1>5. CASE \E job \in jobs[i] : job.kind = "append" /\ AppendEntriesApplies(i, job)
    <2>1. PICK job \in jobs[i] : job.kind = "append" /\ AppendEntriesApplies(i, job)
      BY <1>5
    <2>2. m_currentTerm[i] = job.args.term
      BY <2>1 DEF AppendEntriesApplies, StableReplyFails
    <2>3. job.args.to = i /\ job.args.from \in Server /\ job.args.from # i
      BY <2>1 DEF LogInv, JobTypes, JobOK, AppendArgsOK
    <2>4. <<m_currentTerm[i], job.args.from>> \in elected
      BY <2>1, <2>2 DEF EntryInv, RequestsElected
    <2>5. <<m_currentTerm[i], i>> \in elected
      BY DEF EntryInv, LeadersElected
    <2>6. PICK e \in elected, f \in elected : /\ e = <<m_currentTerm[i], job.args.from>>
                                              /\ f = <<m_currentTerm[i], i>>
      BY <2>4, <2>5
    <2>7. e[1] = f[1] /\ e[2] = job.args.from /\ f[2] = i
      BY <2>6
    <2>8. e[2] = f[2]
      BY <2>7, SafetyFromInv DEF ElectionSafety
    <2>9. QED
      BY <2>3, <2>7, <2>8
  <1>6. m_state'[i] # Follower
    BY DEF Leader, Follower
  <1>7. QED
    BY <1>1, <1>2, <1>3, <1>4, <1>5, <1>6 DEF LogChange

LEMMA LeaderLastGrows ==
    ASSUME LogInv, LogInv', NEW i \in Server, LogKept(i)
    PROVE  LastLogIndex(i)' >= LastLogIndex(i) /\ LastLogIndex(i)' \in Nat
  <1>1. /\ LastLogIndex(i)' = (m_lastSnapshotIndex[i] + Len(m_logs[i]))'
        /\ LastLogIndex(i)' \in Nat
    BY LastIndexFactAfter DEF LogInv
  <1>2. LastLogIndex(i) \in Nat
    BY LastIndexFact DEF LogInv
  <1>3. PICK s \in Nat, n \in Nat : s = m_lastSnapshotIndex'[i] /\ n = Len(m_logs'[i])
    <2>1. m_logs'[i] \in Seq(Entry) /\ m_lastSnapshotIndex'[i] \in Nat
      BY DEF LogInv, LogTypes, NodeTypes
    <2>2. QED
      BY <2>1
  <1>4. PICK last \in Nat : last = LastLogIndex(i)
    BY <1>2
  <1>5. CASE last <= s
    BY <1>1, <1>3, <1>4, <1>5
  <1>6. CASE ~(last <= s)
    <2>1. last \in s + 1 .. last
      BY <1>6
    <2>2. InLog(i, last)'
      BY <1>3, <1>4, <2>1 DEF LogKept
    <2>3. last - s \in 1 .. n
      BY <1>3, <2>2 DEF InLog
    <2>4. QED
      BY <1>1, <1>3, <1>4, <2>3
  <1>7. QED
    BY <1>5, <1>6

\* Every step but Start keeps the invariant.
LEMMA EntryInvOther ==
    ASSUME ElectionInv, ElectionSafety', LogInv, LogInv', EntryInv, NoFailedWrites, [Next]_vars,
           ~AnyStart
    PROVE  OneCommand' /\ MadeByElected' /\ LeaderReachesOwn'
  <1>1. Known' \subseteq Known
    <2>1. PICK K : K = Known
      OBVIOUS
    <2>2. HeldIn(K)
      BY <2>1, KnownHolds
    <2>3. HeldIn(K)'
      BY <2>2, HeldNext DEF EntryInv
    <2>4. QED
      BY <2>1, <2>3, KnownIsLeast
  <1>2. OneCommand'
    BY <1>1 DEF EntryInv, OneCommand
  <1>3. /\ elected \subseteq elected' /\ LeadersElected'
    BY RolesElected DEF EntryInv
  <1>4. MadeByElected'
    BY <1>1, <1>3 DEF EntryInv, MadeByElected
  <1>5. ASSUME NEW i \in Server, m_state'[i] = Leader,
               NEW e \in Known', e.term = m_currentTerm'[i]
        PROVE  e.index <= LastLogIndex(i)'
    <2>1. e \in Known /\ e \in Entry
      BY <1>1, KnownHolds
    <2>2. CASE m_state[i] = Leader /\ m_currentTerm'[i] = m_currentTerm[i]
      <3>1. e.index <= LastLogIndex(i)
        BY <1>5, <2>1, <2>2 DEF EntryInv, LeaderReachesOwn
      <3>2. LogKept(i)
        BY <1>5, <2>2, LeaderKeepsLog
      <3>3. LastLogIndex(i)' >= LastLogIndex(i) /\ LastLogIndex(i)' \in Nat
        BY <3>2, LeaderLastGrows
      <3>4. e.index \in Nat /\ LastLogIndex(i) \in Nat
        BY <2>1, LastIndexFact DEF Entry, LogInv
      <3>5. QED
        BY <3>1, <3>3, <3>4
    <2>3. CASE Wins(i)
      <3>1. m_state[i] = Candidate /\ e.term = m_currentTerm[i]
        BY <1>5, <2>3 DEF Wins
      <3>2. PICK l \in Server : <<e.term, l>> \in elected
        BY <2>1 DEF EntryInv, MadeByElected
      <3>3. <<e.term, l>> \in elected' /\ <<e.term, i>> \in elected'
        BY <1>3, <1>5, <3>2 DEF LeadersElected
      <3>4. PICK a \in elected', b \in elected' : a = <<e.term, l>> /\ b = <<e.term, i>>
        BY <3>3
      <3>5. a[1] = b[1] /\ a[2] = l /\ b[2] = i
        BY <3>4
      <3>6. l = i
        BY <3>5 DEF ElectionSafety
      <3>7. <<m_currentTerm[i], i>> \notin elected
        BY <3>1 DEF EntryInv, LeadersElected
      <3>8. QED
        BY <3>1, <3>2, <3>6, <3>7
    <2>4. (m_state[i] = Leader /\ m_currentTerm'[i] = m_currentTerm[i]) \/ Wins(i)
      <3>1. CASE RolesKept
        BY <1>5, <3>1 DEF RolesKept, Leader, Follower
      <3>2. CASE \E k \in Server : doElection(k)
        BY <1>5, <3>2 DEF doElection, LogInv, NodeTypes, Leader, Candidate
      <3>3. CASE \E k \in Server : Wins(k)
        <4>1. PICK k \in Server : Wins(k)
          BY <3>3
        <4>2. CASE k = i
          BY <4>1, <4>2
        <4>3. CASE k # i
          <5>1. m_state'[i] = m_state[i] /\ m_currentTerm' = m_currentTerm
            BY <4>1, <4>3 DEF Wins, BecomeLeader, LogInv, NodeTypes
          <5>2. QED
            BY <1>5, <5>1
        <4>4. QED
          BY <4>2, <4>3
      <3>4. QED
        BY <3>1, <3>2, <3>3, Roles
    <2>5. QED
      BY <2>2, <2>3, <2>4
  <1>6. QED
    BY <1>2, <1>4, <1>5 DEF LeaderReachesOwn

LEMMA HeldWiden ==
    ASSUME NEW K, NEW M, K \subseteq M, HeldIn(K)
    PROVE  HeldIn(M)
  <1>1. ASSUME NEW s \in Seq(K) PROVE s \in Seq(M)
    BY SeqWiden
  <1>2. ASSUME NEW job, JobIn(job, K) PROVE JobIn(job, M)
    BY <1>1, <1>2 DEF JobIn
  <1>3. LogsIn(M) /\ WalsIn(M) /\ ArgsIn(M)
    BY <1>1 DEF HeldIn, LogsIn, WalsIn, ArgsIn
  <1>4. JobsIn(M)
    BY <1>2 DEF HeldIn, JobsIn
  <1>5. QED
    BY <1>3, <1>4 DEF HeldIn

\* The entry that Start makes is new.
LEMMA EntryInvStart ==
    ASSUME ElectionInv, LogInv, LogInv', EntryInv, NoFailedWrites, [Next]_vars,
           NEW i \in Server, NEW cmd \in Command, Start(i, cmd)
    PROVE  OneCommand' /\ MadeByElected' /\ LeaderReachesOwn'
  <1>1. PICK last \in Nat, t \in Nat : last = LastLogIndex(i) /\ t = m_currentTerm[i]
    BY LastIndexFact DEF LogInv, NodeTypes
  <1>2. PICK new : new = NewEntry(i, cmd) /\ new.index = last + 1 /\ new.term = t
    <2>1. PICK new : new = NewEntry(i, cmd)
      OBVIOUS
    <2>2. new.index = last + 1 /\ new.term = t
      BY <1>1, <2>1 DEF NewEntry
    <2>3. QED
      BY <2>1, <2>2
  <1>3. m_state[i] = Leader /\ m_state' = m_state /\ m_currentTerm' = m_currentTerm
        /\ elected' = elected
    BY DEF Start, electionVars, historyVars
  <1>4. PICK K : K = Known
    OBVIOUS
  <1>5. Known' \subseteq K \cup {new}
    <2>1. PICK M : M = K \cup {new}
      OBVIOUS
    <2>2. HeldIn(K)
      BY <1>4, KnownHolds
    <2>3. HeldIn(M)
      BY <2>1, <2>2, HeldWiden
    <2>4. HeldIn(M)'
      BY <1>2, <2>1, <2>3, HeldStart
    <2>5. QED
      BY <2>1, <2>4, KnownIsLeast
  <1>6. ASSUME NEW e \in K PROVE ~(e.index = new.index /\ e.term = new.term)
    <2>1. e \in Entry
      BY <1>4, KnownHolds
    <2>2. e.term = t => e.index <= last
      BY <1>1, <1>3, <1>4 DEF EntryInv, LeaderReachesOwn
    <2>3. e.index \in Nat
      BY <2>1 DEF Entry
    <2>4. QED
      BY <1>2, <2>2, <2>3
  <1>7. OneCommand'
    <2>1. \A e, f \in K : e.index = f.index /\ e.term = f.term => e = f
      BY <1>4 DEF EntryInv, OneCommand
    <2>2. \A e, f \in K \cup {new} : e.index = f.index /\ e.term = f.term => e = f
      BY <1>6, <2>1
    <2>3. QED
      BY <1>5, <2>2 DEF OneCommand
  <1>8. <<t, i>> \in elected
    BY <1>1, <1>3 DEF EntryInv, LeadersElected
  <1>9. MadeByElected'
    <2>1. \A e \in K : \E l \in Server : <<e.term, l>> \in elected
      BY <1>4 DEF EntryInv, MadeByElected
    <2>2. \A e \in K \cup {new} : \E l \in Server : <<e.term, l>> \in elected
      BY <1>2, <1>8, <2>1
    <2>3. QED
      BY <1>3, <1>5, <2>2 DEF MadeByElected
  <1>10. ASSUME NEW k \in Server, m_state'[k] = Leader, NEW e \in Known', e.term = m_currentTerm'[k]
         PROVE  e.index <= LastLogIndex(k)'
    <2>1. CASE e = new
      <3>1. k = i
        <4>1. PICK a \in elected, b \in elected : a = <<t, i>> /\ b = <<t, k>>
          <5>1. <<m_currentTerm[k], k>> \in elected /\ m_currentTerm[k] = t
            BY <1>2, <1>3, <1>10, <2>1 DEF EntryInv, LeadersElected
          <5>2. QED
            BY <1>8, <5>1
        <4>2. a[1] = b[1] /\ a[2] = i /\ b[2] = k
          BY <4>1
        <4>3. QED
          BY <4>2, SafetyFromInv DEF ElectionSafety
      <3>2. LastLogIndex(i)' = last + 1
        BY <1>1, LogKeptStart
      <3>3. QED
        BY <1>2, <2>1, <3>1, <3>2
    <2>2. CASE e \in K
      <3>1. e.index <= LastLogIndex(k)
        BY <1>3, <1>4, <1>10, <2>2 DEF EntryInv, LeaderReachesOwn
      <3>2. LogKept(k)
        BY <1>3, <1>10, LeaderKeepsLog
      <3>3. LastLogIndex(k)' >= LastLogIndex(k) /\ LastLogIndex(k)' \in Nat
        BY <3>2, LeaderLastGrows
      <3>4. e.index \in Nat /\ LastLogIndex(k) \in Nat
        BY <1>4, <2>2, KnownHolds, LastIndexFact DEF Entry, LogInv
      <3>5. QED
        BY <3>1, <3>3, <3>4
    <2>3. QED
      BY <1>5, <2>1, <2>2
  <1>11. QED
    BY <1>7, <1>9, <1>10 DEF LeaderReachesOwn

\* A failed write is the only step that counts one.
LEMMA NoFailureNext ==
    ASSUME NoFailedWrites, walFailures = 0, [Next]_vars
    PROVE  walFailures' = 0
  <1> USE DEF processVars
  <1>1. CASE LoseCall \/ UNCHANGED vars
    BY <1>1 DEF LoseCall, vars
  <1>2. ASSUME NEW i \in Server,
               \/ doElection(i) \/ LoadElectionState(i) \/ PersistElection(i) \/ doHeartBeat(i)
               \/ doHeartBeatAborts(i) \/ applierTicker(i) \/ Restart(i)
               \/ \E cmd \in Command : Start(i, cmd)
               \/ \E index \in SnapshotAt : Snapshot(i, index)
               \/ \E j \in Server : leaderSendSnapShot(i, j)
        PROVE  walFailures' = 0
    BY <1>2 DEF doElection, LoadElectionState, PersistElection, doHeartBeat, doHeartBeatAborts, Abort,
       applierTicker, Restart, Start, Snapshot, leaderSendSnapShot
  <1>3. ASSUME NEW i \in Server, NEW job \in jobs[i],
               \/ WalWrite(i, job) \/ AppendEntriesResume(i, job) \/ AppendEntriesWalFailed(i, job)
               \/ onLogStable(i, job) \/ onLogStableFails(i, job)
        PROVE  walFailures' = 0
    <2>1. ~AppendEntriesWalFailed(i, job) /\ ~onLogStableFails(i, job)
      BY DEF AppendEntriesWalFailed, onLogStableFails, NoFailedWrites
    <2>2. CASE WalWrite(i, job)
      BY <2>2 DEF WalWrite
    <2>3. CASE AppendEntriesResume(i, job)
      BY <2>3 DEF AppendEntriesResume
    <2>4. CASE onLogStable(i, job)
      BY <2>4 DEF onLogStable
    <2>5. QED
      BY <1>3, <2>1, <2>2, <2>3, <2>4
  <1>4. ASSUME NEW i \in Server,
               \/ \E m \in voteArgs : RequestVote(i, m)
               \/ \E r \in voteReplies : handleRequestVoteResponse(i, r)
               \/ \E m \in appendArgs : AppendEntries(i, m)
               \/ \E r \in appendReplies : handleAppendEntries(i, r)
               \/ \E m \in snapArgs : InstallSnapshot(i, m)
               \/ \E r \in snapReplies : leaderSendSnapShotHandler(i, r)
        PROVE  walFailures' = 0
    BY <1>4 DEF RequestVote, handleRequestVoteResponse, AppendEntries, handleAppendEntries,
       InstallSnapshot, leaderSendSnapShotHandler
  <1>5. QED
    BY <1>1, <1>2, <1>3, <1>4 DEF Next

\* Every step keeps the invariant.
LEMMA NextEntryInv ==
    ASSUME ElectionInv, ElectionSafety', LogInv, LogInv', EntryInv, NoFailedWrites, [Next]_vars
    PROVE  EntryInv'
  <1>1. OneCommand' /\ MadeByElected' /\ LeaderReachesOwn'
    <2>1. CASE AnyStart
      BY <2>1, EntryInvStart DEF AnyStart
    <2>2. CASE ~AnyStart
      BY <2>2, EntryInvOther
    <2>3. QED
      BY <2>1, <2>2
  <1>2. LeadersElected' /\ ElectedVoted' /\ elected \subseteq elected'
    BY RolesElected DEF EntryInv
  <1>3. RequestsElected'
    BY <1>2, RequestsElectedNext DEF EntryInv
  <1>4. walFailures' = 0
    BY NoFailureNext DEF EntryInv
  <1>5. QED
    BY <1>1, <1>2, <1>3, <1>4 DEF EntryInv

LEMMA InitEntryInv == Init => EntryInv
  <1>1. SUFFICES ASSUME Init PROVE EntryInv
    OBVIOUS
  <1>2. Known = {}
    <2>1. \A i \in Server : m_logs[i] = <<>> /\ wal[i] = <<>> /\ jobs[i] = {}
      BY <1>1 DEF Init
    <2>2. Elems(<<>>) = {}
      BY DEF Elems
    <2>3. InLogs = {} /\ InWals = {}
      BY <2>1, <2>2 DEF InLogs, InWals
    <2>4. InJobs = {}
      BY <2>1 DEF InJobs
    <2>5. InCalls = {}
      BY <1>1 DEF Init, InCalls
    <2>6. QED
      BY <2>3, <2>4, <2>5 DEF Known
  <1>3. OneCommand /\ MadeByElected /\ LeaderReachesOwn
    BY <1>2 DEF OneCommand, MadeByElected, LeaderReachesOwn
  <1>4. LeadersElected /\ ElectedVoted /\ RequestsElected /\ walFailures = 0
    BY <1>1 DEF Init, LeadersElected, ElectedVoted, RequestsElected, Leader, Candidate, Follower
  <1>5. QED
    BY <1>3, <1>4 DEF EntryInv

----------------------------------------------------------------------------
\* Where entries come from, in every behaviour in which no torn state file is read back and no
\* write fails.
THEOREM EntryInvariant == ASSUME NoTornRestart, NoFailedWrites PROVE Spec => []EntryInv
  <1>1. Init => EntryInv
    BY InitEntryInv
  <1>2. ElectionInv /\ ElectionSafety' /\ LogInv /\ LogInv' /\ EntryInv /\ [Next]_vars => EntryInv'
    BY NextEntryInv
  <1>3. Spec => []ElectionInv
    BY ElectionInvariant
  <1>4. Spec => []ElectionSafety
    BY ElectionSafetyHolds
  <1>5. QED
    BY <1>1, <1>2, <1>3, <1>4, LogInvariant, PTL DEF Spec

\* A term and an index name one command in all logs, WALs and requests, whatever is restarted, lost
\* or delayed: the exit(-1) of AppendEntries is never reached.
THEOREM EntryIdentityHolds == ASSUME NoTornRestart, NoFailedWrites PROVE Spec => []EntryIdentity
  <1>1. EntryInv => EntryIdentity
    <2>1. SUFFICES ASSUME EntryInv PROVE EntryIdentity
      OBVIOUS
    <2> DEFINE els(s) == {s[k] : k \in DOMAIN s}
               all == UNION ({els(m_logs[i]) : i \in Server} \cup {els(wal[i]) : i \in Server}
                             \cup {els(m.entries) : m \in appendArgs})
    <2>2. ASSUME NEW e \in all PROVE e \in Known
      <3>1. CASE \E i \in Server : e \in els(m_logs[i])
        BY <3>1 DEF Known, InLogs, Elems
      <3>2. CASE \E i \in Server : e \in els(wal[i])
        BY <3>2 DEF Known, InWals, Elems
      <3>3. CASE \E m \in appendArgs : e \in els(m.entries)
        BY <3>3 DEF Known, InCalls, Elems
      <3>4. QED
        BY <3>1, <3>2, <3>3
    <2>3. \A e, f \in all : e.index = f.index /\ e.term = f.term => e = f
      <3> HIDE DEF all
      <3>1. QED
        BY <2>1, <2>2 DEF EntryInv, OneCommand
    <2>4. QED
      BY <2>3, Zenon DEF EntryIdentity
  <1>2. QED
    BY <1>1, EntryInvariant, PTL

\* A leader only adds to its log, or folds entries into a snapshot.
THEOREM LeaderAppendOnlyHolds ==
    ASSUME NoTornRestart, NoFailedWrites PROVE Spec => LeaderAppendOnly
  <1>1. ElectionInv /\ LogInv /\ LogInv' /\ EntryInv /\ [Next]_vars =>
            [\A i \in Server :
                m_state[i] = Leader /\ m_state'[i] = Leader =>
                    \A k \in m_lastSnapshotIndex'[i] + 1 .. LastLogIndex(i) :
                        InLog(i, k)' /\ EntryAt(i, k)' = EntryAt(i, k)]_vars
    BY LeaderKeepsLog DEF LogKept
  <1>2. Spec => []ElectionInv
    BY ElectionInvariant
  <1>3. Spec => []EntryInv
    BY EntryInvariant
  <1>4. QED
    BY <1>1, <1>2, <1>3, LogInvariant, PTL DEF Spec, LeaderAppendOnly

----------------------------------------------------------------------------
\* The assumption of the results about commits: no process is started again.  A restarted process
\* trusts a commit_index that its WAL may not reach.
NoRestarts == Restarts = {}

----------------------------------------------------------------------------
\* Indexes.

\* The indexes of node i are in order.
Ordered(i) ==
    /\ m_lastSnapshotIndex[i] <= m_lastApplied[i]
    /\ m_lastApplied[i] <= m_commitIndex[i]
    /\ m_commitIndex[i] <= LastLogIndex(i)

\* None of them goes back.
Forward(i) ==
    /\ m_commitIndex'[i] >= m_commitIndex[i]
    /\ m_lastApplied'[i] >= m_lastApplied[i]
    /\ m_lastSnapshotIndex'[i] >= m_lastSnapshotIndex[i]
    /\ m_stableLogIndex'[i] >= m_stableLogIndex[i]

IndexGoal == CommitWithinLog' /\ \A i \in Server : Forward(i)

IndexTypes(i) ==
    /\ m_lastSnapshotIndex[i] \in Nat /\ m_lastApplied[i] \in Nat /\ m_commitIndex[i] \in Nat
    /\ m_stableLogIndex[i] \in Nat /\ LastLogIndex(i) \in Nat /\ m_currentTerm[i] \in Nat

LEMMA IndexTyped ==
    ASSUME LogInv, NEW i \in Server
    PROVE  IndexTypes(i)
  BY LastIndexFact DEF LogInv, NodeTypes, IndexTypes

\* Everybody but node i keeps log and indexes.
OnlyNode(i) ==
    \A k \in Server \ {i} :
        /\ m_logs'[k] = m_logs[k]
        /\ m_lastSnapshotIndex'[k] = m_lastSnapshotIndex[k]
        /\ m_lastApplied'[k] = m_lastApplied[k]
        /\ m_commitIndex'[k] = m_commitIndex[k]
        /\ m_stableLogIndex'[k] = m_stableLogIndex[k]
        /\ up'[k] = up[k]

LEMMA OneNodeMoves ==
    ASSUME LogInv, CommitWithinLog, NEW i \in Server, OnlyNode(i), up'[i] => Ordered(i)', Forward(i)
    PROVE  IndexGoal
  <1>1. ASSUME NEW k \in Server, k # i PROVE Forward(k) /\ (up'[k] => Ordered(k)')
    <2>1. IndexTypes(k)
      BY IndexTyped
    <2>2. k \in Server \ {i}
      BY <1>1
    <2>3. Forward(k)
      BY <2>1, <2>2 DEF OnlyNode, Forward, IndexTypes
    <2>4. ASSUME up'[k] PROVE Ordered(k)'
      <3>1. Ordered(k)
        BY <2>2, <2>4 DEF OnlyNode, CommitWithinLog, Ordered
      <3>2. QED
        BY <2>2, <3>1 DEF OnlyNode, Ordered, LastLogIndex
    <2>5. QED
      BY <2>3, <2>4
  <1>2. QED
    BY <1>1 DEF IndexGoal, CommitWithinLog, Ordered

\* A step that changes no log and no index.
LEMMA NothingMoves ==
    ASSUME LogInv, CommitWithinLog, UNCHANGED logVars, \A k \in Server : up'[k] => up[k]
    PROVE  IndexGoal
  <1>1. ASSUME NEW k \in Server PROVE Forward(k)
    BY IndexTyped DEF IndexTypes, Forward, logVars
  <1>2. QED
    BY <1>1 DEF IndexGoal, CommitWithinLog, LastLogIndex, logVars

LEMMA IndexQuiet ==
    ASSUME LogInv, CommitWithinLog, NEW i \in Server,
           \/ doElection(i) \/ LoadElectionState(i) \/ PersistElection(i) \/ doHeartBeat(i)
           \/ doHeartBeatAborts(i)
           \/ \E j \in Server : leaderSendSnapShot(i, j)
           \/ \E job \in jobs[i] : WalWrite(i, job) \/ AppendEntriesWalFailed(i, job)
           \/ \E m \in voteArgs : RequestVote(i, m)
           \/ \E r \in voteReplies : handleRequestVoteResponse(i, r)
           \/ \E m \in appendArgs : AppendEntries(i, m)
           \/ \E r \in snapReplies : leaderSendSnapShotHandler(i, r)
    PROVE  IndexGoal
  <1> USE DEF logVars, processVars
  <1>1. UNCHANGED logVars
    <2>1. CASE \/ doElection(i) \/ LoadElectionState(i) \/ PersistElection(i) \/ doHeartBeat(i)
               \/ doHeartBeatAborts(i)
               \/ \E j \in Server : leaderSendSnapShot(i, j)
               \/ \E job \in jobs[i] : WalWrite(i, job) \/ AppendEntriesWalFailed(i, job)
      BY <2>1 DEF doElection, LoadElectionState, PersistElection, doHeartBeat, doHeartBeatAborts,
         Abort, leaderSendSnapShot, WalWrite, AppendEntriesWalFailed, AppendEntriesGivesUp
    <2>2. CASE \/ \E m \in voteArgs : RequestVote(i, m)
               \/ \E r \in voteReplies : handleRequestVoteResponse(i, r)
               \/ \E m \in appendArgs : AppendEntries(i, m)
               \/ \E r \in snapReplies : leaderSendSnapShotHandler(i, r)
      BY <2>2 DEF RequestVote, handleRequestVoteResponse, AppendEntries, leaderSendSnapShotHandler
    <2>3. QED
      BY <2>1, <2>2
  <1>2. up' = up \/ up' = [up EXCEPT ![i] = FALSE]
    <2>1. CASE \/ doElection(i) \/ LoadElectionState(i) \/ PersistElection(i) \/ doHeartBeat(i)
               \/ doHeartBeatAborts(i)
               \/ \E j \in Server : leaderSendSnapShot(i, j)
               \/ \E job \in jobs[i] : WalWrite(i, job) \/ AppendEntriesWalFailed(i, job)
      BY <2>1 DEF doElection, LoadElectionState, PersistElection, doHeartBeat, doHeartBeatAborts,
         Abort, leaderSendSnapShot, WalWrite, AppendEntriesWalFailed, AppendEntriesGivesUp
    <2>2. CASE \/ \E m \in voteArgs : RequestVote(i, m)
               \/ \E r \in voteReplies : handleRequestVoteResponse(i, r)
               \/ \E r \in snapReplies : leaderSendSnapShotHandler(i, r)
      BY <2>2 DEF RequestVote, handleRequestVoteResponse, leaderSendSnapShotHandler
    <2>3. CASE \E m \in appendArgs : AppendEntries(i, m)
      BY <2>3 DEF AppendEntries, AppendEntriesStale, AppendEntriesMismatch, AppendEntriesMatch
    <2>4. QED
      BY <2>1, <2>2, <2>3
  <1>3. \A k \in Server : up'[k] => up[k]
    BY <1>2 DEF LogInv, NodeTypes
  <1>4. QED
    BY <1>1, <1>3, NothingMoves

LEMMA IndexLocal ==
    ASSUME LogInv, LogInv', CommitWithinLog, NEW i \in Server,
           \/ applierTicker(i)
           \/ \E cmd \in Command : Start(i, cmd)
           \/ \E job \in jobs[i] : onLogStable(i, job) \/ onLogStableFails(i, job)
    PROVE  IndexGoal
  <1>0. IndexTypes(i) /\ up[i] /\ Ordered(i)
    <2>1. up[i]
      BY DEF applierTicker, Start, onLogStable, onLogStableFails
    <2>2. QED
      BY <2>1, IndexTyped DEF CommitWithinLog, Ordered
  <1>1. CASE applierTicker(i)
    <2>1. /\ UNCHANGED <<m_logs, m_lastSnapshotIndex, m_commitIndex, m_stableLogIndex>>
          /\ \/ m_lastApplied' = [m_lastApplied EXCEPT ![i] = m_commitIndex[i]] /\ UNCHANGED up
             \/ up' = [up EXCEPT ![i] = FALSE] /\ UNCHANGED m_lastApplied
      BY <1>1 DEF applierTicker
    <2>2. OnlyNode(i)
      BY <2>1 DEF OnlyNode, LogInv, NodeTypes
    <2>3. m_lastApplied'[i] \in {m_lastApplied[i], m_commitIndex[i]}
      BY <2>1 DEF LogInv, NodeTypes
    <2>4. Ordered(i)' /\ Forward(i)
      BY <1>0, <2>1, <2>3 DEF Ordered, Forward, LastLogIndex, IndexTypes
    <2>5. QED
      BY <2>2, <2>4, OneNodeMoves
  <1>2. CASE \E cmd \in Command : Start(i, cmd)
    <2>1. PICK cmd \in Command : Start(i, cmd)
      BY <1>2
    <2>2. /\ \E new : m_logs' = [m_logs EXCEPT ![i] = new]
          /\ UNCHANGED <<m_lastSnapshotIndex, m_commitIndex, m_stableLogIndex, m_lastApplied, up>>
      BY <2>1 DEF Start, processVars
    <2>3. OnlyNode(i)
      BY <2>2 DEF OnlyNode, LogInv, LogTypes
    <2>4. LastLogIndex(i)' = LastLogIndex(i) + 1
      BY <2>1, LogKeptStart
    <2>5. Ordered(i)' /\ Forward(i)
      BY <1>0, <2>2, <2>4 DEF Ordered, Forward, IndexTypes
    <2>6. QED
      BY <2>3, <2>5, OneNodeMoves
  <1>3. CASE \E job \in jobs[i] : onLogStable(i, job)
    <2>1. PICK job \in jobs[i] : onLogStable(i, job)
      BY <1>3
    <2>2. job.entry.index \in Nat
      <3>1. JobOK(i, job) /\ job.kind = "start"
        BY <2>1 DEF LogInv, JobTypes, onLogStable
      <3>2. QED
        BY <3>1 DEF JobOK, Entry
    <2>3. /\ UNCHANGED <<m_logs, m_lastSnapshotIndex, m_commitIndex, m_lastApplied, up>>
          /\ m_stableLogIndex' = Raise(m_stableLogIndex, i, job.entry.index)
      BY <2>1 DEF onLogStable, processVars
    <2>4. m_stableLogIndex \in [Server -> Nat]
      BY DEF LogInv, NodeTypes
    <2>5. m_stableLogIndex' = [m_stableLogIndex EXCEPT ![i] =
              IF m_stableLogIndex[i] >= job.entry.index THEN m_stableLogIndex[i]
              ELSE job.entry.index]
      BY <2>2, <2>3, <2>4, RaiseFacts
    <2>6. OnlyNode(i)
      BY <2>3, <2>5 DEF OnlyNode, LogInv, NodeTypes
    <2>7. m_stableLogIndex'[i] >= m_stableLogIndex[i]
      BY <1>0, <2>2, <2>4, <2>5 DEF IndexTypes
    <2>8. Ordered(i)' /\ Forward(i)
      BY <1>0, <2>3, <2>7 DEF Ordered, Forward, LastLogIndex, IndexTypes
    <2>9. QED
      BY <2>6, <2>8, OneNodeMoves
  <1>4. CASE \E job \in jobs[i] : onLogStableFails(i, job)
    <2>1. PICK job \in jobs[i] : onLogStableFails(i, job)
      BY <1>4
    <2>2. UNCHANGED <<m_lastSnapshotIndex, m_commitIndex, m_stableLogIndex, m_lastApplied, up>>
      BY <2>1 DEF onLogStableFails
    <2>3. PICK index \in Nat : index = job.entry.index
      <3>1. JobOK(i, job) /\ job.kind = "start"
        BY <2>1 DEF LogInv, JobTypes, onLogStableFails
      <3>2. QED
        BY <3>1 DEF JobOK, Entry
    <2>4. CASE index > m_commitIndex[i] /\ InLog(i, index)
      <3>1. PICK from \in Int, to \in Int : from = m_lastSnapshotIndex[i] + 1 /\ to = index - 1
        BY <1>0 DEF IndexTypes
      <3>2. m_lastSnapshotIndex[i] < index /\ index <= LastLogIndex(i)
        BY <2>4, EntryAtFact DEF LogInv
      <3>3. from > m_lastSnapshotIndex[i] /\ to <= LastLogIndex(i)
        BY <1>0, <3>1, <3>2 DEF IndexTypes
      <3>4. PICK new : /\ new = LogSlice(i, from, to)
                       /\ Len(new) = IF from <= to THEN to - from + 1 ELSE 0
        BY <3>3, SliceFacts DEF LogInv
      <3>5. m_logs' = [m_logs EXCEPT ![i] = new]
        BY <2>1, <2>3, <2>4, <3>1, <3>4 DEF onLogStableFails
      <3>6. m_logs'[i] = new
        BY <3>5 DEF LogInv, LogTypes
      <3>7. LastLogIndex(i)' = (m_lastSnapshotIndex[i] + Len(m_logs[i]))'
        BY LastIndexFactAfter DEF LogInv
      <3>8. LastLogIndex(i)' = index - 1
        BY <1>0, <2>2, <3>1, <3>2, <3>4, <3>6, <3>7, SMTT(30) DEF IndexTypes
      <3>9. OnlyNode(i)
        BY <2>2, <3>5 DEF OnlyNode, LogInv, LogTypes
      <3>10. Ordered(i)' /\ Forward(i)
        BY <1>0, <2>2, <2>4, <3>8 DEF Ordered, Forward, IndexTypes
      <3>11. QED
        BY <3>9, <3>10, OneNodeMoves
    <2>5. CASE ~(index > m_commitIndex[i] /\ InLog(i, index))
      <3>1. m_logs' = m_logs
        BY <2>1, <2>3, <2>5 DEF onLogStableFails
      <3>2. OnlyNode(i) /\ Ordered(i)' /\ Forward(i)
        BY <1>0, <2>2, <3>1 DEF OnlyNode, Ordered, Forward, LastLogIndex, IndexTypes
      <3>3. QED
        BY <3>2, OneNodeMoves
    <2>6. QED
      BY <2>4, <2>5
  <1>5. QED
    BY <1>1, <1>2, <1>3, <1>4

LEMMA IndexSnapshot ==
    ASSUME LogInv, LogInv', CommitWithinLog, NEW i \in Server,
           \/ \E index \in SnapshotAt : Snapshot(i, index)
           \/ \E m \in snapArgs : InstallSnapshot(i, m)
    PROVE  IndexGoal
  <1>0. IndexTypes(i) /\ up[i] /\ Ordered(i)
    <2>1. up[i]
      BY DEF Snapshot, InstallSnapshot
    <2>2. QED
      BY <2>1, IndexTyped DEF CommitWithinLog, Ordered
  <1>1. CASE \E index \in SnapshotAt : Snapshot(i, index)
    <2>1. PICK index \in SnapshotAt : Snapshot(i, index)
      BY <1>1
    <2>2. index \in Nat /\ index > m_lastSnapshotIndex[i] /\ index <= m_lastApplied[i]
      BY <2>1, SnapshotAtAssumption DEF Snapshot
    <2>3. CASE InLog(i, index)
      <3>1. /\ m_logs' = [m_logs EXCEPT ![i] = LogAbove(i, index)]
            /\ m_lastSnapshotIndex' = [m_lastSnapshotIndex EXCEPT ![i] = index]
            /\ m_stableLogIndex' = Raise(m_stableLogIndex, i, index)
            /\ UNCHANGED <<m_commitIndex, m_lastApplied, up>>
        BY <2>1, <2>3 DEF Snapshot
      <3>2. LastLogIndex(i)' = IF index < LastLogIndex(i) THEN LastLogIndex(i) ELSE index
        BY <2>2, <3>1, LogKeptAbove
      <3>3. m_stableLogIndex \in [Server -> Nat]
        BY DEF LogInv, NodeTypes
      <3>4. m_stableLogIndex' = [m_stableLogIndex EXCEPT ![i] =
                IF m_stableLogIndex[i] >= index THEN m_stableLogIndex[i] ELSE index]
        BY <2>2, <3>1, <3>3, RaiseFacts
      <3>5. OnlyNode(i)
        BY <3>1, <3>4 DEF OnlyNode, LogInv, LogTypes, NodeTypes
      <3>6. m_lastSnapshotIndex'[i] = index /\ m_stableLogIndex'[i] >= m_stableLogIndex[i]
        BY <1>0, <2>2, <3>1, <3>3, <3>4 DEF LogInv, NodeTypes, IndexTypes
      <3>7. Ordered(i)' /\ Forward(i)
        BY <1>0, <2>2, <3>1, <3>2, <3>6 DEF Ordered, Forward, IndexTypes
      <3>8. QED
        BY <3>5, <3>7, OneNodeMoves
    <2>4. CASE ~InLog(i, index)
      <3>1. UNCHANGED logVars /\ up' = [up EXCEPT ![i] = FALSE]
        BY <2>1, <2>4 DEF Snapshot
      <3>2. QED
        BY <3>1, NothingMoves DEF LogInv, NodeTypes
    <2>5. QED
      BY <2>3, <2>4
  <1>2. CASE \E m \in snapArgs : InstallSnapshot(i, m)
    <2>1. PICK m \in snapArgs : InstallSnapshot(i, m)
      BY <1>2
    <2>2. up' = up
      BY <2>1 DEF InstallSnapshot, processVars
    <2>3. CASE UNCHANGED logVars
      BY <2>2, <2>3, NothingMoves
    <2>4. CASE InstallSnapshotInstalls(i, m)
      <3>1. PICK index \in Nat : index = m.index
        BY DEF LogInv, SnapCallTypes, SnapArgsOK
      <3>2. /\ index > m_lastSnapshotIndex[i]
            /\ m_logs' = [m_logs EXCEPT ![i] = LogAbove(i, index)]
            /\ m_lastSnapshotIndex' = [m_lastSnapshotIndex EXCEPT ![i] = index]
            /\ m_stableLogIndex' = Raise(m_stableLogIndex, i, index)
            /\ m_commitIndex' = Raise(m_commitIndex, i, index)
            /\ m_lastApplied' = Raise(m_lastApplied, i, index)
        BY <2>4, <3>1 DEF InstallSnapshotInstalls
      <3>3. LastLogIndex(i)' = IF index < LastLogIndex(i) THEN LastLogIndex(i) ELSE index
        BY <3>2, LogKeptAbove
      <3>4. /\ m_stableLogIndex \in [Server -> Nat] /\ m_commitIndex \in [Server -> Nat]
            /\ m_lastApplied \in [Server -> Nat] /\ m_lastSnapshotIndex \in [Server -> Nat]
        BY DEF LogInv, NodeTypes
      <3>5. m_stableLogIndex' = [m_stableLogIndex EXCEPT ![i] =
                IF m_stableLogIndex[i] >= index THEN m_stableLogIndex[i] ELSE index]
        BY <3>2, <3>4, RaiseFacts
      <3>6. m_commitIndex' = [m_commitIndex EXCEPT ![i] =
                IF m_commitIndex[i] >= index THEN m_commitIndex[i] ELSE index]
        BY <3>2, <3>4, RaiseFacts
      <3>7. m_lastApplied' = [m_lastApplied EXCEPT ![i] =
                IF m_lastApplied[i] >= index THEN m_lastApplied[i] ELSE index]
        BY <3>2, <3>4, RaiseFacts
      <3>8. OnlyNode(i)
        BY <2>2, <3>2, <3>4, <3>5, <3>6, <3>7 DEF OnlyNode, LogInv, LogTypes
      <3>9. /\ m_lastSnapshotIndex'[i] = index
            /\ m_stableLogIndex'[i] >= m_stableLogIndex[i]
            /\ m_commitIndex'[i] = IF m_commitIndex[i] >= index THEN m_commitIndex[i] ELSE index
            /\ m_lastApplied'[i] = IF m_lastApplied[i] >= index THEN m_lastApplied[i] ELSE index
        BY <1>0, <3>2, <3>4, <3>5, <3>6, <3>7 DEF IndexTypes
      <3>10. Ordered(i)' /\ Forward(i)
        BY <1>0, <3>2, <3>3, <3>9 DEF Ordered, Forward, IndexTypes
      <3>11. QED
        BY <3>8, <3>10, OneNodeMoves
    <2>5. QED
      BY <2>1, <2>3, <2>4 DEF InstallSnapshot, InstallSnapshotStale, InstallSnapshotCovered
  <1>3. QED
    BY <1>1, <1>2

\* advanceCommitIndex stays within the log.
LEMMA CommitMax ==
    ASSUME LogInv, NEW i \in Server, NEW f, m_commitIndex[i] <= LastLogIndex(i)
    PROVE  /\ Max({m_commitIndex[i]} \cup Committable(i, f)) >= m_commitIndex[i]
           /\ Max({m_commitIndex[i]} \cup Committable(i, f)) <= LastLogIndex(i)
  <1>1. PICK c \in Nat, x \in Nat, y \in Nat :
            c = m_commitIndex[i] /\ x = LastLogIndex(i) /\ y = m_stableLogIndex[i]
    BY IndexTyped DEF IndexTypes
  <1>2. Min({x, y}) = IF x <= y THEN x ELSE y
    BY MinMaxOfTwo
  <1>3. PICK S : S = {m_commitIndex[i]} \cup Committable(i, f)
    OBVIOUS
  <1>4. S \in SUBSET (c .. x) /\ S # {} /\ c \in S
    <2>1. Committable(i, f) \subseteq c + 1 .. Min({x, y})
      BY <1>1 DEF Committable
    <2>2. c + 1 .. Min({x, y}) \subseteq c .. x
      BY <1>1, <1>2
    <2>3. c \in c .. x
      BY <1>1
    <2>4. QED
      BY <1>1, <1>3, <2>1, <2>2, <2>3
  <1>5. Max(S) \in S /\ \A z \in S : Max(S) >= z
    <2>1. c \in Int /\ x \in Int
      BY <1>1
    <2>2. QED
      BY <1>4, <2>1, MaxOfSome
  <1>6. Max(S) >= c /\ Max(S) <= x
    <2>1. PICK mx : mx = Max(S)
      OBVIOUS
    <2>2. mx \in S /\ mx >= c
      BY <1>4, <1>5, <2>1
    <2>3. mx \in c .. x
      BY <1>4, <2>2
    <2>4. mx <= x
      BY <1>1, <2>3
    <2>5. QED
      BY <2>1, <2>2, <2>4
  <1>7. QED
    BY <1>1, <1>3, <1>6

LEMMA IndexResponse ==
    ASSUME LogInv, LogInv', CommitWithinLog, NEW i \in Server, NEW r \in appendReplies,
           handleAppendEntries(i, r)
    PROVE  IndexGoal
  <1>0. IndexTypes(i) /\ up[i] /\ Ordered(i)
    <2>1. up[i]
      BY DEF handleAppendEntries
    <2>2. QED
      BY <2>1, IndexTyped DEF CommitWithinLog, Ordered
  <1>1. UNCHANGED <<m_logs, m_lastSnapshotIndex, m_lastSnapshotTerm, m_lastApplied,
                    m_stableLogIndex>>
    BY DEF handleAppendEntries
  <1>2. \/ UNCHANGED m_commitIndex /\ (up' = up \/ up' = [up EXCEPT ![i] = FALSE])
        \/ \E f : advanceCommitIndex(i, f) /\ UNCHANGED up
    BY DEF handleAppendEntries, AppendResponseNewTerm, AppendResponseFailure, AppendResponseSuccess
  <1>3. CASE UNCHANGED m_commitIndex /\ (up' = up \/ up' = [up EXCEPT ![i] = FALSE])
    <2>1. UNCHANGED logVars
      BY <1>1, <1>3 DEF logVars
    <2>2. \A k \in Server : up'[k] => up[k]
      BY <1>3 DEF LogInv, NodeTypes
    <2>3. QED
      BY <2>1, <2>2, NothingMoves
  <1>4. CASE \E f : advanceCommitIndex(i, f) /\ UNCHANGED up
    <2>1. PICK f : advanceCommitIndex(i, f) /\ UNCHANGED up
      BY <1>4
    <2>2. PICK c : /\ c = Max({m_commitIndex[i]} \cup Committable(i, f))
                   /\ c >= m_commitIndex[i] /\ c <= LastLogIndex(i)
      BY <1>0, CommitMax DEF Ordered
    <2>3. m_commitIndex' = [m_commitIndex EXCEPT ![i] = c]
      BY <2>1, <2>2 DEF advanceCommitIndex
    <2>4. OnlyNode(i)
      BY <1>1, <2>1, <2>3 DEF OnlyNode, LogInv, NodeTypes
    <2>5. m_commitIndex'[i] = c /\ m_commitIndex'[i] \in Nat
      BY <2>3 DEF LogInv, NodeTypes
    <2>6. LastLogIndex(i)' = LastLogIndex(i)
      BY <1>1 DEF LastLogIndex
    <2>7. Ordered(i)' /\ Forward(i)
      BY <1>0, <1>1, <2>2, <2>5, <2>6 DEF Ordered, Forward, IndexTypes
    <2>8. QED
      BY <2>4, <2>7, OneNodeMoves
  <1>5. QED
    BY <1>2, <1>3, <1>4

LEMMA IndexResume ==
    ASSUME LogInv, LogInv', CommitWithinLog, NEW i \in Server, NEW job \in jobs[i],
           AppendEntriesResume(i, job)
    PROVE  IndexGoal
  <1>0. IndexTypes(i) /\ up[i] /\ Ordered(i)
    <2>1. up[i]
      BY DEF AppendEntriesResume
    <2>2. QED
      BY <2>1, IndexTyped DEF CommitWithinLog, Ordered
  <1>1. UNCHANGED <<m_lastSnapshotIndex, m_lastApplied>> /\ job.kind = "append"
    BY DEF AppendEntriesResume, AppendJobs
  <1>2. CASE AppendEntriesGivesUp(i, job, TRUE)
    <2>1. OnlyNode(i) /\ Ordered(i)' /\ Forward(i)
      BY <1>0, <1>1, <1>2 DEF AppendEntriesGivesUp, OnlyNode, Ordered, Forward, LastLogIndex,
         IndexTypes
    <2>2. QED
      BY <2>1, OneNodeMoves
  <1>3. CASE AppendEntriesApplies(i, job)
    <2>1. job.pending \in Seq(Writes) /\ job.args.leaderCommit \in Nat
      BY <1>1 DEF LogInv, JobTypes, JobOK, AppendArgsOK
    <2>2. PICK n \in Nat : n = Len(Additions(i, job))
      BY <2>1, PendingPicked
    <2>3. PICK last \in Nat, lc \in Nat, c \in Nat :
              /\ last = LastLogIndex(i) + n
              /\ lc = job.args.leaderCommit
              /\ c = m_commitIndex[i]
      BY <1>0, <2>1 DEF IndexTypes
    <2>4. Min({lc, last}) = IF lc <= last THEN lc ELSE last
      BY MinMaxOfTwo
    <2>5. PICK commit \in Nat : commit = IF lc > c THEN Min({lc, last}) ELSE c
      BY <2>4
    <2>6. c <= last
      BY <1>0, <2>2, <2>3 DEF Ordered, IndexTypes
    <2>7. commit >= c /\ commit <= last
      BY <2>4, <2>5, <2>6
    <2>8. /\ m_logs' = [m_logs EXCEPT ![i] = AppliedLog(i, job)]
          /\ m_stableLogIndex' = Raise(m_stableLogIndex, i, last)
          /\ m_commitIndex' = [m_commitIndex EXCEPT ![i] = commit]
          /\ StillApplies(i, job)
      BY <1>3, <2>2, <2>3, <2>5 DEF AppendEntriesApplies, StableReplyFails
    <2>9. up' = up \/ up' = [up EXCEPT ![i] = FALSE]
      BY <1>3 DEF AppendEntriesApplies
    <2>10. LastLogIndex(i)' = last
      <3>1. PICK new : new = AppliedLog(i, job) /\ Len(new) = Len(m_logs[i]) + n
        BY <2>1, <2>2, <2>8, AppliedFacts
      <3>2. m_logs'[i] = new
        BY <2>8, <3>1 DEF LogInv, LogTypes
      <3>3. LastLogIndex(i)' = (m_lastSnapshotIndex[i] + Len(m_logs[i]))'
        BY LastIndexFactAfter DEF LogInv
      <3>4. LastLogIndex(i) = m_lastSnapshotIndex[i] + Len(m_logs[i]) /\ Len(m_logs[i]) \in Nat
        BY LastIndexFact DEF LogInv
      <3>5. PICK snap \in Nat, old \in Nat : snap = m_lastSnapshotIndex[i] /\ old = Len(m_logs[i])
        BY <1>0, <3>4 DEF IndexTypes
      <3>6. LastLogIndex(i)' = snap + Len(new)
        BY <1>1, <3>2, <3>3, <3>5
      <3>7. Len(new) = old + n /\ last = (snap + old) + n
        BY <2>3, <3>1, <3>4, <3>5
      <3>8. QED
        BY <3>6, <3>7
    <2>11. m_stableLogIndex' = [m_stableLogIndex EXCEPT ![i] =
               IF m_stableLogIndex[i] >= last THEN m_stableLogIndex[i] ELSE last]
      <3>1. m_stableLogIndex \in [Server -> Nat]
        BY DEF LogInv, NodeTypes
      <3>2. QED
        BY <2>8, <3>1, RaiseFacts
    <2>12. OnlyNode(i)
      <3>1. PICK new : m_logs' = [m_logs EXCEPT ![i] = new]
        BY <2>8
      <3>2. PICK st : m_stableLogIndex' = [m_stableLogIndex EXCEPT ![i] = st]
        BY <2>11
      <3>3. m_commitIndex' = [m_commitIndex EXCEPT ![i] = commit]
        BY <2>8
      <3>4. \A k \in Server \ {i} : m_logs'[k] = m_logs[k]
        BY <3>1 DEF LogInv, LogTypes
      <3>5. \A k \in Server \ {i} : /\ m_stableLogIndex'[k] = m_stableLogIndex[k]
                                    /\ m_commitIndex'[k] = m_commitIndex[k]
        BY <3>2, <3>3 DEF LogInv, NodeTypes
      <3>6. \A k \in Server \ {i} : up'[k] = up[k]
        BY <2>9 DEF LogInv, NodeTypes
      <3>7. QED
        BY <1>1, <3>4, <3>5, <3>6 DEF OnlyNode
    <2>13. m_commitIndex'[i] = commit /\ m_stableLogIndex'[i] >= m_stableLogIndex[i]
      BY <1>0, <2>8, <2>11 DEF LogInv, NodeTypes, IndexTypes
    <2>14. Ordered(i)' /\ Forward(i)
      BY <1>0, <1>1, <2>3, <2>7, <2>10, <2>13 DEF Ordered, Forward, IndexTypes
    <2>15. QED
      BY <2>12, <2>14, OneNodeMoves
  <1>4. QED
    BY <1>2, <1>3 DEF AppendEntriesResume

\* Every step but a restart keeps the indexes in order and moves none of them back.
LEMMA IndexNext ==
    ASSUME LogInv, LogInv', CommitWithinLog, NoRestarts, [Next]_vars
    PROVE  IndexGoal
  <1>1. CASE LoseCall \/ UNCHANGED vars
    <2>1. UNCHANGED logVars /\ up' = up
      BY <1>1 DEF LoseCall, vars, processVars
    <2>2. QED
      BY <2>1, NothingMoves
  <1>2. \A i \in Server : ~Restart(i)
    BY DEF NoRestarts, Restart
  <1>3. QED
    BY <1>1, <1>2, IndexQuiet, IndexLocal, IndexSnapshot, IndexResponse, IndexResume DEF Next

\* A node has committed no more than it has, applied no more than it has committed, and folded no
\* more into its snapshot than it has applied.
THEOREM CommitWithinLogHolds == ASSUME NoRestarts PROVE Spec => []CommitWithinLog
  <1>1. Init => CommitWithinLog
    <2>1. SUFFICES ASSUME Init, NEW i \in Server PROVE Ordered(i)
      BY DEF CommitWithinLog, Ordered
    <2>2. QED
      BY <2>1 DEF Init, Ordered, LastLogIndex
  <1>2. LogInv /\ LogInv' /\ CommitWithinLog /\ [Next]_vars => CommitWithinLog'
    BY IndexNext DEF IndexGoal
  <1>3. QED
    BY <1>1, <1>2, LogInvariant, PTL DEF Spec

\* Commits, applied entries, snapshots and stable entries are never taken back.
THEOREM ProgressMonotoneHolds == ASSUME NoRestarts PROVE Spec => ProgressMonotone
  <1>1. LogInv /\ LogInv' /\ CommitWithinLog /\ [Next]_vars =>
            [\A i \in Server :
                boot'[i] = boot[i] => /\ m_commitIndex'[i] >= m_commitIndex[i]
                                      /\ m_lastApplied'[i] >= m_lastApplied[i]
                                      /\ m_lastSnapshotIndex'[i] >= m_lastSnapshotIndex[i]
                                      /\ m_stableLogIndex'[i] >= m_stableLogIndex[i]]_vars
    BY IndexNext DEF IndexGoal, Forward
  <1>2. Spec => []CommitWithinLog
    BY CommitWithinLogHolds
  <1>3. QED
    BY <1>1, <1>2, LogInvariant, PTL DEF Spec, ProgressMonotone

----------------------------------------------------------------------------
\* The type invariant.

\* A candidate counts no more votes than there are nodes.
VotesBounded == \A i \in Server : votedNum[i] <= Cardinality(Server)

LEMMA AtMostAll ==
    ASSUME NEW Q \in SUBSET Server
    PROVE  Cardinality(Q) <= Cardinality(Server) /\ Cardinality(Server) \in Nat
  BY ServerAssumption, FS_Subset, FS_CardinalityType

\* Who counts a vote: a candidate that has not counted the voter's vote before.
LEMMA CountedOnce ==
    ASSUME ElectionInv, NEW i \in Server, NEW r \in voteReplies, r.to = i, r.args.boot = boot[i],
           VoteCounts(i, r)
    PROVE  votedNum[i] + 1 <= Cardinality(Server)
  <1>1. ReplyTrue(r) /\ CallOpen(r.args)
    BY DEF ElectionInv, RepliesOnce
  <1>2. r.from \in Server /\ r.from \notin granters[i] /\ m_state[i] = Candidate
    BY <1>1 DEF ReplyTrue, CallOpen, VoteCounts
  <1>3. votedNum[i] = Cardinality(granters[i]) /\ granters[i] \in SUBSET Server
    BY <1>2 DEF ElectionInv, CandidateCounts, ElectionTypes
  <1>4. PICK Q : Q = granters[i] \cup {r.from} /\ Q \in SUBSET Server
    BY <1>2, <1>3
  <1>5. IsFiniteSet(granters[i])
    BY <1>3, SubsetCount
  <1>6. Cardinality(Q) = Cardinality(granters[i]) + 1
    BY <1>2, <1>4, <1>5, FS_AddElement
  <1>7. QED
    BY <1>3, <1>4, <1>6, AtMostAll

LEMMA VotesBoundedNext ==
    ASSUME ElectionInv, VotesBounded, [Next]_vars
    PROVE  VotesBounded'
  <1> USE DEF electionVars
  <1>0. votedNum \in [Server -> Nat] /\ Cardinality(Server) \in Nat /\ Cardinality(Server) >= 1
    <2>1. Cardinality({Node0}) = 1 /\ {Node0} \in SUBSET Server
      BY ServerAssumption, FS_Singleton
    <2>2. QED
      BY <2>1, AtMostAll DEF ElectionInv, ElectionTypes
  <1>1. CASE UNCHANGED votedNum
    BY <1>1 DEF VotesBounded
  <1>2. ASSUME NEW i \in Server, NEW n \in Nat, n <= Cardinality(Server),
               votedNum' = [votedNum EXCEPT ![i] = n]
        PROVE  VotesBounded'
    BY <1>0, <1>2 DEF VotesBounded
  <1>3. ASSUME NEW i \in Server, doElection(i) \/ Restart(i) PROVE VotesBounded'
    <2>1. votedNum' = [votedNum EXCEPT ![i] = 1] \/ votedNum' = [votedNum EXCEPT ![i] = 0]
      BY <1>3 DEF doElection, Restart
    <2>2. QED
      BY <1>0, <1>2, <2>1
  <1>4. ASSUME NEW i \in Server, NEW r \in voteReplies, handleRequestVoteResponse(i, r)
        PROVE  VotesBounded'
    <2>1. CASE VoteResponseNewTerm(i, r)
      BY <1>1, <2>1 DEF VoteResponseNewTerm, StepDown
    <2>2. CASE VoteResponseCounted(i, r)
      <3>1. VoteCounts(i, r) /\ r.to = i /\ r.args.boot = boot[i]
        BY <1>4, <2>2 DEF VoteResponseCounted, handleRequestVoteResponse
      <3>2. votedNum[i] + 1 <= Cardinality(Server)
        BY <3>1, CountedOnce
      <3>3. PICK n \in Nat : n = votedNum[i] + 1
        BY <1>0
      <3>4. votedNum' = [votedNum EXCEPT ![i] = n]
        BY <2>2, <3>3 DEF VoteResponseCounted
      <3>5. QED
        BY <1>2, <3>2, <3>3, <3>4
    <2>3. QED
      BY <1>4, <2>1, <2>2 DEF handleRequestVoteResponse
  <1>5. CASE LoseCall \/ UNCHANGED vars
    BY <1>1, <1>5 DEF LoseCall, vars
  <1>6. ASSUME NEW i \in Server,
               \/ LoadElectionState(i) \/ PersistElection(i) \/ doHeartBeat(i) \/ doHeartBeatAborts(i)
               \/ applierTicker(i)
               \/ \E cmd \in Command : Start(i, cmd)
               \/ \E index \in SnapshotAt : Snapshot(i, index)
               \/ \E j \in Server : leaderSendSnapShot(i, j)
               \/ \E job \in jobs[i] :
                      \/ WalWrite(i, job) \/ AppendEntriesResume(i, job)
                      \/ AppendEntriesWalFailed(i, job)
                      \/ onLogStable(i, job) \/ onLogStableFails(i, job)
        PROVE  UNCHANGED votedNum
    BY <1>6 DEF LoadElectionState, PersistElection, doHeartBeat, doHeartBeatAborts, Abort,
       applierTicker, Start, Snapshot, leaderSendSnapShot, WalWrite, AppendEntriesResume,
       AppendEntriesWalFailed, onLogStable, onLogStableFails
  <1>7. ASSUME NEW i \in Server,
               \/ \E m \in voteArgs : RequestVote(i, m)
               \/ \E m \in appendArgs : AppendEntries(i, m)
               \/ \E r \in appendReplies : handleAppendEntries(i, r)
               \/ \E m \in snapArgs : InstallSnapshot(i, m)
               \/ \E r \in snapReplies : leaderSendSnapShotHandler(i, r)
        PROVE  UNCHANGED votedNum
    <2>1. CASE \E m \in voteArgs : RequestVote(i, m)
      BY <2>1 DEF RequestVote, RequestVoteStale, RequestVoteCurrent
    <2>2. CASE \E m \in appendArgs : AppendEntries(i, m)
      BY <2>2 DEF AppendEntries, AppendEntriesStale, AppendEntriesMismatch, AppendEntriesMatch,
         FollowTerm
    <2>3. CASE \E r \in appendReplies : handleAppendEntries(i, r)
      BY <2>3 DEF handleAppendEntries, AppendResponseNewTerm, AppendResponseFailure,
         AppendResponseSuccess, StepDown
    <2>4. CASE \E m \in snapArgs : InstallSnapshot(i, m)
      BY <2>4 DEF InstallSnapshot, InstallSnapshotStale, InstallSnapshotCovered,
         InstallSnapshotInstalls, FollowTerm
    <2>5. CASE \E r \in snapReplies : leaderSendSnapShotHandler(i, r)
      BY <2>5 DEF leaderSendSnapShotHandler, StepDown
    <2>6. QED
      BY <1>7, <2>1, <2>2, <2>3, <2>4, <2>5
  <1>8. QED
    BY <1>1, <1>3, <1>4, <1>5, <1>6, <1>7 DEF Next

\* The fields of class raft, its state file and the votes it has counted have their types; in
\* particular no candidate counts more votes than there are nodes.
THEOREM TypeOKHolds == ASSUME NoTornRestart PROVE Spec => []TypeOK
  <1>1. Init => VotesBounded
    <2>1. Cardinality(Server) \in Nat
      BY AtMostAll
    <2>2. QED
      BY <2>1 DEF Init, VotesBounded
  <1>2. ElectionInv /\ VotesBounded /\ [Next]_vars => VotesBounded'
    BY VotesBoundedNext
  <1>3. LogInv /\ VotesBounded => TypeOK
    <2>1. SUFFICES ASSUME LogInv, VotesBounded PROVE TypeOK
      OBVIOUS
    <2>2. votedNum \in [Server -> 0 .. Cardinality(Server)]
      <3>1. \A i \in Server : votedNum[i] \in 0 .. Cardinality(Server)
        BY <2>1, AtMostAll DEF LogInv, NodeTypes, VotesBounded
      <3>2. QED
        BY <2>1, <3>1 DEF LogInv, NodeTypes
    <2>3. \A i \in Server : \A k \in DOMAIN m_logs[i] : m_logs[i][k] \in Entry
      BY <2>1 DEF LogInv, LogTypes
    <2>4. QED
      BY <2>1, <2>2, <2>3 DEF TypeOK, LogInv, NodeTypes, DiskTypes
  <1>4. QED
    BY <1>1, <1>2, <1>3, ElectionInvariant, LogInvariant, PTL DEF Spec

----------------------------------------------------------------------------
\* The pending writes of a handler, once it applies them.

\* Every pending write that the snapshot does not cover is a replacement or an addition.
LEMMA PendingAllPicked ==
    ASSUME NEW j \in Server, NEW job, job.pending \in Seq(Writes), NEW k \in LivePending(j, job)
    PROVE  \/ \E n \in DOMAIN Replacements(j, job) :
                  Replacements(j, job)[n] = job.pending[k] /\ job.pending[k].vec > 0
           \/ \E n \in DOMAIN Additions(j, job) : Additions(j, job)[n] = job.pending[k]
  <1>1. PICK p \in Seq(Writes) : p = job.pending
    OBVIOUS
  <1>2. PICK P \in SUBSET (1 .. Len(p)) : P = LivePending(j, job)
    <2>1. LivePending(j, job) \subseteq 1 .. Len(p)
      BY <1>1 DEF LivePending
    <2>2. QED
      BY <2>1
  <1>3. ASSUME NEW K \in SUBSET P, k \in K
        PROVE  \E n \in DOMAIN Pick(p, K) : Pick(p, K)[n] = p[k]
    <2>1. K \in SUBSET (1 .. Len(p))
      BY <1>2
    <2>2. PICK q : q = Pick(p, K)
      OBVIOUS
    <2>3. PICK V : V = {p[x] : x \in K}
      OBVIOUS
    <2>4. q \in Seq(V) /\ \A x \in K : \E n \in 1 .. Len(q) : q[n] = p[x]
      BY <2>1, <2>2, <2>3, PickFacts
    <2>5. DOMAIN q = 1 .. Len(q)
      BY <2>4
    <2>6. QED
      BY <1>3, <2>2, <2>4, <2>5
  <1>4. PICK R \in SUBSET P, A \in SUBSET P : /\ R = {x \in P : p[x].vec > 0}
                                              /\ A = {x \in P : p[x].vec = 0}
    OBVIOUS
  <1>5. Replacements(j, job) = Pick(p, R) /\ Additions(j, job) = Pick(p, A)
    BY <1>1, <1>2, <1>4 DEF Replacements, Additions
  <1>6. p[k] \in Writes /\ k \in P
    BY <1>2
  <1>7. (k \in R /\ p[k].vec > 0) \/ k \in A
    BY <1>4, <1>6 DEF Writes
  <1>8. QED
    BY <1>1, <1>3, <1>5, <1>7

\* What the handler makes of a position it replaces.
LEMMA AppliedReplaces ==
    ASSUME LogInv, NEW j \in Server, NEW job, job.pending \in Seq(Writes), StillApplies(j, job),
           NEW x \in 1 .. Len(m_logs[j]),
           \E n \in DOMAIN Replacements(j, job) : Replacements(j, job)[n].vec = x
    PROVE  \E k \in LivePending(j, job) : AppliedLog(j, job)[x] = job.pending[k].log
  <1>1. PICK rep \in Seq(Writes), add \in Seq(Writes) :
            /\ rep = Replacements(j, job) /\ add = Additions(j, job)
            /\ \A n \in DOMAIN rep : \E k \in LivePending(j, job) : rep[n] = job.pending[k]
    BY PendingPicked
  <1>2. PICK L \in Seq(Entry) : L = m_logs[j]
    BY DEF LogInv, LogTypes
  <1> DEFINE A == [k \in 1 .. Len(L) |->
                      IF \E n \in DOMAIN rep : rep[n].vec = k
                      THEN rep[CHOOSE n \in DOMAIN rep : rep[n].vec = k].log
                      ELSE L[k]]
             B == [k \in 1 .. Len(add) |-> add[k].log]
  <1>3. AppliedLog(j, job) = A \o B
    BY <1>1, <1>2 DEF AppliedLog
  <1>4. PICK n \in DOMAIN rep : A[x] = rep[n].log
    BY <1>1, <1>2
  <1>5. Len(L) \in Nat /\ Len(add) \in Nat
    OBVIOUS
  <1>6. DOMAIN A = 1 .. Len(L) /\ Len(A) = Len(L) /\ Len(B) = Len(add)
    BY <1>5
  <1>7. (A \o B)[x] = A[x]
    <2> HIDE DEF A, B
    <2>1. x \in 1 .. Len(A) + Len(B) /\ x <= Len(A)
      BY <1>2, <1>5, <1>6
    <2>2. QED
      BY <2>1
  <1>8. QED
    <2>1. PICK k \in LivePending(j, job) : rep[n] = job.pending[k]
      BY <1>1, Zenon
    <2>2. AppliedLog(j, job)[x] = job.pending[k].log
      BY <1>3, <1>4, <1>7, <2>1, Zenon
    <2>3. QED
      BY <2>2

\* A pending write that the snapshot does not cover is in the log afterwards, unless two of them
\* disagree about an index.
LEMMA AppliedHolds ==
    ASSUME LogInv, NEW j \in Server, NEW job, job.pending \in Seq(Writes), StillApplies(j, job),
           \A a, b \in DOMAIN job.pending :
               job.pending[a].log.index = job.pending[b].log.index =>
                   job.pending[a].log = job.pending[b].log,
           NEW k \in LivePending(j, job)
    PROVE  \E x \in 1 .. Len(AppliedLog(j, job)) : AppliedLog(j, job)[x] = job.pending[k].log
  <1>1. PICK new \in Seq(Entry) :
            /\ new = AppliedLog(j, job)
            /\ Len(new) = Len(m_logs[j]) + Len(Additions(j, job))
            /\ \A x \in 1 .. Len(new) :
                   /\ new[x].index = m_lastSnapshotIndex[j] + x
                   /\ \/ x <= Len(m_logs[j]) /\ new[x] = m_logs[j][x]
                      \/ \E n \in LivePending(j, job) : new[x] = job.pending[n].log
    BY AppliedFacts
  <1>2. PICK snap \in Nat, old \in Nat :
            snap = m_lastSnapshotIndex[j] /\ old = Len(m_logs[j]) /\ LastLogIndex(j) = snap + old
    BY LastIndexFact DEF LogInv, NodeTypes
  <1>3. PICK w \in Writes : w = job.pending[k] /\ w.log \in Entry /\ w.vec \in Nat
    <2>1. k \in DOMAIN job.pending
      BY DEF LivePending
    <2>2. job.pending[k] \in Writes
      BY <2>1
    <2>3. QED
      BY <2>2 DEF Writes
  <1>4. LivePending(j, job) \subseteq DOMAIN job.pending
    BY DEF LivePending
  <1>5. ASSUME NEW x \in 1 .. Len(new), new[x].index = w.log.index,
               \E n \in LivePending(j, job) : new[x] = job.pending[n].log
        PROVE  new[x] = w.log
    BY <1>3, <1>4, <1>5
  <1>6. CASE \E n \in DOMAIN Replacements(j, job) : Replacements(j, job)[n] = w /\ w.vec > 0
    <2>1. w.vec <= old /\ m_logs[j][w.vec].index = w.log.index
      BY <1>2, <1>6 DEF StillApplies
    <2>2. w.vec \in 1 .. old
      BY <1>3, <1>6, <2>1
    <2>3. \E n \in LivePending(j, job) : new[w.vec] = job.pending[n].log
      <3>1. PICK x \in 1 .. Len(m_logs[j]) : x = w.vec
        BY <1>2, <2>2
      <3>2. \E n \in DOMAIN Replacements(j, job) : Replacements(j, job)[n].vec = x
        BY <1>6, <3>1
      <3>3. \E n \in LivePending(j, job) : AppliedLog(j, job)[x] = job.pending[n].log
        BY <3>2, AppliedReplaces
      <3>4. QED
        BY <1>1, <3>1, <3>3
    <2>4. PICK more \in Nat : more = Len(Additions(j, job))
      BY PendingPicked
    <2>5. w.vec \in 1 .. Len(new)
      BY <1>1, <1>2, <2>2, <2>4
    <2>6. m_logs[j][w.vec].index = snap + w.vec
      BY <1>2, <2>2 DEF LogInv, LogIndexed, LogTypes
    <2>7. new[w.vec].index = w.log.index
      BY <1>1, <1>2, <2>1, <2>5, <2>6
    <2>8. QED
      BY <1>1, <1>3, <1>5, <2>3, <2>5, <2>7
  <1>7. CASE \E n \in DOMAIN Additions(j, job) : Additions(j, job)[n] = w
    <2>1. PICK add \in Seq(Writes) : add = Additions(j, job)
      BY PendingPicked
    <2>2. PICK n \in 1 .. Len(add) : add[n] = w
      BY <1>7, <2>1
    <2>3. Len(add) \in Nat
      BY <2>1
    <2>4. w.log.index = (snap + old) + n
      BY <1>2, <2>1, <2>2 DEF StillApplies
    <2>5. PICK x \in 1 .. Len(new) : x = old + n /\ ~(x <= old)
      <3>1. Len(new) = old + Len(add)
        BY <1>1, <1>2, <2>1
      <3>2. PICK x \in Nat : x = old + n
        BY <2>2
      <3>3. x \in 1 .. Len(new) /\ ~(x <= old)
        BY <2>2, <2>3, <3>1, <3>2
      <3>4. QED
        BY <3>2, <3>3
    <2>6. new[x].index = w.log.index
      <3>1. new[x].index = snap + x
        BY <1>1, <1>2
      <3>2. QED
        BY <2>2, <2>4, <2>5, <3>1
    <2>7. \E m \in LivePending(j, job) : new[x] = job.pending[m].log
      BY <1>1, <1>2, <2>5
    <2>8. QED
      BY <1>1, <1>3, <1>5, <2>6, <2>7
  <1>8. QED
    BY <1>3, <1>6, <1>7, PendingAllPicked

----------------------------------------------------------------------------
\* Terms.

LEMMA TermTakenForward ==
    ASSUME LogInv, NEW i \in Server, NEW t \in Nat, t >= m_currentTerm[i],
           m_currentTerm' = [m_currentTerm EXCEPT ![i] = t]
    PROVE  \A k \in Server : m_currentTerm'[k] >= m_currentTerm[k]
  <1>1. m_currentTerm \in [Server -> Nat]
    BY DEF LogInv, NodeTypes
  <1>2. QED
    BY <1>1

\* Without restarts no node forgets a term.
LEMMA TermsForward ==
    ASSUME LogInv, NoRestarts, [Next]_vars
    PROVE  \A k \in Server : m_currentTerm'[k] >= m_currentTerm[k]
  <1> USE DEF electionVars
  <1>0. m_currentTerm \in [Server -> Nat]
    BY DEF LogInv, NodeTypes
  <1>1. ASSUME UNCHANGED m_currentTerm PROVE \A k \in Server : m_currentTerm'[k] >= m_currentTerm[k]
    BY <1>0, <1>1
  <1>2. CASE LoseCall \/ UNCHANGED vars
    BY <1>1, <1>2 DEF LoseCall, vars
  <1>3. ASSUME NEW i \in Server, doElection(i)
        PROVE  \A k \in Server : m_currentTerm'[k] >= m_currentTerm[k]
    <2>1. PICK t \in Nat : t = m_currentTerm[i] + 1 /\ m_currentTerm[i] \in Nat
      BY <1>0
    <2>2. m_currentTerm' = [m_currentTerm EXCEPT ![i] = t]
      BY <1>3, <2>1 DEF doElection
    <2>3. t >= m_currentTerm[i]
      BY <2>1
    <2>4. QED
      BY <2>2, <2>3, TermTakenForward
  <1>4. ASSUME NEW i \in Server,
               \/ LoadElectionState(i) \/ PersistElection(i) \/ doHeartBeat(i) \/ doHeartBeatAborts(i)
               \/ applierTicker(i)
               \/ \E cmd \in Command : Start(i, cmd)
               \/ \E index \in SnapshotAt : Snapshot(i, index)
               \/ \E j \in Server : leaderSendSnapShot(i, j)
               \/ \E job \in jobs[i] :
                      \/ WalWrite(i, job) \/ AppendEntriesResume(i, job)
                      \/ AppendEntriesWalFailed(i, job)
                      \/ onLogStable(i, job) \/ onLogStableFails(i, job)
        PROVE  UNCHANGED m_currentTerm
    BY <1>4 DEF LoadElectionState, PersistElection, doHeartBeat, doHeartBeatAborts, Abort,
       applierTicker, Start, Snapshot, leaderSendSnapShot, WalWrite, AppendEntriesResume,
       AppendEntriesWalFailed, onLogStable, onLogStableFails
  <1>5. ASSUME NEW i \in Server,
               \/ \E m \in voteArgs : RequestVote(i, m)
               \/ \E r \in voteReplies : handleRequestVoteResponse(i, r)
               \/ \E m \in appendArgs : AppendEntries(i, m)
               \/ \E r \in appendReplies : handleAppendEntries(i, r)
               \/ \E m \in snapArgs : InstallSnapshot(i, m)
               \/ \E r \in snapReplies : leaderSendSnapShotHandler(i, r)
        PROVE  \/ UNCHANGED m_currentTerm
               \/ \E t \in Nat : /\ t >= m_currentTerm[i]
                                 /\ m_currentTerm' = [m_currentTerm EXCEPT ![i] = t]
    <2>0. m_currentTerm[i] \in Nat
      BY <1>0
    <2>1. CASE \E m \in voteArgs : RequestVote(i, m)
      BY <2>1 DEF RequestVote, RequestVoteStale, RequestVoteCurrent, LogInv, VoteCallTypes, Positive
    <2>2. CASE \E r \in voteReplies : handleRequestVoteResponse(i, r)
      BY <2>0, <2>2 DEF handleRequestVoteResponse, VoteResponseNewTerm, VoteResponseCounted, StepDown,
         LogInv, VoteCallTypes
    <2>3. CASE \E m \in appendArgs : AppendEntries(i, m)
      <3>1. PICK m \in appendArgs : AppendEntries(i, m)
        BY <2>3
      <3>2. m.term \in Nat
        BY DEF LogInv, AppendCallTypes, AppendArgsOK
      <3>3. QED
        BY <3>1, <3>2 DEF AppendEntries, AppendEntriesStale, AppendEntriesMismatch,
           AppendEntriesMatch, FollowTerm
    <2>4. CASE \E r \in appendReplies : handleAppendEntries(i, r)
      BY <2>0, <2>4 DEF handleAppendEntries, AppendResponseNewTerm, AppendResponseFailure,
         AppendResponseSuccess, StepDown, LogInv, AppendCallTypes
    <2>5. CASE \E m \in snapArgs : InstallSnapshot(i, m)
      BY <2>5 DEF InstallSnapshot, InstallSnapshotStale, InstallSnapshotCovered,
         InstallSnapshotInstalls, FollowTerm, LogInv, SnapCallTypes, SnapArgsOK
    <2>6. CASE \E r \in snapReplies : leaderSendSnapShotHandler(i, r)
      BY <2>0, <2>6 DEF leaderSendSnapShotHandler, StepDown, LogInv, SnapCallTypes
    <2>7. QED
      BY <1>5, <2>1, <2>2, <2>3, <2>4, <2>5, <2>6
  <1>6. \A i \in Server : ~Restart(i)
    BY DEF NoRestarts, Restart
  <1>7. QED
    BY <1>1, <1>2, <1>3, <1>4, <1>5, <1>6, TermTakenForward DEF Next

----------------------------------------------------------------------------
\* The requests somebody knows of.

LEMMA SentTyped ==
    ASSUME LogInv, NEW m \in Sent
    PROVE  AppendArgsOK(m)
  <1>1. CASE m \in WithJobs
    <2>1. PICK j \in Server : \E job \in AppendJobs(j) : m = job.args
      BY <1>1 DEF WithJobs
    <2>2. QED
      BY <2>1 DEF AppendJobs, LogInv, JobTypes, JobOK
  <1>2. QED
    BY <1>1 DEF Sent, WithReplies, LogInv, AppendCallTypes

LEMMA JobSent ==
    ASSUME NEW j \in Server, NEW job \in AppendJobs(j)
    PROVE  job.args \in Sent
  <1>1. PICK V : V = {x.args : x \in AppendJobs(j)}
    OBVIOUS
  <1>2. V \subseteq WithJobs /\ job.args \in V
    BY <1>1 DEF WithJobs
  <1>3. QED
    BY <1>2 DEF Sent

\* A reply that was not there before answers a request somebody knew of; a success comes from a
\* handler that has applied its writes.
Succeeds(j, job, r) ==
    /\ job \in AppendJobs(j)
    /\ AppendEntriesResume(j, job)
    /\ AppendEntriesApplies(j, job)
    /\ r = AppendReply(job.args, m_currentTerm[j], TRUE, NoHint)

NewReply(r) ==
    /\ r.args \in Sent
    /\ r.success => \E j \in Server : \E job \in jobs[j] : Succeeds(j, job, r)

LEMMA RepliesQuiet ==
    ASSUME NEW i \in Server,
           \/ doElection(i) \/ LoadElectionState(i) \/ PersistElection(i) \/ doHeartBeat(i)
           \/ doHeartBeatAborts(i) \/ applierTicker(i) \/ Restart(i)
           \/ \E cmd \in Command : Start(i, cmd)
           \/ \E index \in SnapshotAt : Snapshot(i, index)
           \/ \E j \in Server : leaderSendSnapShot(i, j)
           \/ \E job \in jobs[i] : \/ WalWrite(i, job) \/ onLogStable(i, job)
                                   \/ onLogStableFails(i, job)
           \/ \E m \in voteArgs : RequestVote(i, m)
           \/ \E r \in voteReplies : handleRequestVoteResponse(i, r)
           \/ \E r \in appendReplies : handleAppendEntries(i, r)
           \/ \E m \in snapArgs : InstallSnapshot(i, m)
           \/ \E r \in snapReplies : leaderSendSnapShotHandler(i, r)
    PROVE  appendReplies' \subseteq appendReplies
  <1> USE DEF appendMsgs
  <1>1. CASE \/ doElection(i) \/ LoadElectionState(i) \/ PersistElection(i) \/ doHeartBeat(i)
             \/ doHeartBeatAborts(i) \/ applierTicker(i) \/ Restart(i)
             \/ \E cmd \in Command : Start(i, cmd)
             \/ \E index \in SnapshotAt : Snapshot(i, index)
             \/ \E j \in Server : leaderSendSnapShot(i, j)
             \/ \E job \in jobs[i] : \/ WalWrite(i, job) \/ onLogStable(i, job)
                                     \/ onLogStableFails(i, job)
    BY <1>1 DEF doElection, LoadElectionState, PersistElection, doHeartBeat, doHeartBeatAborts, Abort,
       applierTicker, Restart, Start, Snapshot, leaderSendSnapShot, WalWrite, onLogStable,
       onLogStableFails
  <1>2. CASE \/ \E m \in voteArgs : RequestVote(i, m)
             \/ \E r \in voteReplies : handleRequestVoteResponse(i, r)
             \/ \E r \in appendReplies : handleAppendEntries(i, r)
             \/ \E m \in snapArgs : InstallSnapshot(i, m)
             \/ \E r \in snapReplies : leaderSendSnapShotHandler(i, r)
    BY <1>2 DEF RequestVote, handleRequestVoteResponse, handleAppendEntries, InstallSnapshot,
       leaderSendSnapShotHandler
  <1>3. QED
    BY <1>1, <1>2

LEMMA ReplyFailure ==
    ASSUME NEW m \in Sent, NEW term, NEW hint
    PROVE  NewReply(AppendReply(m, term, FALSE, hint))
  <1>1. PICK r : r = AppendReply(m, term, FALSE, hint)
    OBVIOUS
  <1>2. r.args = m /\ r.success = FALSE
    BY <1>1 DEF AppendReply
  <1>3. QED
    BY <1>1, <1>2 DEF NewReply

LEMMA RepliesAppend ==
    ASSUME NEW j \in Server, NEW m \in appendArgs, AppendEntries(j, m),
           NEW r \in appendReplies', r \notin appendReplies
    PROVE  NewReply(r)
  <1>1. m \in Sent
    BY DEF Sent
  <1>2. \E term, hint : appendReplies' = appendReplies \cup {AppendReply(m, term, FALSE, hint)}
    BY DEF AppendEntries, AppendEntriesStale, AppendEntriesMismatch, AppendEntriesMatch
  <1>3. PICK term, hint : appendReplies' = appendReplies \cup {AppendReply(m, term, FALSE, hint)}
    BY <1>2, Zenon
  <1>4. r = AppendReply(m, term, FALSE, hint)
    BY <1>3, Zenon
  <1>5. NewReply(AppendReply(m, term, FALSE, hint))
    BY <1>1, ReplyFailure
  <1>6. QED
    BY <1>4, <1>5, Zenon

LEMMA RepliesResume ==
    ASSUME NEW j \in Server, NEW job \in jobs[j],
           AppendEntriesResume(j, job) \/ AppendEntriesWalFailed(j, job),
           NEW r \in appendReplies', r \notin appendReplies
    PROVE  NewReply(r)
  <1>1. job \in AppendJobs(j) /\ job.args \in Sent
    BY JobSent DEF AppendEntriesResume, AppendEntriesWalFailed
  <1>2. CASE \E stable : AppendEntriesGivesUp(j, job, stable)
    <2>1. \E term, hint : appendReplies' = appendReplies \cup {AppendReply(job.args, term, FALSE, hint)}
      BY <1>2 DEF AppendEntriesGivesUp
    <2>2. PICK term, hint : r = AppendReply(job.args, term, FALSE, hint)
      BY <2>1
    <2>3. NewReply(AppendReply(job.args, term, FALSE, hint))
      BY <1>1, ReplyFailure
    <2>4. QED
      BY <2>2, <2>3, Zenon
  <1>3. CASE AppendEntriesResume(j, job) /\ AppendEntriesApplies(j, job)
    <2>1. r = AppendReply(job.args, m_currentTerm[j], TRUE, NoHint)
      BY <1>3 DEF AppendEntriesApplies
    <2>2. r.args = job.args
      BY <2>1 DEF AppendReply
    <2>3. Succeeds(j, job, r)
      BY <1>1, <1>3, <2>1 DEF Succeeds
    <2>4. QED
      BY <1>1, <2>2, <2>3 DEF NewReply
  <1>4. QED
    BY <1>2, <1>3 DEF AppendEntriesResume, AppendEntriesWalFailed

LEMMA RepliesNext ==
    ASSUME [Next]_vars, NEW r \in appendReplies', r \notin appendReplies
    PROVE  NewReply(r)
  <1>1. CASE LoseCall \/ UNCHANGED vars
    BY <1>1 DEF LoseCall, vars, appendMsgs
  <1>2. QED
    BY <1>1, RepliesQuiet, RepliesAppend, RepliesResume DEF Next

\* Only a heartbeat makes a request.
LEMMA SentNext ==
    ASSUME LogInv, [Next]_vars, NEW m \in Sent', m \notin Sent
    PROVE  NewRequest(m)
  <1>1. Origins
    BY OriginsNext
  <1>2. CASE m \in appendArgs'
    BY <1>1, <1>2 DEF Origins, Sent
  <1>3. CASE m \in WithJobs'
    <2>1. PICK j \in Server : \E job \in AppendJobs(j)' : m = job.args
      BY <1>3 DEF WithJobs
    <2>2. PICK job \in jobs'[j] : job.kind = "append" /\ m = job.args
      BY <2>1 DEF AppendJobs
    <2>3. CASE OldHandler(j, job)
      BY <2>2, <2>3, JobSent DEF OldHandler, AppendJobs
    <2>4. CASE NewHandler(j, job)
      BY <2>2, <2>4 DEF NewHandler, Sent
    <2>5. QED
      BY <1>1, <2>2, <2>3, <2>4 DEF Origins
  <1>4. CASE m \in WithReplies'
    <2>1. PICK r \in appendReplies' : m = r.args
      BY <1>4 DEF WithReplies
    <2>2. CASE r \in appendReplies
      BY <2>1, <2>2 DEF Sent, WithReplies
    <2>3. CASE r \notin appendReplies
      BY <2>1, <2>3, RepliesNext DEF NewReply
    <2>4. QED
      BY <2>2, <2>3
  <1>5. QED
    BY <1>2, <1>3, <1>4 DEF Sent

----------------------------------------------------------------------------
\* What a node has.

\* An entry that a node has is in its log as the invariants of the log describe it.
LEMMA HasFact ==
    ASSUME LogInv, NEW j \in Server, NEW e \in Entry
    PROVE  /\ Has(j, e) /\ e.index > m_lastSnapshotIndex[j] =>
                  InLog(j, e.index) /\ EntryAt(j, e.index) = e /\ e.index <= LastLogIndex(j)
           /\ m_lastSnapshotIndex[j] \in Nat /\ LastLogIndex(j) \in Nat /\ e.index \in Nat
  <1>1. e.index \in Int /\ e.index \in Nat
    BY DEF Entry
  <1>2. m_lastSnapshotIndex[j] \in Nat /\ LastLogIndex(j) \in Nat
    BY LastIndexFact DEF LogInv, NodeTypes
  <1>3. PICK x \in Int : x = e.index
    BY <1>1
  <1>4. InLog(j, x) => x <= LastLogIndex(j)
    BY EntryAtFact DEF LogInv
  <1>5. CASE e.index <= m_lastSnapshotIndex[j]
    BY <1>1, <1>2, <1>5
  <1>6. CASE ~(e.index <= m_lastSnapshotIndex[j])
    BY <1>1, <1>2, <1>3, <1>4, <1>6 DEF Has
  <1>7. QED
    BY <1>5, <1>6

LEMMA HasKept ==
    ASSUME LogInv, LogInv', NEW j \in Server, NEW e \in Entry, Has(j, e), LogKept(j),
           m_lastSnapshotIndex'[j] >= m_lastSnapshotIndex[j]
    PROVE  Has(j, e)'
  <1>1. PICK s \in Nat, t \in Nat, x \in Nat, last \in Nat :
            /\ s = m_lastSnapshotIndex[j] /\ t = m_lastSnapshotIndex'[j]
            /\ x = e.index /\ last = LastLogIndex(j)
    BY HasFact DEF LogInv, NodeTypes
  <1>2. CASE x <= t
    BY <1>1, <1>2 DEF Has
  <1>3. CASE x > t
    <2>1. x > s
      BY <1>1, <1>3
    <2>2. EntryAt(j, e.index) = e /\ x <= last
      BY <1>1, <2>1, HasFact
    <2>3. x \in t + 1 .. last
      BY <1>3, <2>2
    <2>4. InLog(j, x)' /\ EntryAt(j, x)' = EntryAt(j, x)
      BY <1>1, <2>3 DEF LogKept
    <2>5. QED
      BY <1>1, <2>2, <2>4 DEF Has
  <1>4. QED
    BY <1>1, <1>2, <1>3

\* A step keeps the log of a node above its snapshot, unless a handler applies its writes.
Applies(j) == \E job \in AppendJobs(j) : AppendEntriesResume(j, job) /\ AppendEntriesApplies(j, job)

LEMMA LogStepOther ==
    ASSUME LogInv, LogInv', NEW i \in Server, NEW k \in Server, k # i,
           \E new : m_logs' = [m_logs EXCEPT ![i] = new],
           \E snap : m_lastSnapshotIndex' = [m_lastSnapshotIndex EXCEPT ![i] = snap]
    PROVE  LogKept(k)
  <1>1. m_logs'[k] = m_logs[k] /\ m_lastSnapshotIndex'[k] = m_lastSnapshotIndex[k]
    BY DEF LogInv, LogTypes, NodeTypes
  <1>2. QED
    BY <1>1, LogSame

LEMMA LogStepAbove ==
    ASSUME LogInv, LogInv', NEW i \in Server, NEW index \in Nat, index > m_lastSnapshotIndex[i],
           m_logs' = [m_logs EXCEPT ![i] = LogAbove(i, index)],
           m_lastSnapshotIndex' = [m_lastSnapshotIndex EXCEPT ![i] = index]
    PROVE  \A k \in Server : LogKept(k)
  BY LogKeptAbove, LogStepOther

LEMMA LogStepWrites ==
    ASSUME LogInv, LogInv', NEW i \in Server,
           \/ \E cmd \in Command : Start(i, cmd)
           \/ \E index \in SnapshotAt : Snapshot(i, index)
           \/ \E job \in jobs[i] : AppendEntriesResume(i, job)
           \/ \E m \in snapArgs : InstallSnapshot(i, m)
    PROVE  \A k \in Server : LogKept(k) \/ Applies(k)
  <1>0. ASSUME UNCHANGED <<m_logs, m_lastSnapshotIndex>> PROVE \A k \in Server : LogKept(k)
    BY <1>0, LogSame
  <1>1. CASE \E cmd \in Command : Start(i, cmd)
    <2>1. PICK cmd \in Command : Start(i, cmd)
      BY <1>1
    <2>2. \E new : m_logs' = [m_logs EXCEPT ![i] = new]
      BY <2>1 DEF Start
    <2>3. \E snap : m_lastSnapshotIndex' = [m_lastSnapshotIndex EXCEPT ![i] = snap]
      <3>1. m_lastSnapshotIndex' = [m_lastSnapshotIndex EXCEPT ![i] = m_lastSnapshotIndex[i]]
        BY <2>1 DEF Start, LogInv, NodeTypes
      <3>2. QED
        BY <3>1
    <2>4. QED
      BY <2>1, <2>2, <2>3, LogKeptStart, LogStepOther
  <1>2. CASE \E index \in SnapshotAt : Snapshot(i, index)
    <2>1. PICK index \in SnapshotAt : Snapshot(i, index)
      BY <1>2
    <2>2. CASE InLog(i, index)
      <3>1. /\ index \in Nat /\ index > m_lastSnapshotIndex[i]
            /\ m_logs' = [m_logs EXCEPT ![i] = LogAbove(i, index)]
            /\ m_lastSnapshotIndex' = [m_lastSnapshotIndex EXCEPT ![i] = index]
        BY <2>1, <2>2, SnapshotAtAssumption DEF Snapshot
      <3>2. QED
        BY <3>1, LogStepAbove
    <2>3. CASE ~InLog(i, index)
      BY <1>0, <2>1, <2>3 DEF Snapshot, logVars
    <2>4. QED
      BY <2>2, <2>3
  <1>3. CASE \E job \in jobs[i] : AppendEntriesResume(i, job)
    <2>1. PICK job \in jobs[i] : AppendEntriesResume(i, job)
      BY <1>3
    <2>2. m_lastSnapshotIndex' = m_lastSnapshotIndex /\ job \in AppendJobs(i)
      BY <2>1 DEF AppendEntriesResume
    <2>3. CASE AppendEntriesGivesUp(i, job, TRUE)
      BY <1>0, <2>2, <2>3 DEF AppendEntriesGivesUp
    <2>4. CASE AppendEntriesApplies(i, job)
      <3>1. Applies(i)
        BY <2>1, <2>2, <2>4 DEF Applies
      <3>2. \E new : m_logs' = [m_logs EXCEPT ![i] = new]
        BY <2>4 DEF AppendEntriesApplies
      <3>3. \E snap : m_lastSnapshotIndex' = [m_lastSnapshotIndex EXCEPT ![i] = snap]
        <4>1. m_lastSnapshotIndex' = [m_lastSnapshotIndex EXCEPT ![i] = m_lastSnapshotIndex[i]]
          BY <2>2 DEF LogInv, NodeTypes
        <4>2. QED
          BY <4>1
      <3>4. QED
        BY <3>1, <3>2, <3>3, LogStepOther
    <2>5. QED
      BY <2>1, <2>3, <2>4 DEF AppendEntriesResume
  <1>4. CASE \E m \in snapArgs : InstallSnapshot(i, m)
    <2>1. PICK m \in snapArgs : InstallSnapshot(i, m)
      BY <1>4
    <2>2. CASE InstallSnapshotInstalls(i, m)
      <3>1. m.index \in Nat
        BY DEF LogInv, SnapCallTypes, SnapArgsOK
      <3>2. PICK index \in Nat : index = m.index
        BY <3>1
      <3>3. /\ index > m_lastSnapshotIndex[i]
            /\ m_logs' = [m_logs EXCEPT ![i] = LogAbove(i, index)]
            /\ m_lastSnapshotIndex' = [m_lastSnapshotIndex EXCEPT ![i] = index]
        BY <2>2, <3>2 DEF InstallSnapshotInstalls
      <3>4. QED
        BY <3>3, LogStepAbove
    <2>3. CASE InstallSnapshotStale(i, m) \/ InstallSnapshotCovered(i, m)
      BY <1>0, <2>3 DEF InstallSnapshotStale, InstallSnapshotCovered, logVars
    <2>4. QED
      BY <2>1, <2>2, <2>3 DEF InstallSnapshot
  <1>5. QED
    BY <1>1, <1>2, <1>3, <1>4

LEMMA LogStep ==
    ASSUME LogInv, LogInv', NoRestarts, NoFailedWrites, walFailures = 0, [Next]_vars
    PROVE  \A k \in Server : LogKept(k) \/ Applies(k)
  <1>1. ASSUME UNCHANGED <<m_logs, m_lastSnapshotIndex>> PROVE \A k \in Server : LogKept(k)
    BY <1>1, LogSame
  <1>2. CASE LoseCall \/ UNCHANGED vars
    BY <1>1, <1>2 DEF LoseCall, vars, logVars
  <1>3. \A i \in Server : ~Restart(i)
    BY DEF NoRestarts, Restart
  <1>4. ASSUME NEW i \in Server, NEW job \in jobs[i]
        PROVE  ~onLogStableFails(i, job) /\ ~AppendEntriesWalFailed(i, job)
    BY DEF onLogStableFails, AppendEntriesWalFailed, NoFailedWrites
  <1>5. QED
    BY <1>1, <1>2, <1>3, <1>4, LogChangeLocal, LogStepWrites DEF Next

\* What the log holds, the node has.
LEMMA HasPosition ==
    ASSUME LogInv', NEW j \in Server, NEW e \in Entry, NEW x \in 1 .. Len(m_logs'[j]),
           m_logs'[j][x] = e
    PROVE  Has(j, e)'
  <1>1. PICK s \in Nat, L \in Seq(Entry) : s = m_lastSnapshotIndex'[j] /\ L = m_logs'[j]
    BY DEF LogInv, NodeTypes, LogTypes
  <1>2. x \in DOMAIN L /\ Len(L) \in Nat
    BY <1>1
  <1>3. L[x].index = s + x
    BY <1>1, <1>2 DEF LogInv, LogIndexed
  <1>4. PICK y \in Nat : y = e.index /\ y = s + x
    BY <1>1, <1>2, <1>3
  <1>5. y - s = x
    BY <1>2, <1>4
  <1>6. QED
    BY <1>1, <1>4, <1>5 DEF Has, InLog, EntryAt

\* A handler that applies its writes.
LEMMA AppliedStep ==
    ASSUME LogInv, NEW j \in Server, NEW job \in AppendJobs(j), AppendEntriesResume(j, job),
           AppendEntriesApplies(j, job)
    PROVE  /\ m_logs'[j] = AppliedLog(j, job)
           /\ m_lastSnapshotIndex' = m_lastSnapshotIndex
           /\ StillApplies(j, job) /\ m_currentTerm[j] = job.args.term
           /\ AppendArgsOK(job.args) /\ job.pending \in Seq(Writes) /\ job.args \in Sent
  <1>1. AppendArgsOK(job.args) /\ job.pending \in Seq(Writes)
    BY DEF AppendJobs, LogInv, JobTypes, JobOK
  <1>2. m_logs' = [m_logs EXCEPT ![j] = AppliedLog(j, job)]
    BY DEF AppendEntriesApplies
  <1>3. m_logs'[j] = AppliedLog(j, job)
    BY <1>2 DEF LogInv, LogTypes
  <1>4. m_lastSnapshotIndex' = m_lastSnapshotIndex
    BY DEF AppendEntriesResume
  <1>5. StillApplies(j, job) /\ m_currentTerm[j] = job.args.term
    BY DEF AppendEntriesApplies, StableReplyFails
  <1>6. QED
    BY <1>1, <1>3, <1>4, <1>5, JobSent

\* The writes of a request agree with every entry of a request of the same term.
LEMMA PendingAgrees ==
    ASSUME SentAgree, PendingSent, NEW j \in Server, NEW job \in AppendJobs(j), NEW m \in Sent,
           m.term = job.args.term, NEW e \in Elems(m.entries), NEW k \in DOMAIN job.pending,
           job.pending[k].log.index = e.index
    PROVE  job.pending[k].log = e
  <1>1. job.args \in Sent /\ job.pending[k].log \in Elems(job.args.entries)
    BY JobSent DEF PendingSent
  <1>2. PICK f \in Elems(job.args.entries) : f = job.pending[k].log
    BY <1>1
  <1>3. f = e
    BY <1>1, <1>2 DEF SentAgree
  <1>4. QED
    BY <1>2, <1>3

LEMMA SentEntry ==
    ASSUME LogInv, NEW m \in Sent, NEW e \in Elems(m.entries)
    PROVE  e \in Entry
  BY SentTyped DEF AppendArgsOK, Elems

LEMMA AppliedPending ==
    ASSUME LogInv, LogInv', SentAgree, PendingSent, NEW j \in Server, NEW job \in AppendJobs(j),
           AppendEntriesResume(j, job), AppendEntriesApplies(j, job),
           NEW e, IsPending(job, e)
    PROVE  Has(j, e)'
  <1>1. PICK k \in DOMAIN job.pending : job.pending[k].log = e
    BY DEF IsPending
  <1>2. /\ m_logs'[j] = AppliedLog(j, job) /\ m_lastSnapshotIndex' = m_lastSnapshotIndex
        /\ StillApplies(j, job) /\ job.pending \in Seq(Writes) /\ job.args \in Sent
    BY AppliedStep
  <1>3. e \in Elems(job.args.entries) /\ e \in Entry
    <2>1. e \in Elems(job.args.entries)
      BY <1>1 DEF PendingSent
    <2>2. QED
      BY <1>2, <2>1, SentEntry
  <1>4. CASE k \in LivePending(j, job)
    <2>1. ASSUME NEW a \in DOMAIN job.pending, NEW b \in DOMAIN job.pending,
                 job.pending[a].log.index = job.pending[b].log.index
          PROVE  job.pending[a].log = job.pending[b].log
      <3>1. PICK f \in Elems(job.args.entries) : f = job.pending[b].log
        BY DEF PendingSent
      <3>2. QED
        BY <1>2, <2>1, <3>1, PendingAgrees
    <2>2. \E x \in 1 .. Len(AppliedLog(j, job)) : AppliedLog(j, job)[x] = job.pending[k].log
      BY <1>2, <1>4, <2>1, AppliedHolds
    <2>3. QED
      BY <1>1, <1>2, <1>3, <2>2, HasPosition
  <1>5. CASE k \notin LivePending(j, job)
    <2>1. ~(e.index > m_lastSnapshotIndex[j])
      BY <1>1, <1>5 DEF LivePending
    <2>2. e.index <= m_lastSnapshotIndex[j]
      BY <1>3, <2>1, HasFact
    <2>3. QED
      BY <1>2, <2>2 DEF Has
  <1>6. QED
    BY <1>4, <1>5

LEMMA AppliedKeeps ==
    ASSUME LogInv, LogInv', SentAgree, PendingSent, NEW j \in Server, NEW job \in AppendJobs(j),
           AppendEntriesResume(j, job), AppendEntriesApplies(j, job),
           NEW m \in Sent, m.term = m_currentTerm[j], NEW e \in Elems(m.entries), Has(j, e)
    PROVE  Has(j, e)'
  <1>1. /\ m_logs'[j] = AppliedLog(j, job) /\ m_lastSnapshotIndex' = m_lastSnapshotIndex
        /\ StillApplies(j, job) /\ job.pending \in Seq(Writes) /\ m.term = job.args.term
    BY AppliedStep
  <1>2. e \in Entry
    BY SentEntry
  <1>3. CASE e.index <= m_lastSnapshotIndex[j]
    BY <1>1, <1>3 DEF Has
  <1>4. CASE ~(e.index <= m_lastSnapshotIndex[j])
    <2>1. PICK new \in Seq(Entry) :
              /\ new = AppliedLog(j, job)
              /\ Len(new) = Len(m_logs[j]) + Len(Additions(j, job))
              /\ \A x \in 1 .. Len(new) :
                     /\ new[x].index = m_lastSnapshotIndex[j] + x
                     /\ \/ x <= Len(m_logs[j]) /\ new[x] = m_logs[j][x]
                        \/ \E n \in LivePending(j, job) : new[x] = job.pending[n].log
      BY <1>1, AppliedFacts
    <2>2. InLog(j, e.index) /\ EntryAt(j, e.index) = e
      BY <1>4 DEF Has
    <2>3. PICK s \in Nat, y \in Nat, old \in Nat, more \in Nat :
              /\ s = m_lastSnapshotIndex[j] /\ y = e.index
              /\ old = Len(m_logs[j]) /\ more = Len(Additions(j, job))
      <3>1. Len(m_logs[j]) \in Nat
        BY LastIndexFact DEF LogInv
      <3>2. Additions(j, job) \in Seq(Writes)
        BY <1>1, PendingPicked
      <3>3. Len(Additions(j, job)) \in Nat
        BY <3>2
      <3>4. QED
        BY <1>2, <3>1, <3>3, HasFact
    <2>4. PICK x \in 1 .. old : x = y - s /\ m_logs[j][x] = e
      BY <2>2, <2>3 DEF InLog, EntryAt
    <2>5. x \in 1 .. Len(new)
      BY <2>1, <2>3, <2>4
    <2>6. new[x].index = e.index
      <3>1. new[x].index = m_lastSnapshotIndex[j] + x
        BY <2>1, <2>5, Zenon
      <3>2. QED
        BY <2>3, <2>4, <3>1
    <2>7. new[x] = e
      <3>1. CASE new[x] = m_logs[j][x]
        BY <2>4, <3>1
      <3>2. CASE \E n \in LivePending(j, job) : new[x] = job.pending[n].log
        <4>1. PICK n \in LivePending(j, job) : new[x] = job.pending[n].log
          BY <3>2
        <4>2. n \in DOMAIN job.pending
          BY DEF LivePending
        <4>3. QED
          BY <1>1, <2>6, <4>1, <4>2, PendingAgrees
      <3>3. QED
        BY <2>1, <2>5, <3>1, <3>2
    <2>8. QED
      BY <1>1, <1>2, <2>1, <2>5, <2>7, HasPosition
  <1>5. QED
    BY <1>3, <1>4

----------------------------------------------------------------------------
\* The invariant.

\* What is known before a step.
Before ==
    /\ ElectionInv /\ LogInv /\ LogInv' /\ EntryInv /\ CommitWithinLog /\ AckInv
    /\ NoRestarts /\ NoFailedWrites /\ [Next]_vars

\* A node keeps the entries of a request of its term, whatever step comes.
LEMMA HasNext ==
    ASSUME Before, NEW j \in Server, NEW m \in Sent, m.term = m_currentTerm[j],
           NEW e \in Elems(m.entries), Has(j, e)
    PROVE  Has(j, e)'
  <1>1. LogKept(j) \/ Applies(j)
    BY LogStep DEF Before, EntryInv
  <1>2. CASE LogKept(j)
    <2>1. m_lastSnapshotIndex'[j] >= m_lastSnapshotIndex[j]
      BY IndexNext DEF Before, IndexGoal, Forward
    <2>2. e \in Entry
      BY SentEntry DEF Before
    <2>3. QED
      BY <1>2, <2>1, <2>2, HasKept DEF Before
  <1>3. CASE Applies(j)
    <2>1. PICK job \in AppendJobs(j) : AppendEntriesResume(j, job) /\ AppendEntriesApplies(j, job)
      BY <1>3 DEF Applies
    <2>2. QED
      BY <2>1, AppliedKeeps DEF Before, AckInv
  <1>4. QED
    BY <1>1, <1>2, <1>3

\* A heartbeat's request carries entries of its sender's log.
LEMMA FreshFacts ==
    ASSUME Before, NEW m, NewRequest(m)
    PROVE  /\ m.from \in Server /\ m_state[m.from] = Leader /\ m.term = m_currentTerm[m.from]
           /\ <<m.term, m.from>> \in elected
           /\ UNCHANGED <<m_logs, m_lastSnapshotIndex>>
           /\ \A e \in Elems(m.entries) :
                  /\ e \in Entry /\ Has(m.from, e)
                  /\ e.index > m_lastSnapshotIndex[m.from]
  <1>1. PICK i \in Server, j \in Server :
            /\ j \in Server \ {i} /\ doHeartBeat(i) /\ m = AppendEntriesArgs(i, j)
            /\ HeartBeatAsserts(i, j) /\ ~(m_nextIndex[i][j] <= m_lastSnapshotIndex[i])
    BY DEF NewRequest
  <1>2. m.from = i /\ m.term = m_currentTerm[i]
    BY <1>1 DEF AppendEntriesArgs
  <1>3. m_state[i] = Leader /\ UNCHANGED <<m_logs, m_lastSnapshotIndex>>
    BY <1>1 DEF doHeartBeat, logVars
  <1>4. <<m.term, i>> \in elected
    BY <1>2, <1>3 DEF Before, EntryInv, LeadersElected
  <1>5. /\ AppendArgsOK(m)
        /\ \A k \in 1 .. Len(m.entries) : /\ InLog(i, m.prevLogIndex + k)
                                          /\ m.entries[k] = EntryAt(i, m.prevLogIndex + k)
    BY <1>1, HeartBeatArgs DEF Before
  <1>6. ASSUME NEW e \in Elems(m.entries)
        PROVE  e \in Entry /\ Has(i, e) /\ e.index > m_lastSnapshotIndex[i]
    <2>1. PICK s \in Seq(Entry), prev \in Nat : s = m.entries /\ prev = m.prevLogIndex
      BY <1>5 DEF AppendArgsOK
    <2>2. PICK k \in 1 .. Len(s) : e = s[k]
      BY <2>1 DEF Elems
    <2>3. PICK x \in Int : x = prev + k
      BY <2>2
    <2>4. InLog(i, x) /\ e = EntryAt(i, x)
      BY <1>5, <2>1, <2>2, <2>3
    <2>5. e \in Entry /\ e.index = x /\ m_lastSnapshotIndex[i] < x
      BY <2>4, EntryAtFact DEF Before, LogInv
    <2>6. m_lastSnapshotIndex[i] \in Nat
      BY DEF Before, LogInv, NodeTypes
    <2>7. QED
      BY <2>3, <2>4, <2>5, <2>6 DEF Has
  <1>7. QED
    BY <1>2, <1>3, <1>4, <1>6

\* One sender per term.
LEMMA OneSender ==
    ASSUME Before, NEW t, NEW a \in Server, NEW b \in Server, <<t, a>> \in elected, <<t, b>> \in elected
    PROVE  a = b
  <1>1. PICK e \in elected, f \in elected : e = <<t, a>> /\ f = <<t, b>>
    OBVIOUS
  <1>2. e[1] = f[1] /\ e[2] = a /\ f[2] = b
    BY <1>1
  <1>3. e[2] = f[2]
    BY <1>2, SafetyFromInv DEF ElectionSafety, Before
  <1>4. QED
    BY <1>2, <1>3

LEMMA SentElectedNext ==
    ASSUME Before
    PROVE  SentElected'
  <1>1. elected \subseteq elected'
    BY RolesElected DEF Before, EntryInv
  <1>2. ASSUME NEW m \in Sent' PROVE <<m.term, m.from>> \in elected'
    <2>1. CASE m \in Sent
      BY <1>1, <2>1 DEF Before, AckInv, SentElected
    <2>2. CASE m \notin Sent
      <3>1. NewRequest(m)
        BY <2>2, SentNext DEF Before
      <3>2. QED
        BY <1>1, <3>1, FreshFacts
    <2>3. QED
      BY <2>1, <2>2
  <1>3. QED
    BY <1>2 DEF SentElected

\* What the sender has, if it leads in the term of the request, before the step.
LEMMA SenderHas ==
    ASSUME Before, NEW m \in Sent', m_state[m.from] = Leader, m_currentTerm[m.from] = m.term,
           NEW e \in Elems(m.entries)
    PROVE  e \in Entry /\ Has(m.from, e)
  <1>1. CASE m \in Sent
    BY <1>1, SentEntry DEF Before, AckInv, LeaderHasSent
  <1>2. CASE m \notin Sent
    <2>1. NewRequest(m)
      BY <1>2, SentNext DEF Before
    <2>2. QED
      BY <2>1, FreshFacts
  <1>3. QED
    BY <1>1, <1>2

\* Who leads after a step and has sent requests in its term led before it.
LEMMA SenderLed ==
    ASSUME Before, NEW m \in Sent', m.from \in Server,
           m_state'[m.from] = Leader, m_currentTerm'[m.from] = m.term
    PROVE  m_state[m.from] = Leader /\ m_currentTerm[m.from] = m.term
  <1>1. RolesKept \/ \E i \in Server : doElection(i) \/ Wins(i)
    BY Roles DEF Before
  <1>2. CASE RolesKept
    BY <1>2 DEF RolesKept, Leader, Follower
  <1>3. CASE \E i \in Server : doElection(i)
    BY <1>3 DEF doElection, Leader, Candidate, Before, LogInv, NodeTypes
  <1>4. CASE \E i \in Server : Wins(i)
    <2>1. PICK i \in Server : Wins(i)
      BY <1>4
    <2>2. m_currentTerm' = m_currentTerm /\ m_state' = [m_state EXCEPT ![i] = Leader]
      BY <2>1 DEF Wins, BecomeLeader
    <2>3. CASE i # m.from
      BY <2>2, <2>3 DEF Before, LogInv, NodeTypes
    <2>4. CASE i = m.from
      <3>1. <<m_currentTerm[i], i>> \notin elected /\ m_state[i] = Candidate
        BY <2>1 DEF Wins, Before, EntryInv, LeadersElected
      <3>2. m.term = m_currentTerm[i]
        BY <2>2, <2>4
      <3>3. m \notin Sent
        BY <2>4, <3>1, <3>2 DEF Before, AckInv, SentElected
      <3>4. NewRequest(m)
        BY <3>3, SentNext DEF Before
      <3>5. <<m.term, m.from>> \in elected
        BY <3>4, FreshFacts
      <3>6. QED
        BY <2>4, <3>1, <3>2, <3>5
    <2>5. QED
      BY <2>3, <2>4
  <1>5. QED
    BY <1>1, <1>2, <1>3, <1>4

LEMMA LeaderHasSentNext ==
    ASSUME Before
    PROVE  LeaderHasSent'
  <1>1. SUFFICES ASSUME NEW m \in Sent', m_state'[m.from] = Leader, m_currentTerm'[m.from] = m.term,
                        NEW e \in Elems(m.entries)
                 PROVE  Has(m.from, e)'
    BY DEF LeaderHasSent
  <1>2. m.from \in Server
    <2>1. CASE m \in Sent
      BY <2>1, SentTyped DEF Before, AppendArgsOK
    <2>2. CASE m \notin Sent
      BY <2>2, SentNext, FreshFacts DEF Before
    <2>3. QED
      BY <2>1, <2>2
  <1>3. m_state[m.from] = Leader /\ m_currentTerm[m.from] = m.term
    BY <1>1, <1>2, SenderLed
  <1>4. e \in Entry /\ Has(m.from, e)
    BY <1>1, <1>3, SenderHas
  <1>5. LogKept(m.from)
    BY <1>1, <1>2, <1>3, LeaderKeepsLog DEF Before
  <1>6. m_lastSnapshotIndex'[m.from] >= m_lastSnapshotIndex[m.from]
    BY <1>2, IndexNext DEF Before, IndexGoal, Forward
  <1>7. PICK i \in Server : i = m.from
    BY <1>2
  <1>8. Has(i, e)'
    BY <1>4, <1>5, <1>6, <1>7, HasKept DEF Before
  <1>9. QED
    BY <1>7, <1>8

LEMMA SentAgreeNext ==
    ASSUME Before
    PROVE  SentAgree'
  <1>1. ASSUME NEW m \in Sent', NEW n \in Sent', m.term = n.term, m \notin Sent,
               NEW e \in Elems(m.entries), NEW f \in Elems(n.entries), e.index = f.index
        PROVE  e = f
    <2>1. NewRequest(m)
      BY <1>1, SentNext DEF Before
    <2>2. PICK i \in Server : /\ i = m.from /\ m_state[i] = Leader /\ m.term = m_currentTerm[i]
                              /\ <<m.term, i>> \in elected
      BY <2>1, FreshFacts
    <2>3. e \in Entry /\ Has(i, e) /\ e.index > m_lastSnapshotIndex[i]
      BY <1>1, <2>1, <2>2, FreshFacts
    <2>4. n.from \in Server /\ <<n.term, n.from>> \in elected
      <3>1. CASE n \in Sent
        BY <3>1, SentTyped DEF Before, AppendArgsOK, AckInv, SentElected
      <3>2. CASE n \notin Sent
        BY <3>2, SentNext, FreshFacts DEF Before
      <3>3. QED
        BY <3>1, <3>2
    <2>5. n.from = i
      BY <1>1, <2>2, <2>4, OneSender
    <2>6. f \in Entry /\ Has(i, f)
      BY <1>1, <2>2, <2>5, SenderHas
    <2>7. EntryAt(i, e.index) = e
      BY <2>3, HasFact DEF Before
    <2>8. EntryAt(i, f.index) = f
      BY <1>1, <2>3, <2>6, HasFact DEF Before
    <2>9. QED
      BY <1>1, <2>7, <2>8
  <1>2. ASSUME NEW m \in Sent', NEW n \in Sent', m.term = n.term,
               NEW e \in Elems(m.entries), NEW f \in Elems(n.entries), e.index = f.index
        PROVE  e = f
    <2>1. CASE m \in Sent /\ n \in Sent
      BY <1>2, <2>1 DEF Before, AckInv, SentAgree
    <2>2. CASE m \notin Sent
      BY <1>1, <1>2, <2>2
    <2>3. CASE n \notin Sent
      BY <1>1, <1>2, <2>3
    <2>4. QED
      BY <2>1, <2>2, <2>3
  <1>3. QED
    BY <1>2 DEF SentAgree

\* A handler that has just taken its request.
LEMMA NewHandlerFacts ==
    ASSUME Before, NEW j \in Server, NEW job, NewHandler(j, job)
    PROVE  /\ job.args \in appendArgs /\ AppendArgsOK(job.args)
           /\ job.pending = PendingWrites(j, job.args)
           /\ m_currentTerm'[j] = job.args.term
           /\ UNCHANGED <<m_logs, m_lastSnapshotIndex>>
  <1>1. PICK m \in appendArgs : /\ AppendEntries(j, m) /\ FollowTerm(j, m.term)
                                /\ job.args = m /\ job.pending = PendingWrites(j, m)
    BY DEF NewHandler
  <1>2. m_currentTerm'[j] = m.term
    BY <1>1 DEF FollowTerm, Before, LogInv, NodeTypes
  <1>3. UNCHANGED <<m_logs, m_lastSnapshotIndex>>
    BY <1>1 DEF AppendEntries, logVars
  <1>4. AppendArgsOK(m)
    BY DEF Before, LogInv, AppendCallTypes
  <1>5. QED
    BY <1>1, <1>2, <1>3, <1>4

\* Handlers after a step.
LEMMA HandlersNext ==
    ASSUME Before, NEW j \in Server, NEW job \in AppendJobs(j)'
    PROVE  \/ \E old \in AppendJobs(j) : old.args = job.args /\ old.pending = job.pending
           \/ NewHandler(j, job)
  <1>1. job \in jobs'[j] /\ job.kind = "append"
    BY DEF AppendJobs
  <1>2. OldHandler(j, job) \/ NewHandler(j, job)
    BY <1>1, OriginsNext DEF Before, Origins
  <1>3. QED
    BY <1>2 DEF OldHandler, AppendJobs

LEMMA PendingSentNext ==
    ASSUME Before
    PROVE  PendingSent'
  <1>1. SUFFICES ASSUME NEW j \in Server, NEW job \in AppendJobs(j)', NEW k \in DOMAIN job.pending
                 PROVE  job.pending[k].log \in Elems(job.args.entries)
    BY DEF PendingSent
  <1>2. CASE \E old \in AppendJobs(j) : old.args = job.args /\ old.pending = job.pending
    <2>1. PICK old \in AppendJobs(j) : old.args = job.args /\ old.pending = job.pending
      BY <1>2
    <2>2. old.pending[k].log \in Elems(old.args.entries)
      BY <2>1 DEF Before, AckInv, PendingSent
    <2>3. QED
      BY <2>1, <2>2
  <1>3. CASE NewHandler(j, job)
    <2>1. PICK m : m = job.args /\ AppendArgsOK(m) /\ job.pending = PendingWrites(j, m)
      BY <1>3, NewHandlerFacts
    <2>2. \E x \in DOMAIN m.entries : job.pending[k].log = m.entries[x]
      BY <2>1, PendingWritesTyped DEF Before
    <2>3. QED
      BY <2>1, <2>2 DEF Elems
  <1>4. QED
    BY <1>2, <1>3, HandlersNext

LEMMA TakenTermNext ==
    ASSUME Before
    PROVE  TakenTerm'
  <1>0. \A k \in Server : /\ m_currentTerm'[k] >= m_currentTerm[k]
                          /\ m_currentTerm[k] \in Nat /\ m_currentTerm'[k] \in Nat
    BY TermsForward DEF Before, LogInv, NodeTypes
  <1>1. ASSUME NEW j \in Server, NEW job \in AppendJobs(j)'
        PROVE  job.args.term <= m_currentTerm'[j]
    <2>1. CASE \E old \in AppendJobs(j) : old.args = job.args /\ old.pending = job.pending
      <3>1. job.args.term <= m_currentTerm[j] /\ job.args \in Sent
        BY <2>1, JobSent DEF Before, AckInv, TakenTerm
      <3>2. job.args.term \in Nat
        BY <3>1, SentTyped DEF Before, AppendArgsOK
      <3>3. QED
        BY <1>0, <3>1, <3>2
    <2>2. CASE NewHandler(j, job)
      BY <1>0, <2>2, NewHandlerFacts
    <2>3. QED
      BY <2>1, <2>2, HandlersNext
  <1>2. ASSUME NEW r \in appendReplies', r.success PROVE r.args.term <= m_currentTerm'[r.from]
    <2>1. CASE r \in appendReplies
      <3>1. r.args.term <= m_currentTerm[r.from]
        BY <1>2, <2>1 DEF Before, AckInv, TakenTerm
      <3>2. r.args.term \in Nat /\ r.from \in Server
        BY <2>1 DEF Before, LogInv, AppendCallTypes, AppendArgsOK
      <3>3. QED
        BY <1>0, <3>1, <3>2
    <2>2. CASE r \notin appendReplies
      <3>1. NewReply(r)
        BY <2>2, RepliesNext DEF Before
      <3>2. PICK j \in Server : \E job \in AppendJobs(j) : Succeeds(j, job, r)
        BY <1>2, <3>1 DEF NewReply, Succeeds
      <3>3. PICK job \in AppendJobs(j) : Succeeds(j, job, r)
        BY <3>2
      <3>4. r.args = job.args /\ r.from = job.args.to
        BY <3>3 DEF Succeeds, AppendReply
      <3>5. job.args.to = j /\ m_currentTerm[j] = job.args.term
        <4>1. JobOK(j, job) /\ job.kind = "append"
          BY DEF AppendJobs, Before, LogInv, JobTypes
        <4>2. m_currentTerm[j] = job.args.term
          BY <3>3, AppliedStep DEF Succeeds, Before
        <4>3. QED
          BY <4>1, <4>2 DEF JobOK
      <3>6. QED
        BY <1>0, <3>4, <3>5
    <2>3. QED
      BY <2>1, <2>2
  <1>3. QED
    BY <1>1, <1>2 DEF TakenTerm

LEMMA WaitingHasNext ==
    ASSUME Before
    PROVE  WaitingHas'
  <1>1. SUFFICES ASSUME NEW j \in Server, NEW job \in AppendJobs(j)',
                        m_currentTerm'[j] = job.args.term,
                        NEW e \in Elems(job.args.entries)
                 PROVE  Has(j, e)' \/ IsPending(job, e)
    BY DEF WaitingHas, IsPending
  <1>2. CASE \E old \in AppendJobs(j) : old.args = job.args /\ old.pending = job.pending
    <2>1. PICK old \in AppendJobs(j) : old.args = job.args /\ old.pending = job.pending
      BY <1>2
    <2>2. old.args.term <= m_currentTerm[j] /\ old.args \in Sent
      BY JobSent DEF Before, AckInv, TakenTerm
    <2>3. PICK t \in Nat, c \in Nat : t = old.args.term /\ c = m_currentTerm[j]
      BY <2>2, SentTyped DEF Before, AppendArgsOK, LogInv, NodeTypes
    <2>4. m_currentTerm'[j] >= m_currentTerm[j]
      BY TermsForward DEF Before
    <2>5. t = c
      BY <1>1, <2>1, <2>2, <2>3, <2>4
    <2>6. Has(j, e) \/ IsPending(old, e)
      BY <1>1, <2>1, <2>3, <2>5 DEF Before, AckInv, WaitingHas
    <2>7. IsPending(old, e) => IsPending(job, e)
      BY <2>1 DEF IsPending
    <2>8. Has(j, e) => Has(j, e)'
      BY <1>1, <2>1, <2>2, <2>3, <2>5, HasNext
    <2>9. QED
      BY <2>6, <2>7, <2>8
  <1>3. CASE NewHandler(j, job)
    <2>1. PICK m \in appendArgs : /\ m = job.args /\ AppendArgsOK(m)
                                  /\ job.pending = PendingWrites(j, m)
                                  /\ UNCHANGED <<m_logs, m_lastSnapshotIndex>>
      BY <1>3, NewHandlerFacts
    <2>2. PICK k \in DOMAIN m.entries : e = m.entries[k]
      BY <1>1, <2>1 DEF Elems
    <2>3. e \in Entry /\ e \in Known
      <3>1. e \in Elems(m.entries)
        BY <1>1, <2>1
      <3>2. e \in InCalls
        BY <3>1 DEF InCalls
      <3>3. e \in Known
        BY <3>2 DEF Known
      <3>4. QED
        BY <3>3, KnownHolds DEF Before
    <2>4. CASE \E n \in DOMAIN job.pending : job.pending[n].log = e
      BY <2>4 DEF IsPending
    <2>5. CASE e.index <= m_lastSnapshotIndex[j]
      BY <2>1, <2>5 DEF Has
    <2>6. CASE /\ ~(e.index <= m_lastSnapshotIndex[j]) /\ e.index <= LastLogIndex(j)
               /\ EntryAt(j, e.index).term = e.term
      <3>1. PICK x \in Int : x = e.index
        BY <2>3 DEF Entry
      <3>2. m_lastSnapshotIndex[j] < x
        BY <2>3, <2>6, <3>1, HasFact DEF Before
      <3>3. InLog(j, x) /\ EntryAt(j, x) \in Entry /\ EntryAt(j, x).index = x
        BY <2>6, <3>1, <3>2, EntryAtFact DEF Before, LogInv
      <3>4. EntryAt(j, x) \in Known
        <4>1. LogsIn(Known)
          BY KnownHolds DEF Before, HeldIn
        <4>2. QED
          BY <3>3, <4>1, EntryAtIn DEF Before
      <3>5. EntryAt(j, x) = e
        BY <2>3, <2>6, <3>1, <3>3, <3>4 DEF Before, EntryInv, OneCommand
      <3>6. Has(j, e)
        BY <3>1, <3>3, <3>5 DEF Has
      <3>7. QED
        BY <2>1, <3>6 DEF Has, InLog, EntryAt
    <2>7. QED
      BY <2>1, <2>2, <2>4, <2>5, <2>6, PendingWritesTyped DEF Before
  <1>4. QED
    BY <1>2, <1>3, HandlersNext

LEMMA AckedNext ==
    ASSUME Before
    PROVE  AckedEntriesKept'
  <1>1. SUFFICES ASSUME NEW r \in appendReplies', r.success, m_currentTerm'[r.from] = r.args.term,
                        NEW k \in DOMAIN r.args.entries
                 PROVE  Has(r.from, r.args.entries[k])'
    BY DEF AckedEntriesKept, Has
  <1>2. PICK e \in Elems(r.args.entries) : e = r.args.entries[k]
    BY <1>1 DEF Elems
  <1>3. CASE r \in appendReplies
    <2>1. PICK j \in Server : j = r.from
      BY <1>3 DEF Before, LogInv, AppendCallTypes, AppendArgsOK
    <2>2. r.args \in Sent
      BY <1>3 DEF Sent, WithReplies
    <2>3. PICK t \in Nat, c \in Nat : t = r.args.term /\ c = m_currentTerm[j]
      BY <2>2, SentTyped DEF Before, AppendArgsOK, LogInv, NodeTypes
    <2>4. t <= c
      BY <1>1, <1>3, <2>1, <2>3 DEF Before, AckInv, TakenTerm
    <2>5. m_currentTerm'[j] >= m_currentTerm[j]
      BY TermsForward DEF Before
    <2>6. t = c
      BY <1>1, <2>1, <2>3, <2>4, <2>5
    <2>7. Has(j, e)
      BY <1>1, <1>2, <1>3, <2>1, <2>3, <2>6 DEF Before, AckInv, AckedEntriesKept, Has
    <2>8. Has(j, e)'
      BY <2>2, <2>3, <2>6, <2>7, HasNext
    <2>9. QED
      BY <1>2, <2>1, <2>8
  <1>4. CASE r \notin appendReplies
    <2>1. NewReply(r)
      BY <1>4, RepliesNext DEF Before
    <2>2. PICK j \in Server : \E job \in AppendJobs(j) : Succeeds(j, job, r)
      BY <1>1, <2>1 DEF NewReply, Succeeds
    <2>3. PICK job \in AppendJobs(j) : /\ Succeeds(j, job, r)
                                       /\ r.args = job.args /\ r.from = job.args.to
      <3>1. PICK job \in AppendJobs(j) : Succeeds(j, job, r)
        BY <2>2
      <3>2. r.args = job.args /\ r.from = job.args.to
        BY <3>1 DEF Succeeds, AppendReply
      <3>3. QED
        BY <3>1, <3>2
    <2>4. r.from = j
      <3>1. JobOK(j, job) /\ job.kind = "append"
        BY DEF AppendJobs, Before, LogInv, JobTypes
      <3>2. QED
        BY <2>3, <3>1 DEF JobOK
    <2>5. AppendEntriesResume(j, job) /\ AppendEntriesApplies(j, job)
      BY <2>3 DEF Succeeds
    <2>6. m_currentTerm[j] = job.args.term /\ job.args \in Sent
      BY <2>5, AppliedStep DEF Before
    <2>7. Has(j, e) \/ IsPending(job, e)
      BY <1>2, <2>3, <2>6 DEF Before, AckInv, WaitingHas
    <2>8. CASE Has(j, e)
      <3>1. Has(j, e)'
        BY <1>2, <2>3, <2>6, <2>8, HasNext
      <3>2. QED
        BY <1>2, <2>4, <3>1
    <2>9. CASE IsPending(job, e)
      <3>1. Has(j, e)'
        BY <2>5, <2>9, AppliedPending DEF Before, AckInv
      <3>2. QED
        BY <1>2, <2>4, <3>1
    <2>10. QED
      BY <2>7, <2>8, <2>9
  <1>5. QED
    BY <1>3, <1>4

LEMMA InitAckInv == Init => AckInv
  <1>1. SUFFICES ASSUME Init PROVE AckInv
    OBVIOUS
  <1>2. appendArgs = {} /\ appendReplies = {} /\ \A j \in Server : AppendJobs(j) = {}
    BY <1>1 DEF Init, AppendJobs
  <1>3. Sent = {}
    BY <1>2 DEF Sent, WithJobs, WithReplies
  <1>4. QED
    BY <1>2, <1>3 DEF AckInv, SentElected, LeaderHasSent, SentAgree, PendingSent, TakenTerm, WaitingHas,
       AckedEntriesKept

\* The requests of a term agree, and their entries are where they have been acknowledged.
THEOREM AckInvariant ==
    ASSUME NoRestarts, NoFailedWrites
    PROVE  Spec => []AckInv
  <1>1. NoTornRestart
    BY DEF NoRestarts, NoTornRestart
  <1>2. Spec => [](ElectionInv /\ LogInv /\ EntryInv /\ CommitWithinLog)
    <2>1. Spec => []ElectionInv
      BY <1>1, ElectionInvariant
    <2>2. Spec => []EntryInv
      BY <1>1, EntryInvariant
    <2>3. Spec => []CommitWithinLog
      BY CommitWithinLogHolds
    <2>4. QED
      BY <2>1, <2>2, <2>3, LogInvariant, PTL
  <1>3. /\ ElectionInv /\ LogInv /\ LogInv' /\ EntryInv /\ CommitWithinLog /\ AckInv
        /\ [Next]_vars
        => AckInv'
    <2>1. SUFFICES ASSUME Before PROVE AckInv'
      BY DEF Before
    <2>2. QED
      BY <2>1, SentElectedNext, LeaderHasSentNext, SentAgreeNext, PendingSentNext, TakenTermNext,
         WaitingHasNext, AckedNext DEF AckInv
  <1>4. QED
    BY <1>2, <1>3, InitAckInv, PTL DEF Spec

\* What AppendEntries has acknowledged stays in the follower's log while its term lasts, whatever
\* it replaced or appended while another handler was waiting for the WAL.
THEOREM AckedEntriesKeptHolds ==
    ASSUME NoRestarts, NoFailedWrites
    PROVE  Spec => []AckedEntriesKept
  <1>1. Spec => []AckInv
    BY AckInvariant
  <1>2. AckInv => AckedEntriesKept
    BY DEF AckInv
  <1>3. QED
    BY <1>1, <1>2, PTL
=============================================================================
