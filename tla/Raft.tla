-------------------------------- MODULE Raft --------------------------------
(***************************************************************************)
(* The consensus core: class raft (src/src/raft/raft.cc) of every node,    *)
(* with the part of Persister it depends on (the mmapped node state and    *)
(* the write-ahead log) and the RPCs between nodes.                        *)
(*                                                                         *)
(* One action is one critical section of raft::m_mtx.  A handler that      *)
(* releases the mutex and takes it again (AppendEntries around the WAL     *)
(* write, doElection before its deferred persistState, Start before its    *)
(* AppendLogAsync) is split into actions exactly there.  An assert that    *)
(* fails, exit(-1) and an access past the end of m_logs end the process    *)
(* (Abort).  Timers are nondeterminism.                                    *)
(***************************************************************************)
EXTENDS Integers, Sequences, FiniteSets, FiniteSetsExt, WalReplay, SeqPick

CONSTANTS
    Server,          \* the nodes
    Node0,           \* the node whose id is 0: a zero-filled state file names it in votedFor
    NoVote,          \* m_voteForId = -1
    Command,         \* what clients submit
    Ballots,         \* bound: <<i, t, j>> if i may stand in term t and its RequestVote may reach j
    Reach,           \* bound: <<i, j>> if AppendEntries and InstallSnapshot calls of i may reach j
    MaxLog,          \* bound: highest log index a client may cause
    Restarts,        \* bound: <<i, n>> if process i may be restarted for the n-th time
    MaxWalFailures,  \* bound: WAL batches that fail to be written or synced
    MaxInFlight,     \* bound: MaxInFlight[<<i, j>>] AppendEntries and InstallSnapshot calls of i to j
                     \* that are not answered yet
    SnapshotAt,      \* the indexes at which the service takes a snapshot
    TornPersist      \* whether the unlocked persistState of doElection can be overtaken

ASSUME ServerAssumption ==
    /\ IsFiniteSet(Server)
    /\ Node0 \in Server
    /\ NoVote \notin Server

ASSUME TornPersistAssumption == TornPersist \in BOOLEAN

ASSUME SnapshotAtAssumption == SnapshotAt \subseteq Nat

VARIABLES
    \* class raft, in memory
    m_currentTerm, m_voteForId, m_state, votedNum,
    m_logs, m_lastSnapshotIndex, m_lastSnapshotTerm,
    m_commitIndex, m_lastApplied, m_stableLogIndex,
    m_nextIndex, m_matchIndex,
    \* threads that have left the mutex and will act again
    jobs,            \* entries on their way to the WAL, with what happens after
    electPersist,    \* the persistState that doElection has deferred
    snapThreads,     \* peers for which a leaderSendSnapShot thread is about to run
    \* what a crash of the process leaves behind
    fmp, wal,
    \* the process itself
    up, boot, m_compactedSnapshotIndex, walFailures,
    \* the network
    voteArgs, voteReplies, appendArgs, appendReplies, snapArgs, snapReplies,
    \* history, read by no action
    granters, votes, elected

electionVars == <<m_currentTerm, m_voteForId, m_state, votedNum>>
logVars      == <<m_logs, m_lastSnapshotIndex, m_lastSnapshotTerm,
                  m_commitIndex, m_lastApplied, m_stableLogIndex>>
leaderVars   == <<m_nextIndex, m_matchIndex>>
threadVars   == <<jobs, electPersist, snapThreads>>
diskVars     == <<fmp, wal, m_compactedSnapshotIndex>>
processVars  == <<up, boot, walFailures>>
voteMsgs     == <<voteArgs, voteReplies>>
appendMsgs   == <<appendArgs, appendReplies>>
snapMsgs     == <<snapArgs, snapReplies>>
historyVars  == <<granters, votes, elected>>
vars == <<electionVars, logVars, leaderVars, threadVars, diskVars, processVars,
          voteMsgs, appendMsgs, snapMsgs, historyVars>>

Follower  == "follower"
Candidate == "candidate"
Leader    == "leader"

\* AppendEntriesReply.updateNextIndex = -100: the reply says nothing about nextIndex.
NoHint == -100

\* electPersist when no persistState is deferred, when one is that has not read the node's fields
\* yet, and when it has read them.
NotPending == <<>>
Deferred   == <<"deferred">>
Loaded(meta) == <<"loaded", meta>>

----------------------------------------------------------------------------
\* The log of a node.  m_logs[1] has index m_lastSnapshotIndex + 1.

IsMajority(n) == n >= Cardinality(Server) \div 2 + 1

LastLogIndex(i) ==
    IF m_logs[i] = <<>> THEN m_lastSnapshotIndex[i] ELSE m_logs[i][Len(m_logs[i])].index

LastLogTerm(i) ==
    IF m_logs[i] = <<>> THEN m_lastSnapshotTerm[i] ELSE m_logs[i][Len(m_logs[i])].term

InLog(i, index) == index - m_lastSnapshotIndex[i] \in 1 .. Len(m_logs[i])

EntryAt(i, index) == m_logs[i][index - m_lastSnapshotIndex[i]]

TermAt(i, index) ==
    IF index = m_lastSnapshotIndex[i] THEN m_lastSnapshotTerm[i] ELSE EntryAt(i, index).term

\* The entries of m_logs with an index in from .. to.
LogSlice(i, from, to) ==
    SubSeq(m_logs[i], from - m_lastSnapshotIndex[i], to - m_lastSnapshotIndex[i])

\* The entries a snapshot at index leaves in m_logs.  Faulty: one more than the snapshot covers is
\* kept, or dropped.
FaultyLogAboveKeepsOne(i, index)  == LogSlice(i, index, LastLogIndex(i))
FaultyLogAboveDropsOne(i, index) == LogSlice(i, index + 2, LastLogIndex(i))
LogAbove(i, index) == LogSlice(i, index + 1, LastLogIndex(i))

\* An index of node i moves up to a value and never down.  Faulty: it is assigned.
FaultyRaise(f, i, index) == [f EXCEPT ![i] = index]
Raise(f, i, index) == [f EXCEPT ![i] = Max({@, index})]

----------------------------------------------------------------------------
\* The mmapped node state (Persister::fmp), which outlives the process.

MetaFields == {"term", "votedFor", "snapshot_index", "snapshot_term", "commit_index"}

\* What persistState copies.  Faulty: the vote is left out.
FaultyMeta(i) == [term           |-> m_currentTerm[i],
                  votedFor       |-> NoVote,
                  snapshot_index |-> m_lastSnapshotIndex[i],
                  snapshot_term  |-> m_lastSnapshotTerm[i],
                  commit_index   |-> m_commitIndex[i]]

Meta(i) == [term           |-> m_currentTerm[i],
            votedFor       |-> m_voteForId[i],
            snapshot_index |-> m_lastSnapshotIndex[i],
            snapshot_term  |-> m_lastSnapshotTerm[i],
            commit_index   |-> m_commitIndex[i]]

\* Stores a node state; the first store that follows a snapshot compacts the WAL.
SaveRaftState(i, meta) ==
    /\ fmp' = [fmp EXCEPT ![i] = meta]
    /\ LET compact == meta.snapshot_index > m_compactedSnapshotIndex[i]
       IN  /\ wal' = IF compact
                     THEN [wal EXCEPT ![i] = ReadPersistedLogs(@, meta.snapshot_index)]
                     ELSE wal
           /\ m_compactedSnapshotIndex' =
                  IF compact
                  THEN [m_compactedSnapshotIndex EXCEPT ![i] = meta.snapshot_index]
                  ELSE m_compactedSnapshotIndex

\* persistState() at the end of a critical section: the fields as the section leaves them.
persistState(i) == SaveRaftState(i, Meta(i)')

\* The process of node i dies: a failed assert, exit(-1), an access past m_logs.
Abort(i) ==
    /\ up' = [up EXCEPT ![i] = FALSE]
    /\ UNCHANGED <<electionVars, logVars, leaderVars, threadVars, diskVars, boot, walFailures,
                   voteMsgs, appendMsgs, snapMsgs, historyVars>>

\* A reply that carries a higher term turns the node into a follower of that term.
StepDown(i, term) ==
    /\ m_currentTerm' = [m_currentTerm EXCEPT ![i] = term]
    /\ m_state' = [m_state EXCEPT ![i] = Follower]
    /\ m_voteForId' = [m_voteForId EXCEPT ![i] = NoVote]
    /\ UNCHANGED votedNum

\* An AppendEntries or InstallSnapshot request of a term that is not stale does so too; the
\* vote is kept when the term is the current one.  Faulty: the role is kept, too.
FaultyFollowTerm(i, term) ==
    /\ m_currentTerm' = [m_currentTerm EXCEPT ![i] = term]
    /\ m_voteForId' = [m_voteForId EXCEPT ![i] = IF term > m_currentTerm[i] THEN NoVote ELSE @]
    /\ UNCHANGED <<m_state, votedNum>>

FollowTerm(i, term) ==
    /\ m_currentTerm' = [m_currentTerm EXCEPT ![i] = term]
    /\ m_state' = [m_state EXCEPT ![i] = Follower]
    /\ m_voteForId' = [m_voteForId EXCEPT ![i] = IF term > m_currentTerm[i] THEN NoVote ELSE @]
    /\ UNCHANGED votedNum

----------------------------------------------------------------------------
\* A node that starts for the first time: a zero-filled state file and no WAL.

Init ==
    /\ m_currentTerm = [i \in Server |-> 0]
    /\ m_voteForId = [i \in Server |-> Node0]
    /\ m_state = [i \in Server |-> Follower]
    /\ votedNum = [i \in Server |-> 0]
    /\ m_logs = [i \in Server |-> <<>>]
    /\ m_lastSnapshotIndex = [i \in Server |-> 0]
    /\ m_lastSnapshotTerm = [i \in Server |-> 0]
    /\ m_commitIndex = [i \in Server |-> 0]
    /\ m_lastApplied = [i \in Server |-> 0]
    /\ m_stableLogIndex = [i \in Server |-> 0]
    /\ m_nextIndex = [i \in Server |-> [j \in Server |-> 0]]
    /\ m_matchIndex = [i \in Server |-> [j \in Server |-> 0]]
    /\ jobs = [i \in Server |-> {}]
    /\ electPersist = [i \in Server |-> NotPending]
    /\ snapThreads = [i \in Server |-> {}]
    /\ fmp = [i \in Server |-> [term |-> 0, votedFor |-> Node0, snapshot_index |-> 0,
                                snapshot_term |-> 0, commit_index |-> 0]]
    /\ wal = [i \in Server |-> <<>>]
    /\ m_compactedSnapshotIndex = [i \in Server |-> 0]
    /\ up = [i \in Server |-> TRUE]
    /\ boot = [i \in Server |-> 0]
    /\ walFailures = 0
    /\ voteArgs = {} /\ voteReplies = {}
    /\ appendArgs = {} /\ appendReplies = {}
    /\ snapArgs = {} /\ snapReplies = {}
    /\ granters = [i \in Server |-> {}]
    /\ votes = {}
    /\ elected = {}

----------------------------------------------------------------------------
\* Elections.  A call is answered at most once and only to the process that made it, so vote
\* messages are consumed and carry the caller's incarnation.

\* The peers that the RequestVote calls of i's next election may reach; the other calls are lost.
Electorate(i) == {j \in Server \ {i} : <<i, m_currentTerm[i] + 1, j>> \in Ballots}

\* electionTimeOutTicker fires: doElection, up to the point where it leaves the mutex.  The ticker
\* is one thread: it cannot start an election before the last one's persistState is done.
doElection(i) ==
    /\ up[i]
    /\ m_state[i] # Leader
    /\ electPersist[i] = NotPending
    /\ Electorate(i) # {}
    /\ m_state' = [m_state EXCEPT ![i] = Candidate]
    /\ m_currentTerm' = [m_currentTerm EXCEPT ![i] = @ + 1]
    /\ m_voteForId' = [m_voteForId EXCEPT ![i] = i]
    /\ votedNum' = [votedNum EXCEPT ![i] = 1]
    /\ granters' = [granters EXCEPT ![i] = {i}]
    /\ voteArgs' = voteArgs \cup
           {[from |-> i, to |-> j, term |-> m_currentTerm[i] + 1, boot |-> boot[i],
             lastLogIndex |-> LastLogIndex(i), lastLogTerm |-> LastLogTerm(i)]
               : j \in Electorate(i)}
    /\ electPersist' = [electPersist EXCEPT ![i] = Deferred]
    /\ UNCHANGED <<logVars, leaderVars, jobs, snapThreads, diskVars, processVars, voteReplies,
                   appendMsgs, snapMsgs, votes, elected>>

\* The deferred persistState runs without the mutex.  It loads a field and stores it in two
\* steps, and a handler may run in between: LoadElectionState fixes what was loaded.
LoadElectionState(i) ==
    /\ TornPersist
    /\ up[i]
    /\ electPersist[i] = Deferred
    /\ electPersist' = [electPersist EXCEPT ![i] = Loaded(Meta(i))]
    /\ UNCHANGED <<electionVars, logVars, leaderVars, jobs, snapThreads, diskVars, processVars,
                   voteMsgs, appendMsgs, snapMsgs, historyVars>>

\* The stores: each field is the current one, or the one loaded before.
PersistElection(i) ==
    /\ up[i]
    /\ electPersist[i] # NotPending
    /\ \E stale \in IF electPersist[i] = Deferred THEN {{}} ELSE SUBSET MetaFields :
           SaveRaftState(i, [f \in MetaFields |->
                                IF f \in stale THEN electPersist[i][2][f] ELSE Meta(i)[f]])
    /\ electPersist' = [electPersist EXCEPT ![i] = NotPending]
    /\ UNCHANGED <<electionVars, logVars, leaderVars, jobs, snapThreads, processVars, voteMsgs,
                   appendMsgs, snapMsgs, historyVars>>

\* whether: the candidate's log is at least as new as the voter's.
UpToDate(j, m) ==
    \/ m.lastLogTerm > LastLogTerm(j)
    \/ m.lastLogTerm = LastLogTerm(j) /\ m.lastLogIndex >= LastLogIndex(j)

VoteReply(m, term, granted) ==
    [from |-> m.to, to |-> m.from, term |-> term, voteGranted |-> granted, args |-> m]

RequestVoteStale(j, m) ==
    /\ m.term < m_currentTerm[j]
    /\ voteReplies' = voteReplies \cup {VoteReply(m, m_currentTerm[j], FALSE)}
    /\ UNCHANGED <<electionVars, diskVars, votes>>

\* A request of a newer term makes the voter forget its vote.  Faulty: one of the same term, too.
FaultyForgetsVote(j, m) == m.term >= m_currentTerm[j]
ForgetsVote(j, m) == m.term > m_currentTerm[j]

RequestVoteCurrent(j, m) ==
    LET newTerm == m.term > m_currentTerm[j]
        vote    == IF ForgetsVote(j, m) THEN NoVote ELSE m_voteForId[j]
        grant   == UpToDate(j, m) /\ vote \in {NoVote, m.from}
    IN  /\ m.term >= m_currentTerm[j]
        /\ m_state' = [m_state EXCEPT ![j] = IF newTerm THEN Follower ELSE @]
        /\ m_currentTerm' = [m_currentTerm EXCEPT ![j] = m.term]
        /\ m_voteForId' = [m_voteForId EXCEPT ![j] = IF grant THEN m.from ELSE vote]
        /\ UNCHANGED votedNum
        /\ IF newTerm \/ UpToDate(j, m) THEN persistState(j) ELSE UNCHANGED diskVars
        /\ voteReplies' = voteReplies \cup {VoteReply(m, m.term, grant)}
        /\ votes' = IF grant
                    THEN votes \cup {[voter |-> j, term |-> m.term, candidate |-> m.from]}
                    ELSE votes

RequestVote(j, m) ==
    /\ up[j]
    /\ m.to = j
    /\ UNCHANGED <<logVars, leaderVars, threadVars, processVars, appendMsgs, snapMsgs,
                   granters, elected>>
    /\ voteArgs' = voteArgs \ {m}
    /\ RequestVoteStale(j, m) \/ RequestVoteCurrent(j, m)

\* m_nextIndex of a new leader.  Faulty: two too low.
FaultyFirstNextIndex(i) == LastLogIndex(i) - 1
FirstNextIndex(i) == LastLogIndex(i) + 1

\* A majority: the caller of this operator has just counted the last vote it needed.
BecomeLeader(i) ==
    /\ m_state' = [m_state EXCEPT ![i] = Leader]
    /\ m_nextIndex' = [m_nextIndex EXCEPT ![i] =
                          [j \in Server |-> IF j = i THEN @[j] ELSE FirstNextIndex(i)]]
    /\ m_matchIndex' = [m_matchIndex EXCEPT ![i] =
                           [j \in Server |-> IF j = i THEN @[j] ELSE 0]]
    /\ elected' = elected \cup {<<m_currentTerm[i], i>>}
    /\ votes' = votes \cup {[voter |-> i, term |-> m_currentTerm[i], candidate |-> i]}

\* handleRequestVoteResponse.  A failed call, and a reply that is stale or refuses, have no effect:
\* there is no step for them.
VoteResponseNewTerm(i, r) ==
    /\ r.term > m_currentTerm[i]
    /\ StepDown(i, r.term)
    /\ persistState(i)
    /\ UNCHANGED <<leaderVars, granters, votes, elected>>

VoteCounts(i, r) ==
    /\ r.term = m_currentTerm[i]
    /\ m_state[i] = Candidate
    /\ r.args.term = m_currentTerm[i]
    /\ r.voteGranted

VoteResponseCounted(i, r) ==
    /\ VoteCounts(i, r)
    /\ votedNum' = [votedNum EXCEPT ![i] = @ + 1]
    /\ granters' = [granters EXCEPT ![i] = @ \cup {r.from}]
    /\ UNCHANGED <<m_currentTerm, m_voteForId>>
    /\ IF IsMajority(votedNum[i] + 1)
       THEN BecomeLeader(i) /\ persistState(i)
       ELSE UNCHANGED <<m_state, leaderVars, diskVars, votes, elected>>

handleRequestVoteResponse(i, r) ==
    /\ up[i]
    /\ r.to = i
    /\ r.args.boot = boot[i]
    /\ UNCHANGED <<logVars, threadVars, processVars, voteArgs, appendMsgs, snapMsgs>>
    /\ voteReplies' = voteReplies \ {r}
    /\ VoteResponseNewTerm(i, r) \/ VoteResponseCounted(i, r)

----------------------------------------------------------------------------
\* Replication, leader side.

\* What the asserts of doHeartBeat demand for peer j: a nextIndex of at least 1 and, when it is
\* above the snapshot, entries that end exactly at the last stable one.
HeartBeatAsserts(i, j) ==
    /\ m_nextIndex[i][j] >= 1
    /\ m_nextIndex[i][j] > m_lastSnapshotIndex[i] =>
           /\ m_nextIndex[i][j] - 1 <= m_stableLogIndex[i]
           /\ m_stableLogIndex[i] <= LastLogIndex(i)

\* AppendEntriesArgs for peer j: everything stable from nextIndex on.
AppendEntriesArgs(i, j) ==
    LET prev == m_nextIndex[i][j] - 1
    IN  [from |-> i, to |-> j, term |-> m_currentTerm[i], boot |-> boot[i],
         prevLogIndex |-> prev, prevLogTerm |-> TermAt(i, prev),
         entries |-> LogSlice(i, prev + 1, m_stableLogIndex[i]),
         leaderCommit |-> m_commitIndex[i]]

\* The calls of i to j that are under way: a request, a handler that waits for the WAL, a reply.
Calls(i, j) ==
    {m \in appendArgs \cup snapArgs : m.from = i /\ m.to = j}
    \cup {job \in jobs[j] : job.kind = "append" /\ job.args.from = i}
    \cup {r \in appendReplies \cup snapReplies : r.from = j /\ r.to = i}

\* A peer that needs entries the snapshot has replaced gets a leaderSendSnapShot thread.
doHeartBeat(i) ==
    LET peers   == Server \ {i}
        reached == {j \in peers : <<i, j>> \in Reach /\ Cardinality(Calls(i, j)) < MaxInFlight[<<i, j>>]}
        lagging == {j \in peers : m_nextIndex[i][j] <= m_lastSnapshotIndex[i]}
    IN  /\ up[i]
        /\ m_state[i] = Leader
        /\ \A j \in peers : HeartBeatAsserts(i, j)
        /\ appendArgs' = appendArgs \cup {AppendEntriesArgs(i, j) : j \in reached \ lagging}
        /\ snapThreads' = [snapThreads EXCEPT ![i] = @ \cup (lagging \cap reached)]
        /\ UNCHANGED <<electionVars, logVars, leaderVars, jobs, electPersist, diskVars,
                       processVars, voteMsgs, appendReplies, snapMsgs, historyVars>>

\* The same tick when one of its asserts fails.
doHeartBeatAborts(i) ==
    /\ up[i]
    /\ m_state[i] = Leader
    /\ \E j \in Server \ {i} : ~HeartBeatAsserts(i, j)
    /\ Abort(i)

\* advanceCommitIndex: the highest stable entry of the current term that a majority holds.
\* Faulty: a peer that lacks the entry counts.
FaultyReplicated(i, match, index) == {i} \cup {j \in Server \ {i} : match[j] >= index - 1}

Replicated(i, match, index) == {i} \cup {j \in Server \ {i} : match[j] >= index}

Committable(i, match) ==
    {k \in m_commitIndex[i] + 1 .. Min({LastLogIndex(i), m_stableLogIndex[i]}) :
        /\ IsMajority(Cardinality(Replicated(i, match, k)))
        /\ EntryAt(i, k).term = m_currentTerm[i]}

advanceCommitIndex(i, match) ==
    m_commitIndex' = [m_commitIndex EXCEPT ![i] = Max({@} \cup Committable(i, match))]

\* handleAppendEntries.
AppendResponseNewTerm(i, r) ==
    /\ r.term > m_currentTerm[i]
    /\ StepDown(i, r.term)               \* no persistState here
    /\ UNCHANGED <<m_commitIndex, leaderVars, up>>

AppendResponseFailure(i, r) ==
    /\ r.term = m_currentTerm[i]
    /\ m_state[i] = Leader
    /\ ~r.success
    /\ r.updateNextIndex # NoHint
    /\ m_nextIndex' = [m_nextIndex EXCEPT ![i][r.from] = r.updateNextIndex]
    /\ UNCHANGED <<electionVars, m_commitIndex, m_matchIndex, up>>

\* What a success reply says about the peer's log: it holds what that request carried.  Faulty: it
\* holds what is stable here by now.
FaultyMatchAfter(i, r) == Max({m_matchIndex[i][r.from], m_stableLogIndex[i]})
MatchAfter(i, r) == Max({m_matchIndex[i][r.from], r.args.prevLogIndex + Len(r.args.entries)})

AppendResponseSuccess(i, r) ==
    LET match == MatchAfter(i, r)
    IN  /\ r.term = m_currentTerm[i]
        /\ m_state[i] = Leader
        /\ r.success
        /\ m_matchIndex' = [m_matchIndex EXCEPT ![i][r.from] = match]
        /\ m_nextIndex' = [m_nextIndex EXCEPT ![i][r.from] = match + 1]
        /\ IF match <= LastLogIndex(i)
           THEN advanceCommitIndex(i, [m_matchIndex[i] EXCEPT ![r.from] = match]) /\ UNCHANGED up
           ELSE up' = [up EXCEPT ![i] = FALSE] /\ UNCHANGED m_commitIndex
        /\ UNCHANGED electionVars

handleAppendEntries(i, r) ==
    /\ up[i]
    /\ r.to = i
    /\ r.args.boot = boot[i]
    /\ \/ AppendResponseNewTerm(i, r)
       \/ AppendResponseFailure(i, r)
       \/ AppendResponseSuccess(i, r)
    /\ appendReplies' = appendReplies \ {r}
    /\ UNCHANGED <<m_logs, m_lastSnapshotIndex, m_lastSnapshotTerm, m_lastApplied,
                   m_stableLogIndex, threadVars, diskVars, boot, walFailures, voteMsgs,
                   appendArgs, snapMsgs, historyVars>>

\* A request or a reply that is lost: the caller is told that the call failed and does nothing.  A
\* reply of an older term, or to a node that has lost the leadership, has no effect either.
LoseCall ==
    /\ \/ \E m \in appendArgs :
              /\ appendArgs' = appendArgs \ {m}
              /\ UNCHANGED <<appendReplies, snapMsgs>>
       \/ \E r \in appendReplies :
              /\ appendReplies' = appendReplies \ {r}
              /\ UNCHANGED <<appendArgs, snapMsgs>>
       \/ \E m \in snapArgs :
              /\ snapArgs' = snapArgs \ {m}
              /\ UNCHANGED <<appendMsgs, snapReplies>>
       \/ \E r \in snapReplies :
              /\ snapReplies' = snapReplies \ {r}
              /\ UNCHANGED <<appendMsgs, snapArgs>>
    /\ UNCHANGED <<electionVars, logVars, leaderVars, threadVars, diskVars, processVars, voteMsgs,
                   historyVars>>

----------------------------------------------------------------------------
\* Replication, follower side.

AppendReply(m, term, success, updateNextIndex) ==
    [from |-> m.to, to |-> m.from, term |-> term, success |-> success,
     updateNextIndex |-> updateNextIndex, args |-> m]

PrevMatches(j, m) ==
    /\ m.prevLogIndex <= LastLogIndex(j)
    /\ m.prevLogIndex >= m_lastSnapshotIndex[j]
    /\ m.prevLogTerm = TermAt(j, m.prevLogIndex)

\* Where to resume after a mismatch at prevLogIndex: at the first entry of the run of equal terms
\* that ends there, and never inside the snapshot.
FirstOfTermRun(j, prev) ==
    LET other == {k \in m_lastSnapshotIndex[j] .. prev : TermAt(j, k) # TermAt(j, prev)}
    IN  Max({m_lastSnapshotIndex[j]} \cup other) + 1

MismatchHint(j, m) ==
    CASE m.prevLogIndex > LastLogIndex(j)          -> LastLogIndex(j) + 1
      [] m.prevLogIndex < m_lastSnapshotIndex[j]   -> m_lastSnapshotIndex[j] + 1
      [] OTHER                                     -> FirstOfTermRun(j, m.prevLogIndex)

\* The entries to write: the ones above the log are to be appended (vec = 0), the ones whose term
\* differs from the entry at their index are to replace it.  Nothing is ever cut off.
PendingWrites(j, m) ==
    LET isNew(e)   == e.index > LastLogIndex(j)
        differs(e) == e.index > m_lastSnapshotIndex[j] /\ EntryAt(j, e.index).term # e.term
        todo       == Pick(m.entries, {k \in DOMAIN m.entries :
                                           isNew(m.entries[k]) \/ differs(m.entries[k])})
    IN  [k \in 1 .. Len(todo) |->
            [log |-> todo[k],
             vec |-> IF isNew(todo[k]) THEN 0 ELSE todo[k].index - m_lastSnapshotIndex[j]]]

\* Two different commands under one index and term: the handler calls exit(-1).
SameTermOtherCommand(j, m) ==
    \E k \in DOMAIN m.entries :
        LET e == m.entries[k]
        IN  /\ InLog(j, e.index)
            /\ EntryAt(j, e.index).term = e.term
            /\ EntryAt(j, e.index).cmd # e.cmd

AppendEntriesStale(j, m) ==
    /\ m.term < m_currentTerm[j]
    /\ appendReplies' = appendReplies \cup {AppendReply(m, m_currentTerm[j], FALSE, NoHint)}
    /\ UNCHANGED <<electionVars, diskVars, jobs, up>>

AppendEntriesMismatch(j, m) ==
    /\ m.term >= m_currentTerm[j]
    /\ ~PrevMatches(j, m)
    /\ FollowTerm(j, m.term)
    /\ persistState(j)
    /\ appendReplies' = appendReplies \cup {AppendReply(m, m.term, FALSE, MismatchHint(j, m))}
    /\ UNCHANGED <<jobs, up>>

AppendJobs(j) == {job \in jobs[j] : job.kind = "append"}

\* prevLog matches: the handler computes its writes, leaves the mutex and waits for the WAL.
AppendEntriesMatch(j, m) ==
    LET pending == PendingWrites(j, m)
        free    == (1 .. Cardinality(jobs[j]) + 1) \ {job.slot : job \in AppendJobs(j)}
    IN  /\ m.term >= m_currentTerm[j]
        /\ PrevMatches(j, m)
        /\ IF SameTermOtherCommand(j, m)
           THEN up' = [up EXCEPT ![j] = FALSE] /\ UNCHANGED <<electionVars, jobs>>
           ELSE /\ FollowTerm(j, m.term)
                /\ jobs' = [jobs EXCEPT ![j] = @ \cup
                               {[kind |-> "append", slot |-> Min(free), args |-> m,
                                 pending |-> pending, written |-> pending = <<>>]}]
                /\ UNCHANGED up
        /\ UNCHANGED <<diskVars, appendReplies>>

AppendEntries(j, m) ==
    /\ up[j]
    /\ m.to = j
    /\ appendArgs' = appendArgs \ {m}
    /\ UNCHANGED <<logVars, leaderVars, electPersist, snapThreads, boot, walFailures, voteMsgs,
                   snapMsgs, historyVars>>
    /\ AppendEntriesStale(j, m) \/ AppendEntriesMismatch(j, m) \/ AppendEntriesMatch(j, m)

\* The handler has the mutex again.  The snapshot may have moved under its pending writes: these
\* are the positions of the ones it does not cover.
LivePending(j, job) ==
    {k \in DOMAIN job.pending : job.pending[k].log.index > m_lastSnapshotIndex[j]}

Replacements(j, job) ==
    Pick(job.pending, {k \in LivePending(j, job) : job.pending[k].vec > 0})

Additions(j, job) ==
    Pick(job.pending, {k \in LivePending(j, job) : job.pending[k].vec = 0})

\* The pending writes still fit: replacements find their index where they computed it, and the
\* additions continue the log.  Faulty: the log is taken to be as it was before the wait.
FaultyStillApplies(j, job) == TRUE

StillApplies(j, job) ==
    LET rep == Replacements(j, job)
        add == Additions(j, job)
    IN  /\ \A k \in DOMAIN rep : /\ rep[k].vec <= Len(m_logs[j])
                                 /\ m_logs[j][rep[k].vec].index = rep[k].log.index
        /\ \A k \in DOMAIN add : add[k].log.index = LastLogIndex(j) + k

\* m_logs after the pending writes: entries are replaced in place and appended.
AppliedLog(j, job) ==
    LET rep == Replacements(j, job)
        add == Additions(j, job)
    IN  [k \in 1 .. Len(m_logs[j]) |->
            IF \E n \in DOMAIN rep : rep[n].vec = k
            THEN rep[CHOOSE n \in DOMAIN rep : rep[n].vec = k].log
            ELSE m_logs[j][k]]
        \o [k \in 1 .. Len(add) |-> add[k].log]

StableReplyFails(j, job, stable) ==
    \/ ~stable
    \/ m_currentTerm[j] # job.args.term
    \/ ~PrevMatches(j, job.args)
    \/ ~StillApplies(j, job)

StableReplyHint(j, job, stable) ==
    LET m == job.args
    IN  CASE ~stable \/ m_currentTerm[j] # m.term   -> NoHint
          [] m.prevLogIndex > LastLogIndex(j)       -> LastLogIndex(j) + 1
          [] ~PrevMatches(j, m)                     -> m_lastSnapshotIndex[j] + 1
          [] OTHER                                  -> LastLogIndex(j) + 1

AppendEntriesGivesUp(j, job, stable) ==
    /\ StableReplyFails(j, job, stable)
    /\ UNCHANGED <<m_logs, m_stableLogIndex, m_commitIndex, up>>
    /\ persistState(j)
    /\ appendReplies' = appendReplies \cup
           {AppendReply(job.args, m_currentTerm[j], FALSE, StableReplyHint(j, job, stable))}

AppendEntriesApplies(j, job) ==
    LET last   == LastLogIndex(j) + Len(Additions(j, job))
        commit == IF job.args.leaderCommit > m_commitIndex[j]
                  THEN Min({job.args.leaderCommit, last})
                  ELSE m_commitIndex[j]
    IN  /\ ~StableReplyFails(j, job, TRUE)
        /\ m_logs' = [m_logs EXCEPT ![j] = AppliedLog(j, job)]
        /\ m_stableLogIndex' = Raise(m_stableLogIndex, j, last)
        /\ m_commitIndex' = [m_commitIndex EXCEPT ![j] = commit]
        /\ IF commit <= last
           THEN /\ persistState(j)
                /\ appendReplies' = appendReplies \cup
                       {AppendReply(job.args, m_currentTerm[j], TRUE, NoHint)}
                /\ UNCHANGED up
           ELSE up' = [up EXCEPT ![j] = FALSE] /\ UNCHANGED <<diskVars, appendReplies>>

\* AppendLogAndWaitStable has returned: the rest of AppendEntries.
AppendEntriesResume(j, job) ==
    /\ up[j]
    /\ job \in AppendJobs(j)
    /\ job.written
    /\ jobs' = [jobs EXCEPT ![j] = @ \ {job}]
    /\ UNCHANGED <<electionVars, m_lastSnapshotIndex, m_lastSnapshotTerm, m_lastApplied,
                   leaderVars, electPersist, snapThreads, boot, walFailures, voteMsgs,
                   appendArgs, snapMsgs, historyVars>>
    /\ AppendEntriesGivesUp(j, job, TRUE) \/ AppendEntriesApplies(j, job)

\* ... when the batch failed: it was not written, or it was and then could not be synced.
AppendEntriesWalFailed(j, job) ==
    /\ up[j]
    /\ walFailures < MaxWalFailures
    /\ job \in AppendJobs(j)
    /\ job.pending # <<>>
    /\ walFailures' = walFailures + 1
    /\ jobs' = [jobs EXCEPT ![j] = @ \ {job}]
    /\ UNCHANGED <<electionVars, m_lastSnapshotIndex, m_lastSnapshotTerm, m_lastApplied,
                   leaderVars, electPersist, snapThreads, boot, voteMsgs, appendArgs,
                   snapMsgs, historyVars>>
    /\ AppendEntriesGivesUp(j, job, FALSE)

----------------------------------------------------------------------------
\* Snapshots.

\* The service hands over a snapshot that covers everything up to an index it has applied.
Snapshot(i, index) ==
    /\ up[i]
    /\ index > m_lastSnapshotIndex[i] /\ index <= m_commitIndex[i]
    /\ index <= m_lastApplied[i]
    /\ UNCHANGED <<electionVars, leaderVars, threadVars, boot, walFailures, voteMsgs, appendMsgs,
                   snapMsgs, historyVars>>
    /\ IF InLog(i, index)
       THEN /\ m_lastSnapshotTerm' = [m_lastSnapshotTerm EXCEPT ![i] = EntryAt(i, index).term]
            /\ m_logs' = [m_logs EXCEPT ![i] = LogAbove(i, index)]
            /\ m_lastSnapshotIndex' = [m_lastSnapshotIndex EXCEPT ![i] = index]
            /\ m_stableLogIndex' = Raise(m_stableLogIndex, i, index)
            /\ UNCHANGED <<m_commitIndex, m_lastApplied, up>>
            /\ persistState(i)
       ELSE up' = [up EXCEPT ![i] = FALSE] /\ UNCHANGED <<logVars, diskVars>>

\* The detached thread of doHeartBeat gets the mutex.  It does not look at m_state.
leaderSendSnapShot(i, j) ==
    /\ up[i]
    /\ j \in snapThreads[i]
    /\ snapThreads' = [snapThreads EXCEPT ![i] = @ \ {j}]
    /\ snapArgs' = snapArgs \cup
           {[from |-> i, to |-> j, term |-> m_currentTerm[i], boot |-> boot[i],
             index |-> m_lastSnapshotIndex[i], snapTerm |-> m_lastSnapshotTerm[i]]}
    /\ UNCHANGED <<electionVars, logVars, leaderVars, jobs, electPersist, diskVars, processVars,
                   voteMsgs, appendMsgs, snapReplies, historyVars>>

SnapReply(m, term) == [from |-> m.to, to |-> m.from, term |-> term, args |-> m]

InstallSnapshotStale(j, m) ==
    /\ m.term < m_currentTerm[j]
    /\ UNCHANGED <<electionVars, logVars, diskVars>>

\* The node already has a snapshot that covers this one.
InstallSnapshotCovered(j, m) ==
    /\ m.term >= m_currentTerm[j]
    /\ m.index <= m_lastSnapshotIndex[j]
    /\ FollowTerm(j, m.term)
    /\ UNCHANGED logVars
    /\ IF m.term > m_currentTerm[j] THEN persistState(j) ELSE UNCHANGED diskVars

InstallSnapshotInstalls(j, m) ==
    /\ m.term >= m_currentTerm[j]
    /\ m.index > m_lastSnapshotIndex[j]
    /\ FollowTerm(j, m.term)
    /\ m_logs' = [m_logs EXCEPT ![j] = LogAbove(j, m.index)]
    /\ m_commitIndex' = Raise(m_commitIndex, j, m.index)
    /\ m_stableLogIndex' = Raise(m_stableLogIndex, j, m.index)
    /\ m_lastApplied' = Raise(m_lastApplied, j, m.index)
    /\ m_lastSnapshotIndex' = [m_lastSnapshotIndex EXCEPT ![j] = m.index]
    /\ m_lastSnapshotTerm' = [m_lastSnapshotTerm EXCEPT ![j] = m.snapTerm]
    /\ persistState(j)

InstallSnapshot(j, m) ==
    /\ up[j]
    /\ m.to = j
    /\ \/ InstallSnapshotStale(j, m)
       \/ InstallSnapshotCovered(j, m)
       \/ InstallSnapshotInstalls(j, m)
    /\ snapReplies' = snapReplies \cup {SnapReply(m, Max({m.term, m_currentTerm[j]}))}
    /\ snapArgs' = snapArgs \ {m}
    /\ UNCHANGED <<leaderVars, threadVars, processVars, voteMsgs, appendMsgs, historyVars>>

leaderSendSnapShotHandler(i, r) ==
    /\ up[i]
    /\ r.to = i
    /\ r.args.boot = boot[i]
    /\ m_state[i] = Leader
    /\ r.args.term = m_currentTerm[i]
    /\ snapReplies' = snapReplies \ {r}
    /\ UNCHANGED <<logVars, threadVars, processVars, voteMsgs, appendMsgs, snapArgs, historyVars>>
    /\ IF r.term > m_currentTerm[i]
       THEN StepDown(i, r.term) /\ persistState(i) /\ UNCHANGED leaderVars
       ELSE /\ m_matchIndex' = [m_matchIndex EXCEPT ![i][r.from] = r.args.index]
            /\ m_nextIndex' = [m_nextIndex EXCEPT ![i][r.from] = r.args.index + 1]
            /\ UNCHANGED <<electionVars, diskVars>>

----------------------------------------------------------------------------
\* Clients, the WAL thread and the applier.

\* Start on the leader; on any other node it only says so.  The entry reaches the WAL queue after
\* the mutex is released, so two calls may be queued in the opposite order.
\* Faulty: the entry has the term of the entry before it.
FaultyNewEntry(i, cmd) == [index |-> LastLogIndex(i) + 1, term |-> LastLogTerm(i), cmd |-> cmd]
NewEntry(i, cmd) == [index |-> LastLogIndex(i) + 1, term |-> m_currentTerm[i], cmd |-> cmd]

Start(i, cmd) ==
    LET entry == NewEntry(i, cmd)
    IN  /\ up[i]
        /\ m_state[i] = Leader
        /\ LastLogIndex(i) < MaxLog
        /\ m_logs' = [m_logs EXCEPT ![i] = Append(@, entry)]
        /\ UNCHANGED <<electionVars, m_lastSnapshotIndex, m_lastSnapshotTerm, m_commitIndex,
                       m_lastApplied, m_stableLogIndex>>
        /\ persistState(i)
        /\ jobs' = [jobs EXCEPT ![i] = @ \cup
                       {[kind |-> "start", entry |-> entry, written |-> FALSE]}]
        /\ UNCHANGED <<leaderVars, electPersist, snapThreads, processVars, voteMsgs, appendMsgs,
                       snapMsgs, historyVars>>

JobEntries(job) ==
    IF job.kind = "start" THEN <<job.entry>>
    ELSE [k \in 1 .. Len(job.pending) |-> job.pending[k].log]

\* The WAL thread writes a batch.  What is written outlives the process.
WalWrite(i, job) ==
    /\ up[i]
    /\ job \in jobs[i]
    /\ ~job.written
    /\ wal' = [wal EXCEPT ![i] = @ \o JobEntries(job)]
    /\ jobs' = [jobs EXCEPT ![i] = (@ \ {job}) \cup {[job EXCEPT !.written = TRUE]}]
    /\ UNCHANGED <<electionVars, logVars, leaderVars, electPersist, snapThreads, fmp,
                   m_compactedSnapshotIndex, processVars, voteMsgs, appendMsgs, snapMsgs,
                   historyVars>>

\* The callback of AppendLogAsync after a sync.
onLogStable(i, job) ==
    /\ up[i]
    /\ job \in jobs[i] /\ job.kind = "start" /\ job.written
    /\ jobs' = [jobs EXCEPT ![i] = @ \ {job}]
    /\ m_stableLogIndex' = Raise(m_stableLogIndex, i, job.entry.index)
    /\ UNCHANGED <<electionVars, m_logs, m_lastSnapshotIndex, m_lastSnapshotTerm, m_commitIndex,
                   m_lastApplied, leaderVars, electPersist, snapThreads, processVars, voteMsgs,
                   appendMsgs, snapMsgs, historyVars>>
    /\ IF job.entry.index > m_stableLogIndex[i] THEN persistState(i) ELSE UNCHANGED diskVars

\* The same callback after a failure: the entry and everything behind it leave the log.
onLogStableFails(i, job) ==
    LET index == job.entry.index
    IN  /\ up[i]
        /\ walFailures < MaxWalFailures
        /\ job \in jobs[i] /\ job.kind = "start"
        /\ walFailures' = walFailures + 1
        /\ jobs' = [jobs EXCEPT ![i] = @ \ {job}]
        /\ m_logs' = IF index > m_commitIndex[i] /\ InLog(i, index)
                     THEN [m_logs EXCEPT ![i] = LogSlice(i, m_lastSnapshotIndex[i] + 1, index - 1)]
                     ELSE m_logs
        /\ UNCHANGED <<electionVars, m_lastSnapshotIndex, m_lastSnapshotTerm, m_commitIndex,
                       m_lastApplied, m_stableLogIndex, leaderVars, electPersist, snapThreads,
                       diskVars, up, boot, voteMsgs, appendMsgs, snapMsgs, historyVars>>

\* applierTicker: copies the committed entries and advances m_lastApplied in one section.
\* Faulty: it waits for two entries.
FaultyApplyDue(i) == m_lastApplied[i] + 1 < m_commitIndex[i]
ApplyDue(i) == m_lastApplied[i] < m_commitIndex[i]

applierTicker(i) ==
    /\ up[i]
    /\ ApplyDue(i)
    /\ IF \A k \in m_lastApplied[i] + 1 .. m_commitIndex[i] : InLog(i, k)
       THEN m_lastApplied' = [m_lastApplied EXCEPT ![i] = m_commitIndex[i]] /\ UNCHANGED up
       ELSE up' = [up EXCEPT ![i] = FALSE] /\ UNCHANGED m_lastApplied
    /\ UNCHANGED <<electionVars, m_logs, m_lastSnapshotIndex, m_lastSnapshotTerm, m_commitIndex,
                   m_stableLogIndex, leaderVars, threadVars, diskVars, boot, walFailures,
                   voteMsgs, appendMsgs, snapMsgs, historyVars>>

\* The process is killed, or has aborted, and starts again: init reads the state file and the WAL.
Restart(i) ==
    LET logs == ReadPersistedLogs(wal[i], fmp[i].snapshot_index)
    IN  /\ <<i, boot[i] + 1>> \in Restarts
        /\ up' = [up EXCEPT ![i] = TRUE]
        /\ boot' = [boot EXCEPT ![i] = @ + 1]
        /\ m_currentTerm' = [m_currentTerm EXCEPT ![i] = fmp[i].term]
        /\ m_voteForId' = [m_voteForId EXCEPT ![i] = fmp[i].votedFor]
        /\ m_state' = [m_state EXCEPT ![i] = Follower]
        /\ votedNum' = [votedNum EXCEPT ![i] = 0]
        /\ granters' = [granters EXCEPT ![i] = {}]
        /\ m_lastSnapshotIndex' = [m_lastSnapshotIndex EXCEPT ![i] = fmp[i].snapshot_index]
        /\ m_lastSnapshotTerm' = [m_lastSnapshotTerm EXCEPT ![i] = fmp[i].snapshot_term]
        /\ m_commitIndex' = [m_commitIndex EXCEPT ![i] = fmp[i].commit_index]
        /\ m_logs' = [m_logs EXCEPT ![i] = logs]
        /\ m_stableLogIndex' = [m_stableLogIndex EXCEPT ![i] = fmp[i].snapshot_index + Len(logs)]
        /\ m_lastApplied' = [m_lastApplied EXCEPT ![i] = fmp[i].snapshot_index]
        /\ m_nextIndex' = [m_nextIndex EXCEPT ![i] = [j \in Server |-> 0]]
        /\ m_matchIndex' = [m_matchIndex EXCEPT ![i] = [j \in Server |-> 0]]
        /\ jobs' = [jobs EXCEPT ![i] = {}]
        /\ electPersist' = [electPersist EXCEPT ![i] = NotPending]
        /\ snapThreads' = [snapThreads EXCEPT ![i] = {}]
        /\ m_compactedSnapshotIndex' = [m_compactedSnapshotIndex EXCEPT ![i] = 0]
        /\ UNCHANGED <<fmp, wal, walFailures, voteMsgs, appendMsgs, snapMsgs, votes, elected>>

----------------------------------------------------------------------------
Next ==
    \/ \E i \in Server :
           \/ doElection(i)
           \/ LoadElectionState(i)
           \/ PersistElection(i)
           \/ doHeartBeat(i)
           \/ doHeartBeatAborts(i)
           \/ applierTicker(i)
           \/ Restart(i)
           \/ \E cmd \in Command : Start(i, cmd)
           \/ \E index \in SnapshotAt : Snapshot(i, index)
           \/ \E j \in Server : leaderSendSnapShot(i, j)
           \/ \E job \in jobs[i] :
                  \/ WalWrite(i, job)
                  \/ AppendEntriesResume(i, job)
                  \/ AppendEntriesWalFailed(i, job)
                  \/ onLogStable(i, job)
                  \/ onLogStableFails(i, job)
           \/ \E m \in voteArgs : RequestVote(i, m)
           \/ \E r \in voteReplies : handleRequestVoteResponse(i, r)
           \/ \E m \in appendArgs : AppendEntries(i, m)
           \/ \E r \in appendReplies : handleAppendEntries(i, r)
           \/ \E m \in snapArgs : InstallSnapshot(i, m)
           \/ \E r \in snapReplies : leaderSendSnapShotHandler(i, r)
    \/ LoseCall

Spec == Init /\ [][Next]_vars

\* The nodes whose calls reach another or that are reached.
Connected == {i \in Server : \E p \in Reach : i \in {p[1], p[2]}}

\* Fairness: the tickers and the WAL and snapshot threads of a live process run again and again,
\* and of the calls of one node to a peer it can reach, repeated forever, not every request and
\* not every reply is lost.
Fairness ==
    /\ \A i \in Connected :
           /\ WF_vars(doHeartBeat(i))
           /\ WF_vars(applierTicker(i))
           /\ WF_vars(\E job \in jobs[i] : WalWrite(i, job))
           /\ WF_vars(\E job \in jobs[i] : onLogStable(i, job))
           /\ WF_vars(\E job \in jobs[i] : AppendEntriesResume(i, job))
           /\ WF_vars(\E j \in Server : leaderSendSnapShot(i, j))
    /\ \A p \in Reach :
           /\ SF_vars(\/ \E m \in appendArgs : m.from = p[1] /\ AppendEntries(p[2], m)
                      \/ \E m \in snapArgs : m.from = p[1] /\ InstallSnapshot(p[2], m))
           /\ SF_vars(\/ \E r \in appendReplies : r.from = p[2] /\ handleAppendEntries(p[1], r)
                      \/ \E r \in snapReplies : r.from = p[2] /\ leaderSendSnapShotHandler(p[1], r))

FairSpec == Spec /\ Fairness

----------------------------------------------------------------------------
\* Properties.

Entry == [index : Nat \ {0}, term : Nat \ {0}, cmd : Command]

MetaType == [term : Nat, votedFor : Server \cup {NoVote}, snapshot_index : Nat,
             snapshot_term : Nat, commit_index : Nat]

\* The type invariant of the fields every handler of class raft reads and writes.
TypeOK ==
    /\ m_currentTerm \in [Server -> Nat]
    /\ m_voteForId \in [Server -> Server \cup {NoVote}]
    /\ m_state \in [Server -> {Follower, Candidate, Leader}]
    /\ votedNum \in [Server -> 0 .. Cardinality(Server)]
    /\ \A i \in Server : \A k \in DOMAIN m_logs[i] : m_logs[i][k] \in Entry
    /\ m_commitIndex \in [Server -> Nat]
    /\ m_lastApplied \in [Server -> Nat]
    /\ m_stableLogIndex \in [Server -> Nat]
    /\ m_nextIndex \in [Server -> [Server -> Nat]]
    /\ m_matchIndex \in [Server -> [Server -> Nat]]
    /\ fmp \in [Server -> MetaType]
    /\ granters \in [Server -> SUBSET Server]

\* At most one node is ever elected in a term, whatever is delayed, lost or restarted.
ElectionSafety == \A e, f \in elected : e[1] = f[1] => e[2] = f[2]

\* RequestVote grants one candidate per term, also across a restart of the voter.
VoteOnce == \A v, w \in votes : v.voter = w.voter /\ v.term = w.term => v.candidate = w.candidate

\* A term and an index name one command in all logs, WALs and requests: the assumption under
\* which AppendEntries calls exit(-1).
EntryIdentity ==
    LET Elems(s) == {s[k] : k \in DOMAIN s}
        all == UNION ({Elems(m_logs[i]) : i \in Server} \cup {Elems(wal[i]) : i \in Server}
                      \cup {Elems(m.entries) : m \in appendArgs})
    IN  \A e, f \in all : e.index = f.index /\ e.term = f.term => e = f

\* Indexes are consecutive from the snapshot on: every m_logs[index - m_lastSnapshotIndex - 1]
\* in the code is the entry it means.
LogIndexed ==
    \A i \in Server : \A k \in DOMAIN m_logs[i] : m_logs[i][k].index = m_lastSnapshotIndex[i] + k

\* What advances one of the indexes of a node keeps them in order.
CommitWithinLog ==
    \A i \in Server : up[i] => /\ m_lastSnapshotIndex[i] <= m_lastApplied[i]
                               /\ m_lastApplied[i] <= m_commitIndex[i]
                               /\ m_commitIndex[i] <= LastLogIndex(i)

\* A success reply is the promise that the entries of its request are in the log of the follower:
\* they stay there at least until the follower learns of a newer term.
AckedEntriesKept ==
    \A r \in appendReplies :
        r.success /\ m_currentTerm[r.from] = r.args.term =>
            \A k \in DOMAIN r.args.entries :
                LET e == r.args.entries[k]
                IN  \/ e.index <= m_lastSnapshotIndex[r.from]
                    \/ InLog(r.from, e.index) /\ EntryAt(r.from, e.index) = e

\* A leader never replaces or drops an entry of its log; it may only fold it into a snapshot.
LeaderAppendOnly ==
    [][\A i \in Server :
          m_state[i] = Leader /\ m_state'[i] = Leader =>
              \A k \in m_lastSnapshotIndex'[i] + 1 .. LastLogIndex(i) :
                  InLog(i, k)' /\ EntryAt(i, k)' = EntryAt(i, k)]_vars

\* A leader has every entry that any node of its term or an older one has committed: what a client
\* has been told is never undone by an election.
LeaderComplete ==
    \A i, j \in Server :
        m_state[i] = Leader /\ m_currentTerm[i] >= m_currentTerm[j] =>
            \A k \in m_lastSnapshotIndex[j] + 1 .. m_commitIndex[j] :
                k > m_lastSnapshotIndex[i] => InLog(i, k) /\ EntryAt(i, k) = EntryAt(j, k)

\* m_matchIndex of a leader is true: as long as the peer has seen no newer term, its log agrees with
\* the leader's up to there.  advanceCommitIndex counts on nothing else.
MatchIsHeld ==
    \A i, j \in Server :
        i # j /\ up[i] /\ m_state[i] = Leader /\ m_currentTerm[j] = m_currentTerm[i] =>
            \A k \in m_lastSnapshotIndex[j] + 1 .. m_matchIndex[i][j] :
                InLog(j, k) /\ (InLog(i, k) => EntryAt(i, k) = EntryAt(j, k))

\* What a node has committed, applied, stored in a snapshot or called stable is never taken back
\* while its process lives.
ProgressMonotone ==
    [][\A i \in Server :
          boot'[i] = boot[i] => /\ m_commitIndex'[i] >= m_commitIndex[i]
                                /\ m_lastApplied'[i] >= m_lastApplied[i]
                                /\ m_lastSnapshotIndex'[i] >= m_lastSnapshotIndex[i]
                                /\ m_stableLogIndex'[i] >= m_stableLogIndex[i]]_vars

\* An entry that a leader has added in its term, and that it does not lose together with the
\* leadership, is applied in the end by the leader and by every peer its calls reach, also by one
\* whose log disagreed with the leader's.
EntriesGetApplied ==
    \A i \in Connected : \A k \in 1 .. MaxLog :
        (m_state[i] = Leader /\ InLog(i, k) /\ EntryAt(i, k).term = m_currentTerm[i])
            ~> \/ m_state[i] # Leader
               \/ /\ m_lastApplied[i] >= k
                  /\ \A j \in Server : <<i, j>> \in Reach => m_lastApplied[j] >= k
=============================================================================
