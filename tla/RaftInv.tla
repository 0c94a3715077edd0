------------------------------ MODULE RaftInv ------------------------------
(***************************************************************************)
(* The inductive invariants behind the safety properties of Raft.          *)
(* ElectionInv says what the election part of a node, its state file and   *)
(* the RequestVote calls under way know about the votes that have been     *)
(* granted, LogInv what every field, file and call holds, EntryInv where   *)
(* log entries come from, AckInv why what a follower has acknowledged is   *)
(* in its log.                                                             *)
(***************************************************************************)
EXTENDS Raft

\* The types of the election state of a node and of the history.
ElectionTypes ==
    /\ m_currentTerm \in [Server -> Nat]
    /\ m_voteForId \in [Server -> Server \cup {NoVote}]
    /\ m_state \in [Server -> {Follower, Candidate, Leader}]
    /\ votedNum \in [Server -> Nat]
    /\ granters \in [Server -> SUBSET Server]
    /\ boot \in [Server -> Nat]
    /\ votes \subseteq [voter : Server, term : Nat, candidate : Server]
    /\ elected \subseteq Nat \X Server

\* Every AppendEntries and InstallSnapshot call carries a term a node may take over.
TermsOnWire ==
    /\ \A m \in appendArgs \cup snapArgs : m.term \in Nat
    /\ \A r \in appendReplies \cup snapReplies : r.term \in Nat

\* A voter remembers a vote until it knows a newer term.
Remembers(term, votedFor, v) ==
    term > v.term \/ (term = v.term /\ votedFor = v.candidate)

VotesHeld == \A v \in votes : Remembers(m_currentTerm[v.voter], m_voteForId[v.voter], v)

\* So does its state file, unless a persistState of doElection could be overtaken.
VotesOnDisk ==
    ~TornPersist =>
        /\ DOMAIN fmp = Server
        /\ DOMAIN electPersist = Server
        /\ \A i \in Server :
               /\ electPersist[i] \in {NotPending, Deferred}
               /\ fmp[i].term \in Nat
               /\ fmp[i].votedFor \in Server \cup {NoVote}
        /\ \A v \in votes : Remembers(fmp[v.voter].term, fmp[v.voter].votedFor, v)

\* A candidate votes for itself, and has counted every node that granted it a vote once.
CandidateCounts ==
    \A i \in Server : m_state[i] = Candidate =>
        /\ m_voteForId[i] = i
        /\ i \in granters[i]
        /\ votedNum[i] = Cardinality(granters[i])
        /\ \A j \in granters[i] \ {i} :
               [voter |-> j, term |-> m_currentTerm[i], candidate |-> i] \in votes

\* RequestVote calls: the requests and the replies of a call are told apart by the caller's
\* incarnation, its term and the peer.
SameCall(m, n) == m.from = n.from /\ m.to = n.to /\ m.term = n.term /\ m.boot = n.boot

\* The caller has made the call, and if it still stands in that term it has not counted the vote.
CallOpen(m) ==
    /\ m.from \in Server /\ m.to \in Server /\ m.from # m.to
    /\ m.term \in Nat /\ m.boot \in Nat
    /\ m.boot <= boot[m.from]
    /\ m.boot = boot[m.from] =>
           /\ m.term <= m_currentTerm[m.from]
           /\ m.term = m_currentTerm[m.from] /\ m_state[m.from] = Candidate =>
                  m.to \notin granters[m.from]

RequestsOnce ==
    /\ \A m \in voteArgs : CallOpen(m)
    /\ \A m, n \in voteArgs : SameCall(m, n) => m = n

\* A reply that grants a vote stands for a vote that was granted.
ReplyTrue(r) ==
    /\ r.from = r.args.to /\ r.to = r.args.from
    /\ r.term \in Nat
    /\ r.voteGranted =>
           [voter |-> r.from, term |-> r.args.term, candidate |-> r.to] \in votes

RepliesOnce ==
    /\ \A r \in voteReplies : ReplyTrue(r) /\ CallOpen(r.args)
    /\ \A r, q \in voteReplies : SameCall(r.args, q.args) => r = q
    /\ \A m \in voteArgs, r \in voteReplies : ~SameCall(m, r.args)

\* Whoever has been elected had the votes of a majority.
Supporters(e) == {j \in Server : [voter |-> j, term |-> e[1], candidate |-> e[2]] \in votes}

ElectedByMajority == \A e \in elected : IsMajority(Cardinality(Supporters(e)))

\* The inductive invariant: enough to show that a step of any node keeps VoteOnce and
\* ElectionSafety.
ElectionInv ==
    /\ ElectionTypes
    /\ TermsOnWire
    /\ VoteOnce
    /\ VotesHeld
    /\ VotesOnDisk
    /\ CandidateCounts
    /\ RequestsOnce
    /\ RepliesOnce
    /\ ElectedByMajority

----------------------------------------------------------------------------
\* The inductive invariant behind TypeOK and LogIndexed: what every field of class raft, its state
\* file and WAL, and every AppendEntries and InstallSnapshot call under way hold.

Positive == Nat \ {0}

NodeTypes ==
    /\ m_currentTerm \in [Server -> Nat]
    /\ m_voteForId \in [Server -> Server \cup {NoVote}]
    /\ m_state \in [Server -> {Follower, Candidate, Leader}]
    /\ votedNum \in [Server -> Nat]
    /\ granters \in [Server -> SUBSET Server]
    /\ m_lastSnapshotIndex \in [Server -> Nat]
    /\ m_lastSnapshotTerm \in [Server -> Nat]
    /\ m_commitIndex \in [Server -> Nat]
    /\ m_lastApplied \in [Server -> Nat]
    /\ m_stableLogIndex \in [Server -> Nat]
    /\ m_nextIndex \in [Server -> [Server -> Nat]]
    /\ m_matchIndex \in [Server -> [Server -> Nat]]
    /\ up \in [Server -> BOOLEAN]
    /\ boot \in [Server -> Nat]
    /\ \A i \in Server : m_state[i] # Follower => m_currentTerm[i] >= 1

LogTypes == m_logs \in [Server -> Seq(Entry)]

\* The state file, the WAL and the persistState that an election has deferred.
DiskTypes ==
    /\ fmp \in [Server -> MetaType]
    /\ wal \in [Server -> Seq(Entry)]
    /\ m_compactedSnapshotIndex \in [Server -> Nat]

ElectPersistTypes ==
    /\ DOMAIN electPersist = Server
    /\ \A i \in Server : \/ electPersist[i] \in {NotPending, Deferred}
                         \/ /\ electPersist[i] = Loaded(electPersist[i][2])
                            /\ electPersist[i][2] \in MetaType

\* An AppendEntries request from one node to another.
AppendArgsOK(m) ==
    /\ m.from \in Server /\ m.to \in Server /\ m.from # m.to
    /\ m.term \in Nat /\ m.boot \in Nat
    /\ m.prevLogIndex \in Nat /\ m.prevLogTerm \in Nat
    /\ m.entries \in Seq(Entry)
    /\ m.leaderCommit \in Nat
    /\ \A k \in 1 .. Len(m.entries) : m.entries[k].index = m.prevLogIndex + k

SnapArgsOK(m) ==
    /\ m.from \in Server /\ m.to \in Server /\ m.from # m.to
    /\ m.term \in Nat /\ m.boot \in Nat
    /\ m.index \in Nat /\ m.snapTerm \in Nat

Writes == [log : Entry, vec : Nat]

\* Entries on their way to the WAL of node i.
JobOK(i, job) ==
    \/ /\ DOMAIN job = {"kind", "entry", "written"}
       /\ job.kind = "start"
       /\ job.entry \in Entry
    \/ /\ DOMAIN job = {"kind", "slot", "args", "pending", "written"}
       /\ job.kind = "append"
       /\ AppendArgsOK(job.args) /\ job.args.to = i
       /\ job.pending \in Seq(Writes)

JobTypes ==
    /\ DOMAIN jobs = Server
    /\ \A i \in Server : \A job \in jobs[i] : JobOK(i, job)

\* snapThreads and the calls under way.
SnapThreadTypes ==
    /\ DOMAIN snapThreads = Server
    /\ \A i \in Server : snapThreads[i] \subseteq Server \ {i}

VoteCallTypes ==
    /\ \A m \in voteArgs : m.from \in Server /\ m.to \in Server /\ m.term \in Positive
    /\ \A r \in voteReplies : r.from \in Server /\ r.term \in Nat

AppendCallTypes ==
    /\ \A m \in appendArgs : AppendArgsOK(m)
    /\ \A r \in appendReplies :
           /\ AppendArgsOK(r.args) /\ r.from = r.args.to /\ r.to = r.args.from
           /\ r.term \in Nat /\ r.success \in BOOLEAN
           /\ r.updateNextIndex \in Nat \cup {NoHint}

SnapCallTypes ==
    /\ \A m \in snapArgs : SnapArgsOK(m)
    /\ \A r \in snapReplies : SnapArgsOK(r.args) /\ r.from = r.args.to /\ r.term \in Nat

LogInv ==
    /\ NodeTypes
    /\ LogTypes
    /\ LogIndexed
    /\ DiskTypes
    /\ ElectPersistTypes
    /\ JobTypes
    /\ SnapThreadTypes
    /\ VoteCallTypes
    /\ AppendCallTypes
    /\ SnapCallTypes

----------------------------------------------------------------------------
\* The inductive invariant behind EntryIdentity and LeaderAppendOnly.

\* Every entry there is: in a log, in a WAL, in a request, or with a handler or callback that waits
\* for the WAL.
Elems(s) == {s[k] : k \in DOMAIN s}

JobHolds(job) ==
    IF job.kind = "start" THEN {job.entry}
    ELSE Elems(job.args.entries) \cup {job.pending[k].log : k \in DOMAIN job.pending}

InLogs  == UNION {Elems(m_logs[i]) : i \in Server}
InWals  == UNION {Elems(wal[i]) : i \in Server}
InJobs  == UNION {UNION {JobHolds(job) : job \in jobs[i]} : i \in Server}
InCalls == UNION {Elems(m.entries) : m \in appendArgs}

Known == InLogs \cup InWals \cup InJobs \cup InCalls

OneCommand == \A e, f \in Known : e.index = f.index /\ e.term = f.term => e = f

\* Only an elected leader makes entries of its term, and while it leads its log reaches as far as
\* any of them: the next one it makes is new.
MadeByElected == \A e \in Known : \E l \in Server : <<e.term, l>> \in elected

LeaderReachesOwn ==
    \A i \in Server : m_state[i] = Leader =>
        \A e \in Known : e.term = m_currentTerm[i] => e.index <= LastLogIndex(i)

\* Who leads was elected, who stands was not elected in this term before, and who was elected has
\* voted for itself.
LeadersElected ==
    \A i \in Server :
        /\ m_state[i] = Leader => <<m_currentTerm[i], i>> \in elected
        /\ m_state[i] = Candidate => <<m_currentTerm[i], i>> \notin elected

ElectedVoted ==
    \A e \in elected : [voter |-> e[2], term |-> e[1], candidate |-> e[2]] \in votes

\* AppendEntries requests are made by elected leaders.
RequestsElected ==
    /\ \A m \in appendArgs : <<m.term, m.from>> \in elected
    /\ \A i \in Server : \A job \in jobs[i] :
           job.kind = "append" => <<job.args.term, job.args.from>> \in elected

EntryInv ==
    /\ walFailures = 0
    /\ OneCommand
    /\ MadeByElected
    /\ LeaderReachesOwn
    /\ LeadersElected
    /\ ElectedVoted
    /\ RequestsElected

----------------------------------------------------------------------------
\* The inductive invariant behind AckedEntriesKept.

\* The AppendEntries requests that somebody still knows of: on the wire, with a handler that waits
\* for the WAL, or with a reply.
WithJobs    == UNION {{job.args : job \in AppendJobs(j)} : j \in Server}
WithReplies == {r.args : r \in appendReplies}

Sent == appendArgs \cup WithJobs \cup WithReplies

\* Node j has entry e, in its log or under its snapshot.
Has(j, e) ==
    \/ e.index <= m_lastSnapshotIndex[j]
    \/ InLog(j, e.index) /\ EntryAt(j, e.index) = e

SentElected == \A m \in Sent : <<m.term, m.from>> \in elected

\* A leader has what it sends, and so two requests of a term agree wherever they overlap.
LeaderHasSent ==
    \A m \in Sent : m_state[m.from] = Leader /\ m_currentTerm[m.from] = m.term =>
        \A e \in Elems(m.entries) : Has(m.from, e)

SentAgree ==
    \A m, n \in Sent : m.term = n.term =>
        \A e \in Elems(m.entries), f \in Elems(n.entries) : e.index = f.index => e = f

\* What a handler has left to write comes from its request.
IsPending(job, e) == \E k \in DOMAIN job.pending : job.pending[k].log = e

PendingSent ==
    \A j \in Server : \A job \in AppendJobs(j) :
        \A k \in DOMAIN job.pending : job.pending[k].log \in Elems(job.args.entries)

\* Who has taken a request knows its term.
TakenTerm ==
    /\ \A j \in Server : \A job \in AppendJobs(j) : job.args.term <= m_currentTerm[j]
    /\ \A r \in appendReplies : r.success => r.args.term <= m_currentTerm[r.from]

\* While a handler waits and its term lasts, the node has every entry that is not to be written.
WaitingHas ==
    \A j \in Server : \A job \in AppendJobs(j) :
        m_currentTerm[j] = job.args.term =>
            \A e \in Elems(job.args.entries) : Has(j, e) \/ IsPending(job, e)

AckInv ==
    /\ SentElected
    /\ LeaderHasSent
    /\ SentAgree
    /\ PendingSent
    /\ TakenTerm
    /\ WaitingHas
    /\ AckedEntriesKept
=============================================================================
