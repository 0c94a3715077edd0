# A verification of KVCache-Raft

TLA+ modules, TLC configurations and TLAPS proofs for the replicated key-value
store of this repository: Raft, its log on disk, the service on top and the RPC
layer below. Paths below are relative to the repository's root.

| file | what it is |
|---|---|
| `Raft.tla` | class `raft` of every node, its RPCs and its use of `Persister` |
| `WalReplay.tla`, `SeqPick.tla` | the replay loop of the write-ahead log; the elements of a list that a loop keeps |
| `RaftInv.tla` | the inductive invariants of `Raft` |
| `RaftProofs.tla` | proofs: elections; types, and the consecutive indexes of a log |
| `LoopProofs.tla` | proofs: what the loops of `WalReplay` and `SeqPick` compute |
| `RaftEntryProofs.tla` | proofs: where log entries come from; the order of the indexes, progress, `TypeOK`; a follower keeps what it has acknowledged |
| `Persister.tla` | class `Persister` of one node: WAL thread, segment files, compaction, locks |
| `PersisterInv.tla` | the inductive invariants of `Persister` |
| `PersisterProofs.tla` | proofs: the segment files are the log of what was written |
| `PersisterStableProofs.tla` | proofs: what was reported stable survives a crash |
| `KvServer.tla` | `Clerk` and class `KvServer` of every server over an abstract log |
| `KvInv.tla`, `KvLogInv.tla` | the inductive invariants of `KvServer` |
| `KvProofs.tla` | proofs: answers are in the log; Gets are recent |
| `KvLogProofs.tla` | proofs: `KvServer` implements `ReplicatedMap` |
| `SkipList.tla` | the skip list that holds a server's keys |
| `ReplicatedMap.tla` | what the service promises; `KvServer` implements it |
| `SkipListUse.tla` | the operations of the skip list on a list and on a map side by side |
| `SkipListInv.tla`, `SkipListProofs.tla` | the inductive invariant of the skip list, and the proof that it is a map |
| `Wire.tla`, `WireUse.tla` | the bytes of messages and frames; a message on its way, in pieces |
| `RpcProvider.tla` | connections and the server side of a call |
| `MrpcchannelMultiReq.tla`, `Mrpcchannel.tla` | the channel between servers, the channel of a clerk |
| `CallOnce.tla`, `Rpc.tla` | what a caller may rely on; provider and channels composed, which implement it |
| `MC*.tla`, `*.cfg` | the instances TLC checks |
| `PROJECT.json` | components, runs, mutants, map from definitions to code, findings, hazards |

## 1. Inventory of the system

A node is one process: an RPC provider, a `KvServer` (the key-value state
machine), a `raft` object, and a `Persister`. Clients link a `Clerk`.

| component | state it keeps | operations | properties that make it correct |
|---|---|---|---|
| `raft` (`src/raft/raft.cc`) | term, vote, role, vote count, log, snapshot/commit/applied/stable index, nextIndex/matchIndex | election and heartbeat tickers, `RequestVote`, `AppendEntries`, `InstallSnapshot` and the handlers of their replies, `Start`, `Snapshot`, `onLogStable`, `applierTicker`, `init` | one leader per term, one vote per term, committed entries are kept, index arithmetic, no failing assert, progress |
| `Persister` (`src/persist/Persister.cc`) | mmapped node state, WAL segments, snapshot file, batch queue, waiters and callbacks | `SaveRaftState`, `AppendLogAsync`, `AppendLogAndWaitStable`, the WAL thread, `RollSegment`, `CompactWal`, `ReadPersistedLogs` | what was reported stable is replayed after a crash; everyone who waits is told; no lock cycle with `raft` |
| `KvServer` (`src/kvserver/KvServer.cc`) | skip list, last request id per client, a queue per waiting log index | `Get`, `PutAppend`, the apply loop, snapshots | a request is executed once; a reply belongs to its request |
| `Clerk` (`src/clerk/*.cc`) | server guess, request id | `Get`, `PutAppend` with retries | a call returns the result of one execution |
| `MrpcchannelMultiReq` | pending calls, socket, request id | `CallMethod`, sender, `recvLoop`, `failAllPending`, `completeResponse` | every call completes exactly once |
| `mrpcchannel` | socket | synchronous `CallMethod` | a response belongs to its request |
| `RpcProvider` | connections, their unread bytes, scheduled tasks | `OnMessage`, the tasks, `SendRpcResponse` | frames are cut where they end, one execution per request |
| protobuf code | - | serialize, parse | what is read is what was written |
| skip list | nodes, levels, pointers | search, set, delete, dump, load | it is a map |
| stubs, controller, configuration, `LockQueue` | - | forwarding, parsing, a queue | - |

How they interact. `KvServer` calls `raft::Start` and `raft::Snapshot`; `raft`
pushes applied entries and snapshots to the queue `applyChan`, which the apply
loop of `KvServer` reads. `raft` calls `Persister::SaveRaftState` under its
mutex, hands entries to the WAL thread, and is called back (`onLogStable`) by
that thread. Nodes call one another over `MrpcchannelMultiReq`, whose replies
run handlers on other threads.

What is hard here:

* *concurrency*: RPC handlers, reply handlers, three tickers, detached snapshot
  threads and the WAL thread share one mutex, and four pieces of code leave it
  in the middle of their work (`AppendEntries` for the WAL, `doElection` before
  its deferred `persistState`, `Start` before `AppendLogAsync`, `doHeartBeat`
  for `leaderSendSnapShot`);
* *failure*: a process may die between any two steps, keeping the mmapped state
  and the written WAL; a WAL batch may fail; asserts and `exit(-1)` end the
  process;
* *ordering*: calls are answered late, never, or in another order; two entries
  may reach the WAL in the opposite order;
* *boundaries*: the log starts at a moving snapshot index, and five indexes
  have to stay in order.

`PROJECT.json` lists the hazards line by line with the properties that cover
them, and says of the others what is missing.

## 2. The models

### Raft: state and steps

The variables keep the names of the fields of class `raft`; each is a function
from nodes. `m_logs[i]` is the vector, so `m_logs[i][k]` has index
`m_lastSnapshotIndex[i] + k` (this is the invariant `LogIndexed`, not an
assumption). `fmp` is the mmapped node state, `wal` the sequence of entries in
the order in which they were written; both survive a crash. `jobs` holds what
has left the mutex on its way through the WAL: the entries of a `Start` and the
suspended second half of an `AppendEntries`. `electPersist` is the deferred
`persistState` of `doElection`, `snapThreads` the detached snapshot threads.
Messages are sets of records; a request is consumed when it is handled and a
reply carries its request, which is what the callback closure of the code keeps.
`boot` counts the restarts of a process: a reply reaches only the process that
made the call. `granters`, `votes` and `elected` are history.

One action is one critical section of `m_mtx`:

| action | code (`src/raft/raft.cc`) |
|---|---|
| `doElection`, `LoadElectionState`, `PersistElection` | `electionTimeOutTicker`, `doElection` up to the unlock; its deferred `persistState` |
| `RequestVote`, `handleRequestVoteResponse` | the same names |
| `doHeartBeat`, `doHeartBeatAborts` | `leaderHeartBeatTricker`, `doHeartBeat`; a failing assert |
| `AppendEntries` | up to the unlock before `AppendLogAndWaitStable` |
| `AppendEntriesResume`, `AppendEntriesWalFailed` | the rest of `AppendEntries` |
| `handleAppendEntries` | with `advanceCommitIndex` |
| `leaderSendSnapShot`, `InstallSnapshot`, `leaderSendSnapShotHandler`, `Snapshot` | the same names |
| `Start`, `WalWrite`, `onLogStable`, `onLogStableFails` | `Start`, the WAL thread (`Persister.cc`), the callback |
| `applierTicker` | the same name |
| `Restart` | the death of the process and `init` with `readPersistLogs` |
| `LoseCall` | a lost request or reply |

Details that the code has and that are easy to get wrong are kept: a follower
replaces a conflicting entry in place and never truncates; a leader that learns
of a higher term from an `AppendEntries` reply does not persist it; the entries
a heartbeat carries end at `m_stableLogIndex`; a fresh state file is zero-filled,
so `votedFor` names node 0; the WAL is compacted by the first `persistState`
after a snapshot; `m_lastApplied` restarts at the snapshot.

### Raft: abstractions

* A command is a member of `Command`; timers are nondeterminism.
* The WAL is one sequence of written entries. Module `Persister` has the segment
  files, the batches synced together and the compaction; its `SegmentsAreTheLog`
  says when the files are that sequence.
* A process that dies keeps what it has written to the WAL and to the mmapped
  page: a crash of the process, not of the machine.
* The failure of a batch is one step with its notification, and a batch that
  fails after it was written may stay in the WAL.
* `TornPersist` says whether the unlocked `persistState` of `doElection` may be
  overtaken between loading a field and storing it. It is a data race in the
  code; with `TRUE` each field that is stored is the loaded or the current one.
* The lock order between `raft::m_mtx` and `Persister::m_mtx` is in module
  `Persister`, not in `Raft`.

### Raft: bounds

All bounds are constants and named where `Raft.tla` declares them. `Ballots`
says who may stand in which term and whom the `RequestVote` calls of that
election reach, `Reach` whose other calls reach whom, so that an instance aims
at one question: a call that may not be delivered is a call that is lost. Logs
are bounded by `MaxLog`, unanswered calls per pair by `MaxInFlight`, restarts
and WAL failures by `Restarts` and `MaxWalFailures`. The theorems have none of
these bounds.

Elections are bounded, so every instance ends in states without a step;
deadlock is therefore not checked.

### Persister

`Persister.tla` models one node. `m_queue_log` is the queue of batches, `files`
the segment files by name and `synced` how many entries of each a crash of the
machine leaves; `log_fd`, `offset` and the `m_segment...` counters belong to the
open segment. `m_mtx` and `raft_mtx` are the two mutexes. Above it stands as
much of `raft` as it needs: `m_logs`, which requests extend and failures cut.
`outcome` (what each request was told) and `written` are history.

| action | code |
|---|---|
| `AppendLog` | `AppendLogAsync`, `AppendLogAndWaitStable` up to the wait |
| `WalPop` | `timeOutPop` before the mutex is taken |
| `WalWrite`, `WalTimeout`, `WalWriteFails` | `TryPopBulk`, the loop over the batches, the decision to sync; nothing popped; a failing write and its repair |
| `WalSync`, `RollSegment`, `RollOpens` | `fdatasync`; `RollSegment` up to the rename and after it |
| `NotifyWaiters`, `NotifyCallbacks`, `WalUnlock` | the same names; the end of a turn |
| `SaveRaftState`, `CompactWal`, `RewriteWalFrom` | `persistState` with a snapshot index to compact for; reading and removing the segments; writing the new one |
| `Restart` | a death of process or machine, `ReopenLatestSegment`, `ReadPersistedLogs` |

Abstractions. Requests extend `raft`'s log: a follower that replaces entries at
lower indexes, and adds to `m_logs` only when its batch is stable, is in `Raft`.
Limits count entries, not bytes. A sync closes the segment only after a write that
has filled it; one after the interval does not. The sync interval may be over at
any time. A torn entry at the end of a file is an entry that was not written
(`ReadWalSegment` cuts it off). Directory operations are durable, and so is the
mmapped node state, although `msync` is called with `MS_ASYNC`. Calls queue in
the order of their entries; that they may not is in `Raft`. When a batch fails,
`raft` drops its first entry and everything behind it. The sizes behind
`RaftStateSize` and the destructor are left out.

What the instances leave out, because the code does not survive it:

* `Faults`: a crash between the removal of the segments and the end of the
  rewrite, a rewrite whose write fails, and a batch that fails right after the
  segment has been reopened (`lseek` gives 0 on the fresh `O_APPEND`
  descriptor, and the whole segment is truncated). The passing run has none of
  them; with any one TLC finds `SegmentsAreTheLog` violated.
* `WithinSegment`: after a failed batch the indexes go back, and an entry below
  the first index of the open segment is replayed in the wrong place, because
  segments are sorted by their first index. An entry that is still queued when a
  compaction goes past it is written below the first index, too. The passing run
  stops there.
* `NoForgotten`: a failed write forgets the batches of its bulk behind the failing
  one. Those who asked for the first are told and `raft` cuts its log before them
  all. But a batch that was queued before `raft` heard of the failure has a higher
  index than what `raft` appends next. If the write of that one fails as well, the
  batch behind it is forgotten, `raft` cuts nothing, and a later success reports
  entries stable that a replay cannot connect. One failure is therefore the bound of
  the passing run (with bulks of one batch any number does); with two, `kSyncBatchCount = 2` and five requests of one entry
  TLC finds `StableSurvives` violated.

### KvServer, Clerk and the skip list

`KvServer.tla` has every server's `applyChan`, skip list, `m_last_RequestId`,
`waitApplyCh` and snapshot file, every clerk's `m_requestId`, `m_recentLeaderId`
and current call, and the running handlers, each with a program counter. Raft is
there by what the service sees of it: a committed log, a leader whose
uncommitted entries may be lost in an election, an applier, `InstallSnapshot`.

| action | code |
|---|---|
| `Call`, `Answer`, `RpcFails` | `Clerk::Get`, `Put`, `Append` and their retry loop; the RPC that fails while the handler runs on |
| `Start`, `Register`, `Pop`, `PopFreed`, `TimeOut`, `AfterTimeOut`, `Get` | `KvServer::Get` and `PutAppend`, from mutex to mutex |
| `ReadRaftApplyCommandLoop` | the loop with `GetCommandFromRaft` or `GetSnapShotFromRaft` |
| `MakeSnapShot`, `PersistSnapshotIndex`, `SendMessageToWaitChan` | the rest of `GetCommandFromRaft`: the snapshot file, then the state file, then the waiting handler |
| `CopyLogs`, `PushLogs` | `applierTicker`, before and after it releases the mutex |
| `Commit`, `Elect`, `InstallSnapshot`, `Restart` | raft as seen from above; the death of a server and its constructor |

Two handlers that got one index in two terms share a queue; the first to end
deletes it under the other. What `timeOutPop` of a deleted queue does is
undefined: it may time out or return something, which is the handler's own
operation only if that was in the queue (`PopFreed`).

`SkipList.tla` is a list of nodes with pointers per level, with the searches,
insertions and deletions of the code; the drawn level is a parameter, one for
every key that `load_file` inserts. The loops of the code are recursive functions
over the nodes of a level.
`SkipListUse.tla` applies its operations to a list and to a map side by side.
`load_file` inserts the key as the value, as the code does. `ReplicatedMap.tla`
is the abstract service: a log, and replicas whose maps are its writes in order,
a retry of a request having no effect. A map changes by `Execute` of the next
request or by `Restore`, the take-over of a snapshot. `Restore` counts itself in
`restores`, which `KvServer` counts in `GetSnapShotFromRaft` and `Restart` and
nowhere else: no other step can be taken for one, so a write that is skipped or
executed twice is a violation. After a `Restore` to `p` requests the map has all
keys they write and at most those the log writes. It may have more than the
former, since `load_file` only adds keys: a restarted server is sent a snapshot
that reflects less than its own file does, keeps the keys of the file, and puts
them into its next snapshot. Of the values `ReplicatedMap` promises nothing after a
`Restore`; what a reader expects of them is `RestoredReadsLastWrite`, which the
code violates. `ReadsLastWrite` is the same claim for servers that run on what they
have executed: there a `Get` finds the last write of its key among the entries the
store reflects.

Abstractions. `Start` is accepted by one server, `leader`: a deposed leader that
still accepts, and entries that come back in a later term after `Elect` has dropped
them, are in `Raft`; here they are entries that get lost. `Get` executes and deletes
its queue in one step and `GetCommandFromRaft` checks for a duplicate and executes in
one step, where the code takes `m_mtx` twice: only a late `Get` handler can come in
between (`kv_duplicate`). `InstallSnapshot` is sent by the current leader with the
file it has then; a delayed one is an older one (`OldInstall`). `PushLogs` pushes one
message at a time, and an installed snapshot may fall between two. A server may go
down in `Snapshot` or in `InstallSnapshot` between the new snapshot file and the
new index.

`SnapshotAt` says at which index which server's `GetRaftStateSize` is above the
limit: it differs between servers, whose files differ.

`reflected` (how much of the log a store reflects), `acked` and `floor` are
history. An operation is a pair of client and request id; `Script` says what it
does.

### The RPC layer

`Wire.tla` encodes and decodes every message of `src/proto` byte by byte, as the
generated classes do, and the length-prefixed frames. `RpcProvider.tla` has the
connections with the bytes under way in both directions; `OnMessage` consumes
what has arrived, a task runs the service and appends the response, tasks end in
any order, a connection may end with or without what was under way.

`MrpcchannelMultiReq.tla` has one action per step of a caller
(`RequestVoteAsync`, `CallMethod`, `Schedule`), of the sender (`Sent`,
`SendFails`, `SenderCloses`, `SenderFailsAll`), of the receiver (`Socket`,
`Connected`, `NextFrame`, `ReceiveFrame`, `ReceiveFails`, ...) and of the worker
(`RunDone`). The threads read and write `m_clientFd` without a lock, so a step
ends where one of them reads it again. `Mrpcchannel.tla` is the synchronous
channel of a clerk. `Rpc.tla` puts a provider and one client, with either
channel, together; `CallOnce.tla` is what both promise.

Abstractions: the call is `RequestVote`, and the service answers as a voter that
grants does, with the term of the arguments, so that a reply shows to which call it
belongs; which answer a voter gives is in `Raft`. Requests can be parsed: the
branches of `OnMessage` for those that cannot be are left out. `sendAll` of the
multi-request channel sends a frame whole, on one socket; that it reads
`m_clientFd` again when a send leaves something over is not modelled. The
synchronous channel may give up in the middle of a frame, on an open connection too
(`SO_SNDTIMEO`): `PartSent` are the numbers of bytes that have gone out by then. A
descriptor number is not used again for another socket after `close`. A response is
appended whole in `Rpc`; that `OnMessage` copes with every cut of a stream is
`FramesSurviveCuts` of `WireUse`, where one message of any type is on its way and
arrives in pieces.

## 3. What the runs show

All runs of `Raft` have three nodes. With `s1` as node 0 the nodes are not symmetric, and
no symmetry is used.

| run | instance | result |
|---|---|---|
| `raft_election` | `s1` stands in term 1, then `s2` and `s3` compete in term 2 for `s1`, which may restart once at any time; heartbeats between `s1` and `s2` | `TypeOK`, `ElectionSafety`, `VoteOnce` and the inductive invariant `ElectionInv` hold |
| `raft_takeover` | `s1` leads term 1, `s2` may take over in term 2; two commands for one index; with fairness | `EntryIdentity`, `LeaderComplete`, `LeaderAppendOnly` and `EntriesGetApplied` hold |
| `raft_log` | one leader. If it is s1: two entries, one call under way per pair, snapshots at index 1 on any node, both peers reached; if s2: two entries, one peer with two `AppendEntries` handlers at once, one WAL failure; if s3: one entry, snapshots, and two calls at once to one of two peers | `LogIndexed`, `CommitWithinLog`, `MatchIsHeld`, `AckedEntriesKept`, `ProgressMonotone` hold |
| `raft_stale_suffix` | `s1` and `s2` take turns over five terms | `LeaderComplete` is violated |
| `raft_restart_commit` | two overlapping `AppendEntries`, then a restart of the follower | `CommitWithinLog` is violated |
| `raft_torn_vote` | `raft_election` with a torn `persistState` | `VoteOnce` is violated |
| `persister_wal` | three calls of up to two entries, segments of two, snapshots at 1 and 2, one failing write or sync, one crash | `SegmentsAreTheLog`, `StableSurvives`, `CountersFitSegment` hold, and so does `AckedInv`, from which they follow |
| `persister_locks` | one `Start` and one snapshot, with fairness | `SaveReturns` is violated |
| `kv_service` | two servers, a clerk that puts, appends and gets one key, one failed call, one timeout, election or restart, a snapshot at index 2 | `AckedIsCommitted`, `ReadsAreRecent`, `ReadsLastWrite`, `ReplicaIsLog` (the service implements `ReplicatedMap`) and, of the list by itself, `SkipListIsMap` hold |
| `kv_restored_values` | the same clerk, which puts and appends and then gets the key | `RestoredReadsLastWrite` is violated |
| `kv_duplicate` | a clerk that gets and puts twice, two failed calls, a late `Get` handler | `ReplicaIsLog` is violated |
| `rpc` | two calls, three sockets, one connection lost, through either channel | `CallsAreOnce` (both implement `CallOnce`), `CallsComplete` and, of the bytes by themselves, `RoundTrip`, `FramesSurviveCuts` hold |

Why the bounds are enough for the question asked: two terms are the least in
which a vote can be given twice and a leader deposed; two entries and a snapshot
at 1 put the snapshot at the front, in the middle and at the end of a log; two
calls under way are the least that overlap in the follower's WAL window, one
WAL failure makes a handler give up while another goes on. `raft_log` is
about a leader's log. Two calls to one peer are needed for the window of
`AppendEntries`, and for an `InstallSnapshot` between its halves, but with two entries
and snapshots as well they are too many; so the constraint `QuestionOfLeader` lets one
node stand and asks another question of each: s1 has two entries and snapshots but one
call per peer, s2 the two calls and a failing WAL but nothing applied (so no snapshots),
s3 the two calls and snapshots but one entry. It also leaves out states in which the
leader's deferred `persistState` has not run (`ElectionStored`; `raft_election` has
them) and those in which of the two peers of s1 or s3 the other one, not s2, has the
longer log. In `persister_wal` three
calls fill a segment exactly, overfill it in one bulk and start the next one,
with entries waiting in the queue while the WAL is compacted. The instances of
the violations are narrowed (`TurnsOnly`) to the shape of the behaviour that
violates, which TLC then finds by itself. `LeaderComplete` passes in
`raft_takeover`, where logs have one entry, and fails in
`raft_stale_suffix`: a stale suffix takes a log of three.

In `kv_service` one failed call and one fault of a server are the least that
make a retry meet its first copy, two handlers share an index, a restart find a
snapshot file without its index, and an installed snapshot overtake entries of
the applier; three operations put a snapshot before, at and behind them.
`ApplyInTurn` lets one server apply at a time: servers share no state but the
log and installed snapshots. One clerk is enough for `m_last_RequestId`, which is
kept per client. `LateGets = FALSE` and `OldInstall = FALSE` leave out what the
code does not survive: a `Get` handler that runs on after its clerk's next call
(`kv_duplicate` has it), and a snapshot older than what is applied, which sets
store and request table back. The skip list is also used by itself,
beside a map, before the service begins (`MCKvServer`): three keys, with a node
between two others, two levels above the lowest, so that neighbours end at
different heights, and no bound on the number of operations. In `rpc`
two calls are the least whose answers can be exchanged, three sockets let a
channel reconnect twice, once after a lost connection and once after its own
close. Before the first call `MCRpc` sends one message by itself: each of the 14 types,
its numbers 0, one of two bytes or the negative one that the code sends, its byte
strings empty or longer than one length byte says. Two of the types arrive byte by
byte up to any position and then at once: what is in the buffer depends only on
how much has arrived, so every position is met as the end of one piece and the
start of the next, for a short and for a long frame.

What the properties do not say. `MatchIsHeld` bounds `m_matchIndex` from above and in
one term: that an answer lowers it (`raft.cc:1451`) leaves it true, and the thread of a
deposed leader (`raft.cc:1393`) needs a second term. `EntriesGetApplied` is checked with
logs of one entry, where a follower's hint (`raft.cc:777`) is not needed.
`ReadsAreRecent` is about how much of the log a `Get` is answered from, `ReadsLastWrite`
about what it finds there. `CallsComplete` is about calls that were accepted: one that is
refused never completes, and nothing says that later ones are accepted again. `SegmentsAreTheLog` and `StableSurvives` hold where `Faults`, `WithinSegment` and
`NoForgotten` let them.

### The six disagreements

* **Stale suffix** (`raft.cc:1168`). A follower with entries `1 1 1` (terms)
  gets `2 4` for indexes 1 and 2 and ends with `2 4 1`. Its last term is 1, so
  it votes for a node whose log is `1 1 1`, although it has acknowledged an
  entry of term 4 that is committed. A comment (`raft.cc:1790`) says that
  `AppendEntries` truncates.
* **Commit index after a restart** (`raft.cc:75`). The WAL may hold `1, 2, 1`;
  its replay ends at 1 while the stored commit index is 2. The code asserts
  that this never happens (`raft.cc:1317`).
* **Torn vote** (`raft.cc:267`). The deferred `persistState` runs without the
  mutex.
* **Lock cycle** (`raft.cc:1897`). `persistState` waits for `Persister::m_mtx`
  with `raft::m_mtx` held; the WAL thread runs `onLogStable`, which needs
  `raft::m_mtx`, with `Persister::m_mtx` held. The comment at the call says that
  storing is asynchronous.
* **Lost values** (`skipList.h:320`). `load_file` inserts each key as its own value
  and never reads the values that `dump_file` has written. A clerk puts 11 and appends
  12 at key 1, a snapshot is taken, the server restarts, and a `Get` returns 1. The
  comments call the pair a dump and a load of the data (`skipList.h:264`, 288), and
  linearizability is what `util.h:45` and `clerk.cc:27` claim.
* **Duplicate execution** (`KvServer.cc:59`). `ExecuteGetOpOnKVDB` assigns the
  client's last request id. The log is `r1 r1 r2 r3 r2`; the late handler of the
  `Get` `r1` sets the id back to 1 and the second `r2` is executed again, over
  `r3`. Comments (`KvServer.cc:208`, `util.h:46`, `clerk.cc:27`) say that a
  duplicate is not executed.

`Raft` also has the asserts of `doHeartBeat` (`doHeartBeatAborts`): a leader that
is re-elected before its own entry is stable fails the one at `raft.cc:671`,
since `prevLogIndex` is put into the request before nextIndex is corrected to
the stable index. No run asks for it at present.

### Fairness

`FairSpec` assumes weak fairness of the heartbeat ticker, the applier, the WAL
thread with its callbacks, a resumed `AppendEntries` and the snapshot threads:
each is a thread of its own that waits with a timeout or is notified. For the
calls between nodes that can reach each other it assumes strong fairness of the
delivery of a request and of a reply: a heartbeat is repeated forever, and not
every one of its calls is lost. Nothing is assumed of elections: a leader that
is deposed releases the property. `raft_takeover` takes no snapshots: with them
the WAL thread and `persistState` take two mutexes in opposite order
(`raft.cc:1897`), and weak fairness of the WAL thread would not be justified.

`FairSpec` of `Persister` assumes weak fairness of the WAL thread and of a
thread inside `persistState`: a thread that holds or can take its mutex goes on.

`Spec` of `Rpc` assumes weak fairness of the sender, the receiver and the worker,
of a caller inside `CallMethod`, of the provider's event loop and of scheduled
tasks: each is a thread of its own, and a task is a handler that returns. Nothing
is assumed of the network: a connection need not be made and may end. The
synchronous channel needs no fairness, since nothing is promised of its
progress.

### Mutants

Each property of a passing run is violated when one definition is replaced by
the operator `Faulty...` next to it: a vote forgotten within a term, a vote left
out of the state file, an entry stamped with the previous term, a role kept
after a request of a leader, an off-by-one in the snapshot's offset, a commit
counted too early, an index that is assigned instead of raised, a reply taken
for more than it says, the check after the WAL wait left out, an applier that
waits for one more entry; an open segment sorted before the closed ones, a sync that forces
nothing out, a counter that is not put back after a failed write, a failed entry
that stays in `raft`'s log; the next
request of a known client taken for a duplicate, any popped operation taken for one's own, a read at the
leader that does not pass through the log, a key that keeps its old value; a connection kept after a timeout, pending calls not told of a lost
connection, empty entries left out of a message, a last byte waited for in vain.

## 4. What is proved

The theorems hold for every finite set of nodes, every set of commands, every
script of every set of clerks and every value of the bounds.

| theorem | states | assumes |
|---|---|---|
| `RaftProofs`: `ElectionInvariant`, `VoteOnceHolds`, `ElectionSafetyHolds` | `[]ElectionInv`, `[]VoteOnce`, `[]ElectionSafety` | `NoTornRestart` |
| `RaftProofs`: `LogInvariant`, `LogIndexedHolds` | `[]LogInv`, `[]LogIndexed` | - |
| `RaftEntryProofs`: `EntryInvariant`, `EntryIdentityHolds`, `LeaderAppendOnlyHolds` | `[]EntryInv`, `[]EntryIdentity`, `LeaderAppendOnly` | `NoTornRestart`, `NoFailedWrites` |
| `RaftEntryProofs`: `CommitWithinLogHolds`, `ProgressMonotoneHolds` | `[]CommitWithinLog`, `ProgressMonotone` | `NoRestarts` |
| `RaftEntryProofs`: `TypeOKHolds` | `[]TypeOK` | `NoTornRestart` |
| `RaftEntryProofs`: `AckInvariant`, `AckedEntriesKeptHolds` | `[]AckInv`, `[]AckedEntriesKept` | `NoRestarts`, `NoFailedWrites` |
| `PersisterProofs`: `WalInvariant`, `SegmentsAreTheLogHolds`, `CountersFitSegmentHolds` | `[]WalInv`, `[]SegmentsAreTheLog`, `[]CountersFitSegment` | `NoFaults`, `[]WithinSegment` |
| `PersisterStableProofs`: `AckedInvariant`, `StableSurvivesHolds` | `[]AckedInv`, `[]StableSurvives` | `NoFaults`, `NoForgotten`, `[]WithinSegment` |
| `KvProofs`: `CommitInvariant`, `AckedIsCommittedHolds` | `[]CommitInv`, `[]AckedIsCommitted` | - |
| `KvProofs`: `RecentInvariant`, `ReadsAreRecentHolds` | `[]RecentInv`, `[]ReadsAreRecent` | `~OldInstall` |
| `SkipListProofs`: `SkipListInvariant`, `SkipListIsMapHolds` | `[]ListInv`, `[]SkipListIsMap` | - |
| `KvLogProofs`: `ReplicaInvariant`, `ReplicaIsLogHolds` | `[]ReplicaInv`, `ReplicaIsLog` | `~LateGets`, `~OldInstall` |

Besides these the constants have the assumptions named where they are declared:
the nodes are finitely many, node 0 is one of them and -1 names none
(`ServerAssumption`), `TornPersist` is a truth value, snapshots are taken at
natural numbers, scripts are sequences of calls, `None` is neither an operation
nor a queue nor a snapshot, keys are positive numbers (0 is the null pointer) and
a list has at least one level above the lowest; the limits of a `Persister` are
positive (`PersisterAssumption`).

Every condition is there because the code fails without it:

* `NoTornRestart` (the deferred `persistState` of `doElection` is not torn, or
  no process restarts): `raft_torn_vote` is the counterexample.
* `NoFailedWrites` (`MaxWalFailures = 0`): a leader whose batch fails cuts its
  log and gives the same indexes to other commands of the same term; and the
  callback of a failed batch cuts what the node has acknowledged to a later
  leader. With `MaxWalFailures = 1` TLC violates `AckedEntriesKept` on the
  constants of `raft_takeover`.
* `NoRestarts` (`Restarts = {}`): a restarted process trusts a stored commit
  index that its WAL may not reach (`raft_restart_commit`). Restarts are covered
  by `LogIndexed` without a condition and by the results that assume only
  `NoTornRestart`.
* `~OldInstall`: `InstallSnapshot` compares a snapshot with the last snapshot and
  not with what is applied, so that an old one takes store and request table
  back. If the servers take their snapshots at different indexes, TLC violates
  `ReadsAreRecent` with `OldInstall = TRUE`. That a sender's snapshot is newer is
  the ordinary case: a follower is sent one because its log is behind it.
* `~LateGets`: a `Get` handler that runs on after its clerk's next call sets the
  client's last request id back, and a retry is executed again (`kv_duplicate`).
* `NoFaults`, `NoForgotten` and `[]WithinSegment`: see what the instances of
  `Persister` leave out, in section 2. The first two are about constants, so that
  they choose the failures a behaviour may have; the third is about the behaviour
  itself: no entry is written at an index that is below the open segment's first.

### Elections

That a voter votes once does not follow from one step of a state in which it has
done so: the vote may be forgotten in memory, on disk, or counted twice by the
candidate. `ElectionInv` adds

* `VotesHeld`: memory remembers every vote until a newer term, and
  `VotesOnDisk`: so does the state file (this is what `Restart` needs);
* `CandidateCounts`: a candidate's `votedNum` is the number of distinct voters
  whose votes it holds, although the code keeps only the number;
* `RequestsOnce`, `RepliesOnce`: a call has one request or one reply under way,
  and none that the caller has counted already (this is what makes the counter
  a set);
* `ElectedByMajority`: whoever was elected had a majority of votes.

Then two leaders of one term have a common voter (`MajoritiesMeet`), who voted
once. The proof that a step keeps the invariant has one lemma per kind of step:
steps that leave elections alone (`FrameCore`), steps that take over a term
(`TermStepCore`), `doElection`, `RequestVote`, a counted vote, `Restart`, and
for the state file one lemma for all steps (`SaveStepDisk`). One case per
disjunct of `Next` then says of which kind it is.

### Logs

`LogIndexed` says that `m_logs[k]` has index `m_lastSnapshotIndex + k`. It is
kept by a restart only if the WAL, in any order of writes, replays to
consecutive entries, and by `AppendEntriesResume` only if what a handler writes
after its wait still fits a log that has moved meanwhile. So `LogInv` types every
log, WAL, call and suspended handler and says that a request's entries follow its
`prevLogIndex`. The two loops behind it (the replay of the WAL, the choice of
pending writes) are recursive functions over the turns of the loop, and
`LoopProofs` proves what they compute: a claim that failed at some turn would fail
at a first one (`LeastNat`, `UpTo`). No condition is needed: torn state files,
failed writes and restarts are all covered.

`EntryIdentity` compares entries wherever they are. `EntryInv` says that an entry
in any log, WAL, request, pending write or callback was made in the term of an
elected leader (`MadeByElected`), and that while this leader leads, its log
reaches as far as any entry of its term (`LeaderReachesOwn`): what `Start` makes
is new. Every other step only copies entries (`HeldIn`). One leader per term,
from `ElectionSafety`, gives one entry per term and index, and with it
`LeaderAppendOnly`: the leader never takes an `AppendEntries` of its own term.

`CommitWithinLog` is inductive together with `LogInv`, and its proof gives
`ProgressMonotone`. `TypeOK` needs, beyond `LogInv`, that a candidate never
counts more votes than there are nodes, which is `CandidateCounts`.

`AckedEntriesKept` is about the window in which `AppendEntries` has left the
mutex. `AckInv` says that a leader has all it has sent in its term
(`LeaderHasSent`), so that two requests of a term agree wherever they overlap
(`SentAgree`), and that a waiting handler's entries are each in the log or among
its pending writes (`WaitingHas`). A handler that resumes can then replace an
entry only by itself.

### The write-ahead log

`SegmentsAreTheLog` compares two replays. It is not inductive: a segment under a
wrong name, or one with an entry too many in its counters, replays rightly until the
next roll. `WalInv` says instead that the files, in the order in which
`ListSegments` sorts them, are what was written, entry by entry (`ContentsInv`, on
`WalContents`, not on its replay). For this it says of the directory that first
indexes differ, that all files but the open one are closed under the index of their
last entry and are on the disk, that the open one sorts last (`FilesInv`), and of the
open one that its counters are right and that it is written at its end (`OpenInv`).
`MutexesHeld` says at which program counters each mutex is held; it is why the WAL
thread finds its file where it left it, and why no batch is written while there is
none. The proof needs what a change of the last segment does to the contents
(`Replaced`, `LastReplaced`), and what it does to the order when a segment is opened
behind the others or renamed. `WithinSegment` enters in one place only, `RollSegment`:
the last entry of the open segment is not below its first index, so that the next one
sorts behind it.

`StableSurvives` speaks of `raft`'s log, which knows nothing of positions in the WAL,
where a later entry may replace an earlier one in a replay. `AckedInv` adds

* `LogHeld`: each entry of `raft`'s log is somewhere in what is written or queued,
  with nothing behind it there that a replay would put in its place or in that of an
  entry before it (`Holds`); or it is one a failed write has dropped, and a request
  that is about to be told of it will cut it off (`Lost`);
* `StableHeld` and `CollectedHeld`: the entry of a request that was told "stable",
  and all before it in `raft`'s log, are in the part that is on the disk; and so are
  those of the requests the WAL thread has collected when it gets to notify them.
  "All before it" is needed because a replay drops what does not connect;
* `QueueInOrder`: requests wait in the order of their calls, and until a write fails,
  also of their indexes. So a failed batch that is told of its failure cuts off
  those forgotten behind it.

An append adds higher indexes at the end (`HoldsAppend`), a failed write takes a piece
out of the middle (`HoldsDrop`), a restart cuts the end off, which was not on the disk
(`HoldsPrefix`), and `CompactWal` replaces what is written by its replay
(`HoldsReplayed`). `ReplayHas` and `ReplayKept` say that entries a list holds are
replayed, and that those replayed were held; the replay is a recursive function over the
turns of a loop, and both go by the first turn that breaks a claim.

### The service

A clerk is answered by whichever handler pops from a queue of `waitApplyCh`,
finds its request in the table after a timeout, or reads a queue another handler
has freed. `CommitInv` says that an operation in `applyChan`, in the loop or in a
queue is the entry of its index, that a request table or snapshot covers only
operations of the log (`TableInv`, whose step needs that a clerk's earlier requests
are in the log: `EarlierAcked`), and that the number of a clerk's call tells one
handler apart from those it has given up (`CallsDiffer`, `CallIsCurrent`).

For `ReadsAreRecent`, `RecentInv` measures how much of the log a store reflects:
an operation comes after the first entry of every earlier request of its clerk and
after what had returned when it was called (`LogInOrder`); a table covers only what
the first `reflected` entries hold (`CoveredBy`), also in a snapshot file and in a
snapshot on its way; and an operation in a queue, in the loop or with a handler
that has popped it has been executed, with no snapshot on its way that would take it
back (`Executed`). So a `Get` that has popped its entry, or finds its request in the
table, is answered from a store that reflects an entry behind its floor.

### The skip list

`WellFormed` follows the pointers of a level to its end. `ListInv` says the same of
single pointers: each leads to the next node that has its level (`LeadsTo`), a node
has every level up to its own (`Towers`), and the list is as high as its highest
node (`HighestLevel`), which is why a search may begin at the list's level and go
down at the node where it stands. The searches are recursive functions over a row of nodes;
that they end, and where, is proved without induction from a least counterexample: the
greatest node of a row for which a claim fails has a successor for which it
holds. With `Advance` and `Update` known for every key, an insertion and a deletion
keep `ListInv` row by row. `delete_element` stops unlinking at the first level that
does not point to the node; that is right only because of `Towers`. `dump_file` lists
the lowest row in order and `load_file` inserts its keys into whatever list is there,
so a reload keeps `ListInv` for any levels drawn.

### The service implements its specification

A step of a store executes the next request of the log only if no message was
missed before it and if `ifRequestDuplicate` answers exactly when the log has the
request already. `ReplicaInv` adds to `CommitInv` and `RecentInv`

* `CoversAll`: the table of a store, a snapshot file or a snapshot on its way covers
  every write among the entries it reflects. `CoveredBy` of `RecentInv` is the other
  direction, and the two say that a request is taken for a duplicate if and only if the
  log has it before;
* `HasKeys`: the keys of a store or snapshot are those its entries write, and some of
  later ones at most;
* `NoGap`: following the messages from the loop's queue to the applier's hand, each
  entry is preceded by the one before it or reflected already, and the applier goes
  on where they end. A snapshot may fall anywhere in between, also one that the store
  has overtaken;
* `m_lastSnapShotRaftLogIndex` is never ahead of what the store reflects, so that the
  check in `GetCommandFromRaft` never drops an entry the store does not have.

`InstallSnapshot`, which pushes to the same queue as an applier that has copied its
entries and left the mutex, is the step that `NoGap` is about. Then each action is a
step of `ReplicatedMap`: `Commit` appends, `GetCommandFromRaft` is an `Execute` or (a
message that is behind) a stutter, `GetSnapShotFromRaft` and `Restart` are a
`Restore`, and no other action touches log, map, position or `restores`. A `Restore`
leaves the values open, so the theorem says nothing of what a restored key holds. That the map is the
skip list's contents is where `ListInv` enters.

TLC checked each inductive invariant before it was proved, `ElectionInv` in
`raft_election`, the others on the instances of `raft_takeover`, `raft_log`,
`kv_service` and `persister_wal`; for `ListInv`, whose bound on the keys is a natural
number, with numbers up to the largest key.

## 5. What is only model-checked

* Liveness (`EntriesGetApplied`, `SaveReturns`, `CallsComplete`): the prover does
  not handle fairness.
* `LeaderComplete` and `MatchIsHeld`. No theorem can state them: `LeaderComplete`
  does not hold of the code (`raft_stale_suffix`), and on that instance TLC
  violates `MatchIsHeld` too. A stale leader compares `prevLogIndex` with an entry
  of an old term that nothing has cut off, the follower answers success, and
  `m_matchIndex` covers entries the two logs do not share. They are checked where
  this cannot happen: with one takeover, and with one leader.
* `ReadsLastWrite`: what a `Get` finds on a store that was never restored. That such a
  store executes the log's requests in order and once is proved (`ReplicaIsLogHolds`);
  that the last of them is what a search finds is left to TLC.
* What `Wire` computes for every message (`RoundTrip`, `FramesSurviveCuts`), and the
  refinement of `CallOnce` by `Rpc`, which stands on it: the readers are recursive
  functions over the bytes.

## 6. What is not modelled, and the plan

Next, in this order:

1. A theorem: the safety part of `CallOnce` for `MrpcchannelMultiReq` (a call is
   in one place: pending, at the worker or completed).
2. `Persister` and `Raft` composed: an abstract log of stable entries that the
   one refines and the other uses as `wal`; that what is sent is on disk
   (`raft.cc:1754`), and that everyone who waits is told (a failing write forgets
   the batches behind it, `Persister.cc:280`).
3. Instances of `Raft` with a takeover and snapshots, and one in which a leader
   comes back in a third term (the assert of `doHeartBeat`).

Left out for good: the parser of the configuration file, set-up code (`Run`, the
sleeping constructor), the accessors and reflection of the generated classes,
`CallMethodImpl1` and `MrpcAsyncChannel`, which nothing uses, the coroutine and
thread pool libraries (submodules whose sources are not in the repository), and
the example programs.
