------------------------------ MODULE KvServer ------------------------------
(***************************************************************************)
(* The key-value service: Clerk (clerk.cc), the RPC handlers and the apply  *)
(* loop of KvServer (KvServer.cc) on every server, and the snapshot file.   *)
(* Raft is present by what the service sees of it (Raft.tla models it): a   *)
(* committed log, a leader with entries that may still be lost, an applier  *)
(* that hands entries to applyChan after it has released its mutex, and     *)
(* InstallSnapshot.  An operation is <<client, request id>>; Script says    *)
(* what it does, so that Op::asString and parseFromString keep it.          *)
(***************************************************************************)
EXTENDS SkipList, FiniteSetsExt

CONSTANTS
    NumServers,  \* m_servers.size()
    Clerk,       \* the clients
    Script,      \* Script[c]: the calls client c makes, [op, key, value] each
    Levels,      \* bound: the levels get_random_level draws
    SnapshotAt,  \* the servers and indexes at which GetRaftStateSize is above the limit
    MaxFaults,   \* bound: [rpc, server]: failed calls, and timeouts, elections and restarts together
    LateGets,    \* TRUE: a Get handler may run on after its clerk has moved to its next call
    OldInstall,  \* TRUE: InstallSnapshot may bring a snapshot older than what is applied
    None

Server == 0..(NumServers - 1)

ASSUME ServiceAssumption ==
    /\ NumServers \in Nat \ {0}
    /\ \A c \in Clerk : Script[c] \in
           Seq([op : {"Put", "Append", "Get"}, key : Key, value : Value])
    /\ Levels \subseteq get_random_level

\* An operation is a client and the number of its request.
Operation == UNION {{c} \X (1..Len(Script[c])) : c \in Clerk}

\* A snapshot: a dump, the request table, and how much of the log they reflect (a history).
Snapshot == [dump : [keyDumpVt_ : Seq(Key), valDumpVt_ : Seq(Value \cup Key)],
             last : [Clerk -> Nat], at : Nat]

\* None is none of the operations, queues and snapshots.
ASSUME NoneAssumption ==
    None \notin Operation /\ None \notin Seq(Operation) /\ None \notin Snapshot

VARIABLES
    \* raft, as the service sees it
    log,                         \* the committed operations
    pending,                     \* the leader's entries that are not committed
    leader,                      \* the server whose Start succeeds, or None
    lastApplied,                 \* m_lastApplied of each server
    hand,                        \* the messages applierTicker has copied and not pushed
    m_lastSnapshotIndex,         \* as persistState stored it
    snapshotFile,                \* the snapshot file, or None
    \* KvServer
    applyChan,
    m_skipList, m_last_RequestId, waitApplyCh, m_lastSnapShotRaftLogIndex,
    loop,                        \* the command ReadRaftApplyCommandLoop is at, or None
    handler,                     \* the running Get and PutAppend calls
    \* Clerk
    m_requestId, m_recentLeaderId, server,
    call,                        \* the number of the clerk's RPC, and whether it waits
    faults,                      \* counts against MaxFaults
    \* history, for the properties
    reflected,                   \* reflected[s]: how much of the log the store reflects
    restores,                    \* restores[s]: how often the store was taken over from a snapshot
    acked,                       \* the operations that returned to their clerk
    floor                        \* floor[c]: the log index of the last one when c's call began

raftVars  == <<log, pending, leader>>
nodeVars  == <<lastApplied, hand, m_lastSnapshotIndex>>
storeVars == <<m_skipList, m_last_RequestId, m_lastSnapShotRaftLogIndex, reflected, restores>>
clerkVars == <<m_requestId, m_recentLeaderId, server, call, acked, floor>>
vars == <<raftVars, nodeVars, snapshotFile, applyChan, storeVars, waitApplyCh, loop, handler,
          clerkVars, faults>>

What(o)   == Script[o[1]][o[2]]

IsGet(o) == What(o).op = "Get"

Fault(kind) ==
    /\ faults[kind] < MaxFaults[kind]
    /\ faults' = [faults EXCEPT ![kind] = @ + 1]

-----------------------------------------------------------------------------
\* Clerk

\* The RPC of call number n for the current request of c arrives at server s.
Rpc(c, id, n, s) ==
    [op |-> <<c, id>>, call |-> n, server |-> s, pc |-> "called", index |-> 0, freed |-> None,
     err |-> None, at |-> 0]

Current(c) == {h \in handler : h.op[1] = c /\ h.call = call[c].n}

\* A number no running call of c has.
Fresh(c, running) == Min(1..(Cardinality(running) + 1) \ {h.call : h \in {k \in running : k.op[1] = c}})

\* The first log index of an operation (0 if it has none).
FirstIndex(o) == LET I == {i \in DOMAIN log : log[i] = o}
                 IN  IF I = {} THEN 0 ELSE Min(I)

\* Clerk::Get, Put and Append: a new request id, first to the server that answered last.
Call(c) ==
    /\ ~call[c].waiting
    /\ m_requestId[c] < Len(Script[c])
    /\ m_requestId' = [m_requestId EXCEPT ![c] = @ + 1]
    /\ server' = [server EXCEPT ![c] = m_recentLeaderId[c]]
    /\ call' = [call EXCEPT ![c] = [n |-> Fresh(c, handler), waiting |-> TRUE]]
    /\ handler' = handler \cup
                     {Rpc(c, m_requestId[c] + 1, Fresh(c, handler), m_recentLeaderId[c])}
    /\ floor' = [floor EXCEPT ![c] = Max({FirstIndex(o) : o \in acked} \cup {0})]
    /\ UNCHANGED <<raftVars, nodeVars, snapshotFile, applyChan, storeVars, waitApplyCh, loop,
                   m_recentLeaderId, faults, acked>>

\* !ok or ErrWrongLeader: the same request goes to the next server.
Retry(c, gone) ==
    LET s == (server[c] + 1) % NumServers
        n == Fresh(c, handler \ gone)
    IN  /\ server' = [server EXCEPT ![c] = s]
        /\ call' = [call EXCEPT ![c].n = n]
        /\ handler' = (handler \ gone) \cup {Rpc(c, m_requestId[c], n, s)}
        /\ UNCHANGED <<m_requestId, m_recentLeaderId, acked, floor>>

\* OK (which also remembers the server) and ErrNoKey return to the caller.
Return(c, h) ==
    /\ m_recentLeaderId' = [m_recentLeaderId EXCEPT ![c] = IF h.err = "OK" THEN h.server ELSE @]
    /\ call' = [call EXCEPT ![c] = [n |-> 0, waiting |-> FALSE]]
    /\ handler' = handler \ {h}
    /\ acked' = acked \cup {h.op}
    /\ UNCHANGED <<m_requestId, server, floor>>

\* The answer of the current RPC.
Answer(c) ==
    /\ call[c].waiting
    /\ \E h \in Current(c) :
          /\ h.pc = "done"
          /\ IF h.err = "ErrWrongLeader" THEN Retry(c, {h}) ELSE Return(c, h)
    /\ UNCHANGED <<raftVars, nodeVars, snapshotFile, applyChan, storeVars, waitApplyCh, loop,
                   faults>>

\* The RPC fails: after its timeout, with the handler running on or its answer lost, or because
\* the server went down.
RpcFails(c) ==
    /\ call[c].waiting
    /\ IF Current(c) = {} THEN UNCHANGED faults ELSE Fault("rpc")
    /\ Retry(c, {h \in Current(c) : h.pc = "done"})
    /\ UNCHANGED <<raftVars, nodeVars, snapshotFile, applyChan, storeVars, waitApplyCh, loop>>

-----------------------------------------------------------------------------
\* KvServer::Get and PutAppend

Step(h, changes) == handler' = (handler \ {h}) \cup {changes}

Abandoned(h) == ~(call[h.op[1]].waiting /\ call[h.op[1]].n = h.call)

\* The end of a handler: the reply (to nobody if the clerk has given up), with the queue of the
\* index erased and deleted, whoever else waits on it.
Finish(h, err) ==
    LET queues  == waitApplyCh[h.server]
        Freed(o) == IF o.freed # None THEN o.freed
                    ELSE IF h.index \in DOMAIN queues THEN queues[h.index] ELSE << >>
    IN
    /\ waitApplyCh' = [waitApplyCh EXCEPT ![h.server] = Restrict(@, DOMAIN @ \ {h.index})]
    /\ handler' =
          {IF o.server = h.server /\ o.index = h.index /\ o.pc = "wait"
           THEN [o EXCEPT !.freed = Freed(o)] ELSE o : o \in handler \ {h}}
             \cup IF Abandoned(h) THEN {}
                  ELSE {[h EXCEPT !.pc = "done", !.err = err, !.index = 0, !.freed = None,
                                  !.at = IF IsGet(h.op) /\ err # "ErrWrongLeader"
                                         THEN reflected[h.server] ELSE 0]}

\* The buggy variant: a leader answers a Get from its own store, without the log.
FaultyStart(h) ==
    /\ h.pc = "called"
    /\ IF leader # h.server
       THEN /\ handler' = (handler \ {h}) \cup
                  IF Abandoned(h) THEN {} ELSE {[h EXCEPT !.pc = "done", !.err = "ErrWrongLeader"]}
            /\ UNCHANGED pending
       ELSE IF IsGet(h.op)
       THEN Step(h, [h EXCEPT !.pc = "popped"]) /\ UNCHANGED pending
       ELSE /\ pending' = Append(pending, h.op)
            /\ Step(h, [h EXCEPT !.pc = "started", !.index = Len(log) + Len(pending) + 1])
    /\ UNCHANGED <<log, leader, nodeVars, snapshotFile, applyChan, storeVars, waitApplyCh, loop,
                   clerkVars, faults>>

\* m_raftNode->Start: refused, or the operation gets the next index.
Start(h) ==
    /\ h.pc = "called"
    /\ IF leader # h.server
       THEN /\ handler' = (handler \ {h}) \cup
                  IF Abandoned(h) THEN {} ELSE {[h EXCEPT !.pc = "done", !.err = "ErrWrongLeader"]}
            /\ UNCHANGED pending
       ELSE /\ pending' = Append(pending, h.op)
            /\ Step(h, [h EXCEPT !.pc = "started", !.index = Len(log) + Len(pending) + 1])
    /\ UNCHANGED <<log, leader, nodeVars, snapshotFile, applyChan, storeVars, waitApplyCh, loop,
                   clerkVars, faults>>

\* The queue of the index, shared with a handler that got the index in an earlier term.
Register(h) ==
    /\ h.pc = "started"
    /\ waitApplyCh' = [waitApplyCh EXCEPT ![h.server] =
                         [i \in DOMAIN @ \cup {h.index} |-> IF i \in DOMAIN @ THEN @[i] ELSE << >>]]
    /\ Step(h, [h EXCEPT !.pc = "wait"])
    /\ UNCHANGED <<raftVars, nodeVars, snapshotFile, applyChan, storeVars, loop, clerkVars, faults>>

\* The buggy variant: whatever is popped is taken for the handler's operation.
FaultyPop(h) ==
    LET queue == waitApplyCh[h.server][h.index]
    IN  /\ h.pc = "wait" /\ h.freed = None
        /\ queue # << >>
        /\ IF IsGet(h.op)
           THEN /\ Step(h, [h EXCEPT !.pc = "popped"])
                /\ waitApplyCh' = [waitApplyCh EXCEPT ![h.server][h.index] = Tail(@)]
           ELSE Finish(h, "OK")
        /\ UNCHANGED <<raftVars, nodeVars, snapshotFile, applyChan, storeVars, loop, clerkVars,
                       faults>>

\* timeOutPop returns an operation: an answer only if it is the handler's own.
Pop(h) ==
    LET queue == waitApplyCh[h.server][h.index]
    IN  /\ h.pc = "wait" /\ h.freed = None
        /\ queue # << >>
        /\ IF IsGet(h.op) /\ Head(queue) = h.op
           THEN /\ Step(h, [h EXCEPT !.pc = "popped"])
                /\ waitApplyCh' = [waitApplyCh EXCEPT ![h.server][h.index] = Tail(@)]
           ELSE Finish(h, IF Head(queue) = h.op THEN "OK" ELSE "ErrWrongLeader")
        /\ UNCHANGED <<raftVars, nodeVars, snapshotFile, applyChan, storeVars, loop, clerkVars,
                       faults>>

\* timeOutPop of a deleted queue: what it reads is undefined; it may take it for an operation, which
\* is the handler's own only if that was in the queue when it was deleted.
PopFreed(h) ==
    /\ h.pc = "wait" /\ h.freed # None
    /\ \E own \in {FALSE, h.freed # None /\ h.op \in Range(h.freed)} :
          IF own /\ IsGet(h.op)
          THEN Step(h, [h EXCEPT !.pc = "popped"]) /\ UNCHANGED waitApplyCh
          ELSE Finish(h, IF own THEN "OK" ELSE "ErrWrongLeader")
    /\ UNCHANGED <<raftVars, nodeVars, snapshotFile, applyChan, storeVars, loop, clerkVars, faults>>

\* CONSENSUS_TIMEOUT passes with the queue empty (or deleted).
TimeOut(h) ==
    /\ h.pc = "wait"
    /\ h.freed = None => waitApplyCh[h.server][h.index] = << >>
    /\ Fault("server")
    /\ Step(h, [h EXCEPT !.pc = "timedout"])
    /\ UNCHANGED <<raftVars, nodeVars, snapshotFile, applyChan, storeVars, waitApplyCh, loop,
                   clerkVars>>

\* The buggy variant: the next request of a client that is known is taken for a duplicate, too.
Faulty_ifRequestDuplicate(s, o) ==
    m_last_RequestId[s][o[1]] # 0 /\ o[2] <= m_last_RequestId[s][o[1]] + 1

\* The client's request, or a later one, has been executed.
ifRequestDuplicate(s, o) == o[2] <= m_last_RequestId[s][o[1]]

\* ExecuteGetOpOnKVDB with the end of the handler.
ExecuteGetOpOnKVDB(h) ==
    /\ ~LateGets => m_requestId[h.op[1]] = h.op[2]
    /\ Finish(h, IF search_element(m_skipList[h.server], What(h.op).key).exist
                 THEN "OK" ELSE "ErrNoKey")
    /\ m_last_RequestId' = [m_last_RequestId EXCEPT ![h.server][h.op[1]] = h.op[2]]

\* The Get has popped its own operation.
Get(h) ==
    /\ h.pc = "popped"
    /\ ExecuteGetOpOnKVDB(h)
    /\ UNCHANGED <<raftVars, nodeVars, snapshotFile, applyChan, m_skipList,
                   m_lastSnapShotRaftLogIndex, reflected, restores, loop, clerkVars, faults>>

\* After a timeout: an operation that has been executed is answered, a Get only by the leader.
AfterTimeOut(h) ==
    LET duplicate == ifRequestDuplicate(h.server, h.op)
    IN  /\ h.pc = "timedout"
        /\ IF IsGet(h.op) /\ duplicate /\ leader = h.server
           THEN ExecuteGetOpOnKVDB(h)
           ELSE /\ Finish(h, IF duplicate /\ ~IsGet(h.op) THEN "OK" ELSE "ErrWrongLeader")
                /\ UNCHANGED m_last_RequestId
        /\ UNCHANGED <<raftVars, nodeVars, snapshotFile, applyChan, m_skipList,
                       m_lastSnapShotRaftLogIndex, reflected, restores, loop, clerkVars, faults>>

-----------------------------------------------------------------------------
\* The apply loop

\* getSnapShotData: the dump of the list and the request table (taken when the store reflects `at`).
getSnapShotData(s) ==
    [dump |-> dump_file(m_skipList[s]), last |-> m_last_RequestId[s], at |-> reflected[s]]

\* parseFromString: the request table is replaced, the list gets the keys of the dump.
parseFromString(s, sl, snapshot) ==
    /\ \E levels \in LevelsFor(snapshot.dump, Levels) :
          m_skipList' = [m_skipList EXCEPT ![s] = load_file(sl, snapshot.dump, levels)]
    /\ m_last_RequestId' = [m_last_RequestId EXCEPT ![s] = snapshot.last]
    /\ reflected' = [reflected EXCEPT ![s] = snapshot.at]

\* ExecutePutOpOnKVDB and ExecuteAppendOpOnKVDB: both set the key.
ExecutePutOpOnKVDB(s, o, level) ==
    /\ m_skipList' = [m_skipList EXCEPT ![s] =
                         insert_set_element(@, What(o).key, What(o).value, level)]
    /\ m_last_RequestId' = [m_last_RequestId EXCEPT ![s][o[1]] = o[2]]

\* GetCommandFromRaft up to the snapshot: entries of a snapshot are skipped, executed requests are
\* not executed again, a Get is left to its handler.
GetCommandFromRaft(s, m) ==
    /\ IF m.index <= m_lastSnapShotRaftLogIndex[s]
       THEN UNCHANGED <<m_skipList, m_last_RequestId, loop, reflected>>
       ELSE /\ loop' = [loop EXCEPT ![s] = [op |-> m.op, index |-> m.index, pc |-> "executed"]]
            /\ reflected' = [reflected EXCEPT ![s] = IF m.index > @ THEN m.index ELSE @]
            /\ IF IsGet(m.op) \/ ifRequestDuplicate(s, m.op)
               THEN UNCHANGED <<m_skipList, m_last_RequestId>>
               ELSE \E level \in Levels : ExecutePutOpOnKVDB(s, m.op, level)
    /\ UNCHANGED <<m_lastSnapShotRaftLogIndex, restores>>

\* GetSnapShotFromRaft.
GetSnapShotFromRaft(s, m) ==
    /\ parseFromString(s, m_skipList[s], m.snapshot)
    /\ m_lastSnapShotRaftLogIndex' = [m_lastSnapShotRaftLogIndex EXCEPT ![s] = m.index]
    /\ restores' = [restores EXCEPT ![s] = @ + 1]
    /\ UNCHANGED loop

\* The loop takes a message.
ReadRaftApplyCommandLoop(s) ==
    /\ loop[s] = None
    /\ applyChan[s] # << >>
    /\ applyChan' = [applyChan EXCEPT ![s] = Tail(@)]
    /\ LET m == Head(applyChan[s])
       IN  IF m.op # None THEN GetCommandFromRaft(s, m) ELSE GetSnapShotFromRaft(s, m)
    /\ UNCHANGED <<raftVars, nodeVars, snapshotFile, waitApplyCh, handler, clerkVars, faults>>

\* raft::Snapshot refuses an index that is compacted already.
NeedsSnapshot(s) == <<s, loop[s].index>> \in SnapshotAt /\ loop[s].index > m_lastSnapshotIndex[s]

\* IfNeedToSendSnapShotCommand: the snapshot file is written ...
MakeSnapShot(s) ==
    /\ loop[s] # None /\ loop[s].pc = "executed" /\ NeedsSnapshot(s)
    /\ snapshotFile' = [snapshotFile EXCEPT ![s] = getSnapShotData(s)]
    /\ loop' = [loop EXCEPT ![s].pc = "saved"]
    /\ UNCHANGED <<raftVars, nodeVars, applyChan, storeVars, waitApplyCh, handler, clerkVars, faults>>

\* ... and then persistState stores the new first index of the log.
PersistSnapshotIndex(s) ==
    /\ loop[s] # None /\ loop[s].pc = "saved"
    /\ m_lastSnapshotIndex' = [m_lastSnapshotIndex EXCEPT ![s] = loop[s].index]
    /\ loop' = [loop EXCEPT ![s].pc = "persisted"]
    /\ UNCHANGED <<raftVars, lastApplied, hand, snapshotFile, applyChan, storeVars, waitApplyCh,
                   handler, clerkVars, faults>>

\* A handler gets the operation if it has its queue by now.
SendMessageToWaitChan(s) ==
    /\ loop[s] # None
    /\ loop[s].pc # "saved" /\ (loop[s].pc = "executed" => ~NeedsSnapshot(s))
    /\ waitApplyCh' = [waitApplyCh EXCEPT ![s] =
                         [i \in DOMAIN @ |-> IF i = loop[s].index THEN Append(@[i], loop[s].op)
                                                                  ELSE @[i]]]
    /\ loop' = [loop EXCEPT ![s] = None]
    /\ UNCHANGED <<raftVars, nodeVars, snapshotFile, applyChan, storeVars, handler, clerkVars, faults>>

-----------------------------------------------------------------------------
\* raft

\* The leader commits its next entry.
Commit ==
    /\ leader # None /\ pending # << >>
    /\ log' = Append(log, Head(pending))
    /\ pending' = Tail(pending)
    /\ UNCHANGED <<leader, nodeVars, snapshotFile, applyChan, storeVars, waitApplyCh, loop, handler,
                   clerkVars, faults>>

\* Another term: the new leader has some of the entries that are not committed.
Elect(s) ==
    /\ IF leader = None THEN UNCHANGED faults ELSE Fault("server")
    /\ leader' = s
    /\ \E k \in 0..Len(pending) : pending' = SubSeq(pending, 1, k)
    /\ UNCHANGED <<log, nodeVars, snapshotFile, applyChan, storeVars, waitApplyCh, loop, handler,
                   clerkVars>>

\* applierTicker copies entries and advances m_lastApplied with the mutex held ...
CopyLogs(s) ==
    /\ hand[s] = << >>
    /\ lastApplied[s] < Len(log)
    /\ hand' = [hand EXCEPT ![s] = [k \in 1..(Len(log) - lastApplied[s]) |->
                   [op |-> log[lastApplied[s] + k], index |-> lastApplied[s] + k]]]
    /\ lastApplied' = [lastApplied EXCEPT ![s] = Len(log)]
    /\ UNCHANGED <<raftVars, m_lastSnapshotIndex, snapshotFile, applyChan, storeVars, waitApplyCh,
                   loop, handler, clerkVars, faults>>

\* ... and pushes them without it, one by one.
PushLogs(s) ==
    /\ hand[s] # << >>
    /\ applyChan' = [applyChan EXCEPT ![s] = Append(@, Head(hand[s]))]
    /\ hand' = [hand EXCEPT ![s] = Tail(@)]
    /\ UNCHANGED <<raftVars, lastApplied, m_lastSnapshotIndex, snapshotFile, storeVars, waitApplyCh,
                   loop, handler, clerkVars, faults>>

\* Server s accepts the snapshot of the leader.
Accepts(s) ==
    /\ leader \notin {None, s}
    /\ m_lastSnapshotIndex[leader] > m_lastSnapshotIndex[s]
    /\ ~OldInstall => m_lastSnapshotIndex[leader] > lastApplied[s]

\* raft::InstallSnapshot at s, sent by the leader with its snapshot file.
InstallSnapshot(s) ==
    LET index == m_lastSnapshotIndex[leader]
    IN  /\ Accepts(s)
        /\ lastApplied' = [lastApplied EXCEPT ![s] = IF index > @ THEN index ELSE @]
        /\ snapshotFile' = [snapshotFile EXCEPT ![s] = snapshotFile[leader]]
        /\ m_lastSnapshotIndex' = [m_lastSnapshotIndex EXCEPT ![s] = index]
        /\ applyChan' = [applyChan EXCEPT ![s] = Append(@,
                            [op |-> None, index |-> index, snapshot |-> snapshotFile[leader]])]
        /\ UNCHANGED <<raftVars, hand, storeVars, waitApplyCh, loop, handler, clerkVars, faults>>

\* A server goes down and starts again: raft applies from its stored snapshot index on, the store
\* is what the snapshot file gives, m_lastSnapShotRaftLogIndex is 0.  It may go down in InstallSnapshot
\* after Save and before persistState, with the new file and the old index.
Restart(s) ==
    /\ Fault("server")
    /\ \/ UNCHANGED snapshotFile
       \/ Accepts(s) /\ snapshotFile' = [snapshotFile EXCEPT ![s] = snapshotFile[leader]]
    /\ handler' = {h \in handler : h.server # s \/ h.pc = "done"}
    /\ waitApplyCh' = [waitApplyCh EXCEPT ![s] = << >>]
    /\ applyChan' = [applyChan EXCEPT ![s] = << >>]
    /\ hand' = [hand EXCEPT ![s] = << >>]
    /\ loop' = [loop EXCEPT ![s] = None]
    /\ lastApplied' = [lastApplied EXCEPT ![s] = m_lastSnapshotIndex[s]]
    /\ m_lastSnapShotRaftLogIndex' = [m_lastSnapShotRaftLogIndex EXCEPT ![s] = 0]
    /\ IF snapshotFile'[s] = None
       THEN /\ m_skipList' = [m_skipList EXCEPT ![s] = EmptyList]
            /\ m_last_RequestId' = [m_last_RequestId EXCEPT ![s] = [c \in Clerk |-> 0]]
            /\ reflected' = [reflected EXCEPT ![s] = 0]
       ELSE parseFromString(s, EmptyList, snapshotFile'[s])
    /\ restores' = [restores EXCEPT ![s] = @ + 1]
    /\ leader' = IF leader = s THEN None ELSE leader
    /\ UNCHANGED <<log, pending, m_lastSnapshotIndex, clerkVars>>

-----------------------------------------------------------------------------
Init ==
    /\ log = << >> /\ pending = << >> /\ leader = 0
    /\ lastApplied = [s \in Server |-> 0]
    /\ hand = [s \in Server |-> << >>]
    /\ m_lastSnapshotIndex = [s \in Server |-> 0]
    /\ snapshotFile = [s \in Server |-> None]
    /\ applyChan = [s \in Server |-> << >>]
    /\ m_skipList = [s \in Server |-> EmptyList]
    /\ m_last_RequestId = [s \in Server |-> [c \in Clerk |-> 0]]
    /\ waitApplyCh = [s \in Server |-> << >>]
    /\ m_lastSnapShotRaftLogIndex = [s \in Server |-> 0]
    /\ loop = [s \in Server |-> None]
    /\ handler = {}
    /\ m_requestId = [c \in Clerk |-> 0]
    /\ m_recentLeaderId = [c \in Clerk |-> 0]
    /\ server = [c \in Clerk |-> 0]
    /\ call = [c \in Clerk |-> [n |-> 0, waiting |-> FALSE]]
    /\ faults = [rpc |-> 0, server |-> 0]
    /\ reflected = [s \in Server |-> 0]
    /\ restores = [s \in Server |-> 0]
    /\ acked = {}
    /\ floor = [c \in Clerk |-> 0]

ClerkStep   == \E c \in Clerk : Call(c) \/ Answer(c) \/ RpcFails(c)
HandlerStep == \E h \in handler : \/ Start(h) \/ Register(h) \/ Pop(h) \/ PopFreed(h)
                                  \/ TimeOut(h) \/ Get(h) \/ AfterTimeOut(h)
LoopStep    == \E s \in Server : \/ ReadRaftApplyCommandLoop(s) \/ MakeSnapShot(s)
                                 \/ PersistSnapshotIndex(s) \/ SendMessageToWaitChan(s)
RaftStep    == \/ Commit
               \/ \E s \in Server : \/ Elect(s) \/ CopyLogs(s) \/ PushLogs(s)
                                    \/ InstallSnapshot(s) \/ Restart(s)

Next == ClerkStep \/ HandlerStep \/ LoopStep \/ RaftStep

Spec == Init /\ [][Next]_vars

-----------------------------------------------------------------------------
\* The write of an operation, for the abstract map.
WriteOf(o) == IF IsGet(o) THEN [k \in {} |-> k] ELSE [k \in {What(o).key} |-> What(o).value]

\* The nodes of a replica's list as its map (SkipListIsMap: they are what its searches find).
Store == INSTANCE ReplicatedMap WITH
            Replica <- Server, Request <- Operation, Write <- WriteOf, Value <- Value \cup Key,
            pos <- reflected, kv <- [s \in Server |-> m_skipList[s].value]

\* Every replica is a copy of the log's writes: whatever retries, timeouts and elections do, its skip
\* list changes only by the next request of the log, which takes effect once (GetCommandFromRaft with
\* ifRequestDuplicate and m_lastSnapShotRaftLogIndex); where a server restarts or takes over a
\* snapshot, it has the keys of what it then reflects.
ReplicaIsLog == Store!Spec

\* What a clerk's Put, Append or Get returned from is in the committed log (PutAppend answers OK to
\* its own operation popped from waitApplyCh, or to one executed before its timeout).
AckedIsCommitted == \A o \in acked : FirstIndex(o) # 0

\* The store a Get is answered from reflects every operation that had returned to any clerk before
\* the Get began (Get passes through the log, and a timed-out one asks ifRequestDuplicate).
ReadsAreRecent ==
    \A h \in handler :
        h.pc = "done" /\ IsGet(h.op) /\ h.err # "ErrWrongLeader" => h.at >= floor[h.op[1]]

\* The entries among the first p that write key k, without the retries.
Writes(k, p) == {i \in 1..p : FirstIndex(log[i]) = i /\ ~IsGet(log[i]) /\ What(log[i]).key = k}

\* The Get that is about to be answered finds what the last write of its key wrote.
FindsLastWrite(h) ==
    LET k       == What(h.op).key
        found   == search_element(m_skipList[h.server], k)
        entries == Writes(k, reflected[h.server])
    IN  /\ found.exist <=> entries # {}
        /\ found.exist => found.value = What(log[Max(entries)]).value

\* A Get returns the value of the last write of its key among the entries its server reflects, as
\* long as the server runs on what it has executed (ExecuteGetOpOnKVDB reads the store, whose writes
\* ifRequestDuplicate lets through or not).
ReadsLastWrite ==
    \A h \in handler : h.pc = "popped" /\ restores[h.server] = 0 => FindsLastWrite(h)

\* It does so on every server, also on one that has restarted or been sent a snapshot (parseFromString).
RestoredReadsLastWrite == \A h \in handler : h.pc = "popped" => FindsLastWrite(h)
=============================================================================
