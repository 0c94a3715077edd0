------------------------ MODULE MrpcchannelMultiReq -------------------------
(***************************************************************************)
(* The channel between Raft servers.  Many calls share one connection:      *)
(* callers leave their call in m_pendings and a task in the send queue, the *)
(* sender thread writes the frames, the receiver thread reads responses,    *)
(* reconnects and fails every pending call when the connection ends, the    *)
(* worker thread runs the callers' closures.  The threads share m_clientFd  *)
(* without a lock.                                                          *)
(***************************************************************************)
EXTENDS RpcProvider

CONSTANT m_retry    \* attempts to connect after the first

ASSUME RetryAssumption == m_retry \in Nat

NoFd == 0

ASSUME NoFdAssumption == NoFd \notin Connection

VARIABLES
    m_clientFd,         \* the socket, NoFd for -1
    closed,             \* sockets the client has closed
    m_nextRequset_id,
    requestId,          \* call -> its id, a local variable of CallMethod
    m_rpc_calllifetime, \* the calls that are registered
    m_pendings,         \* request id -> call
    sendQueue,          \* the tasks of m_sender: [id, call]
    sender,             \* "idle", "closing" or "failing"
    receiver,           \* "top", "socket", "connecting", "reading" or "failing"
    recvFd,             \* the socket the receiver connects or reads
    tries,              \* attempts of the receiver that have failed
    workQueue           \* the tasks of m_worker: [call, payload]

fdVars == <<m_clientFd, closed>>
callVars == <<m_nextRequset_id, requestId, m_rpc_calllifetime, m_pendings>>
receiverVars == <<receiver, recvFd, tries>>
channelVars == <<fdVars, callVars, sendQueue, sender, receiverVars, workQueue>>

\* The constructor: the receiver starts with or without a connection.
ChannelInit ==
    /\ m_clientFd = NoFd
    /\ closed = {}
    /\ m_nextRequset_id = 0
    /\ requestId = [i \in Call |-> 0]
    /\ m_rpc_calllifetime = {}
    /\ m_pendings = << >>
    /\ sendQueue = << >>
    /\ sender = "idle"
    /\ receiver = "top"
    /\ recvFd = NoFd
    /\ tries = 0
    /\ workQueue = << >>

-----------------------------------------------------------------------------
\* RequestVoteAsync: registerCall, then the first lines of CallMethod.  Without a connection the call
\* is refused: the caller is told so at once, its closure never runs, the registration stays.
RequestVoteAsync(i) ==
    /\ caller[i] = "new"
    /\ m_rpc_calllifetime' = m_rpc_calllifetime \cup {i}
    /\ caller' = [caller EXCEPT ![i] = IF m_clientFd = NoFd THEN "refused" ELSE "accepted"]
    /\ UNCHANGED <<providerVars, completions, fdVars, m_nextRequset_id, requestId, m_pendings, sendQueue,
                   sender, receiverVars, workQueue>>

\* CallMethod: the call gets its id and becomes pending.
CallMethod(i) ==
    /\ caller[i] = "accepted"
    /\ m_nextRequset_id' = m_nextRequset_id + 1
    /\ requestId' = [requestId EXCEPT ![i] = m_nextRequset_id]
    /\ m_pendings' = m_pendings @@ (m_nextRequset_id :> i)
    /\ m_rpc_calllifetime' = m_rpc_calllifetime \ {i}
    /\ caller' = [caller EXCEPT ![i] = "pending"]
    /\ UNCHANGED <<providerVars, completions, fdVars, sendQueue, sender, receiverVars, workQueue>>

\* The end of CallMethod: the task of the sender.  Only now can the frame be sent, and by now the call
\* may have failed.
Schedule(i) ==
    /\ caller[i] = "pending"
    /\ sendQueue' = Append(sendQueue, [id |-> requestId[i], call |-> i])
    /\ caller' = [caller EXCEPT ![i] = "queued"]
    /\ UNCHANGED <<providerVars, completions, fdVars, callVars, sender, receiverVars, workQueue>>

-----------------------------------------------------------------------------
Pending == {m_pendings[id] : id \in DOMAIN m_pendings}

\* Every pending call ends as failed.
failAllPending ==
    /\ completions' = [i \in Call |-> IF i \in Pending THEN Append(completions[i], Failure)
                                      ELSE completions[i]]
    /\ m_pendings' = << >>

\* shutdown: the connection ends; a socket that is not connected is not affected.
Shutdown(k) ==
    conn' = IF k # NoFd /\ conn[k] = "open" THEN [conn EXCEPT ![k] = "dead"] ELSE conn

\* sendAll succeeds: the bytes are on their way, or lost with a connection whose end is not known yet.
\* The frame goes out whole: that sendAll reads m_clientFd again for what a send leaves over is not here.
Sent ==
    /\ sender = "idle" /\ sendQueue # << >>
    /\ m_clientFd # NoFd /\ m_clientFd \notin closed /\ conn[m_clientFd] \in {"open", "dead"}
    /\ toServer' = IF conn[m_clientFd] = "open"
                   THEN [toServer EXCEPT ![m_clientFd] =
                            @ \o RequestFrame[Head(sendQueue).id, Head(sendQueue).call]]
                   ELSE toServer
    /\ sendQueue' = Tail(sendQueue)
    /\ UNCHANGED <<conn, toClient, tasks, executed, drops, callerVars, fdVars, callVars, sender,
                   receiverVars, workQueue>>

\* sendAll fails, and the socket is shut down if there is one.
SendFails ==
    /\ sender = "idle" /\ sendQueue # << >>
    /\ m_clientFd # NoFd /\ m_clientFd \notin closed => conn[m_clientFd] # "open"
    /\ sendQueue' = Tail(sendQueue)
    /\ Shutdown(m_clientFd)
    /\ sender' = IF m_clientFd = NoFd THEN "failing" ELSE "closing"
    /\ UNCHANGED <<toServer, toClient, tasks, executed, drops, callerVars, fdVars, callVars,
                   receiverVars, workQueue>>

\* The sender closes whatever m_clientFd is by now and forgets it.  A receiver that is blocked in recv
\* on that socket stays there: close does not wake it, and the connection lives on.
SenderCloses ==
    /\ sender = "closing"
    /\ \/ /\ closed' = closed \cup ({m_clientFd} \ {NoFd})
          /\ Shutdown(m_clientFd)
       \/ /\ receiver = "reading" /\ recvFd = m_clientFd
          /\ UNCHANGED <<closed, conn>>
    /\ m_clientFd' = NoFd
    /\ sender' = "failing"
    /\ UNCHANGED <<toServer, toClient, tasks, executed, drops, callerVars, callVars, sendQueue,
                   receiverVars, workQueue>>

SenderFailsAll ==
    /\ sender = "failing"
    /\ failAllPending
    /\ sender' = "idle"
    /\ UNCHANGED <<providerVars, caller, fdVars, m_nextRequset_id, requestId, m_rpc_calllifetime,
                   sendQueue, receiverVars, workQueue>>

-----------------------------------------------------------------------------
\* newConnect: m_clientFd is the new socket before it is connected.
Socket(k) ==
    /\ receiver = "socket" \/ (receiver = "top" /\ m_clientFd = NoFd)
    /\ conn[k] = "unused"
    /\ conn' = [conn EXCEPT ![k] = "connecting"]
    /\ m_clientFd' = k
    /\ recvFd' = k
    /\ receiver' = "connecting"
    /\ UNCHANGED <<toServer, toClient, tasks, executed, drops, callerVars, closed, callVars, sendQueue,
                   sender, tries, workQueue>>

\* No socket is to be had, in this attempt and in those that are left.
SocketFails ==
    /\ receiver = "socket" \/ (receiver = "top" /\ m_clientFd = NoFd)
    /\ receiver' = "failing"
    /\ tries' = 0
    /\ UNCHANGED <<providerVars, callerVars, fdVars, callVars, sendQueue, sender, recvFd, workQueue>>

\* connect succeeds, perhaps on a socket that the sender closes meanwhile.
Connected ==
    /\ receiver = "connecting"
    /\ conn' = [conn EXCEPT ![recvFd] = IF recvFd \in closed THEN "dead" ELSE "open"]
    /\ m_clientFd' = recvFd
    /\ receiver' = "reading"
    /\ tries' = 0
    /\ UNCHANGED <<toServer, toClient, tasks, executed, drops, callerVars, closed, callVars, sendQueue,
                   sender, recvFd, workQueue>>

ConnectFails ==
    /\ receiver = "connecting"
    /\ conn' = [conn EXCEPT ![recvFd] = "unused"]
    /\ closed' = closed \ {recvFd}
    /\ m_clientFd' = NoFd
    /\ receiver' = IF tries < m_retry THEN "socket" ELSE "failing"
    /\ tries' = IF tries < m_retry THEN tries + 1 ELSE 0
    /\ UNCHANGED <<toServer, toClient, tasks, executed, drops, callerVars, callVars, sendQueue, sender,
                   recvFd, workQueue>>

\* The loop goes on with the connection it has.
NextFrame ==
    /\ receiver = "top" /\ m_clientFd # NoFd
    /\ receiver' = "reading"
    /\ recvFd' = m_clientFd
    /\ UNCHANGED <<providerVars, callerVars, fdVars, callVars, sendQueue, sender, tries, workQueue>>

\* completeResponse: a response to a call that is still pending goes to the worker.
completeResponse(frame) ==
    IF frame.request_id \in DOMAIN m_pendings
    THEN /\ workQueue' = Append(workQueue, [call    |-> m_pendings[frame.request_id],
                                            payload |-> frame.payload])
         /\ m_pendings' = [id \in DOMAIN m_pendings \ {frame.request_id} |-> m_pendings[id]]
    ELSE UNCHANGED <<workQueue, m_pendings>>

\* A whole frame can be read; every byte is read from what m_clientFd is then.
Readable ==
    /\ recvFd \notin closed /\ recvFd = m_clientFd
    /\ toClient[recvFd] # << >> /\ FrameArrived(recvFd)

\* recv fails or ends, or the length is out of range; else the receiver is blocked.
Unreadable ==
    /\ ~Readable
    /\ recvFd \in closed \/ toClient[recvFd] # << >> \/ conn[recvFd] = "dead"

ReceiveFrame ==
    /\ receiver = "reading" /\ Readable
    /\ \E body \in {FirstBody(recvFd)} : \E frame \in {Parse(RpcResponseFrame, body)} :
         completeResponse(frame)
    /\ toClient' = [toClient EXCEPT ![recvFd] = AfterFirst(recvFd)]
    /\ receiver' = "top"
    /\ UNCHANGED <<conn, toServer, tasks, executed, drops, callerVars, fdVars, m_nextRequset_id,
                   requestId, m_rpc_calllifetime, sendQueue, sender, recvFd, tries>>

\* The buggy variant: the loop goes on without a word to the pending calls.
FaultyReceiveFails ==
    /\ receiver = "reading" /\ Unreadable
    /\ closed' = closed \cup ({m_clientFd} \ {NoFd})
    /\ Shutdown(m_clientFd)
    /\ m_clientFd' = NoFd
    /\ receiver' = "top"
    /\ UNCHANGED <<toServer, toClient, tasks, executed, drops, callerVars, callVars, sendQueue, sender,
                   recvFd, tries, workQueue>>

\* Reading fails, or the length of the frame cannot be right: closeCurrentFd, whoever's socket that is.
ReceiveFails ==
    /\ receiver = "reading" /\ Unreadable
    /\ closed' = closed \cup ({m_clientFd} \ {NoFd})
    /\ Shutdown(m_clientFd)
    /\ m_clientFd' = NoFd
    /\ receiver' = "failing"
    /\ UNCHANGED <<toServer, toClient, tasks, executed, drops, callerVars, callVars, sendQueue, sender,
                   recvFd, tries, workQueue>>

ReceiverFailsAll ==
    /\ receiver = "failing"
    /\ failAllPending
    /\ receiver' = "top"
    /\ UNCHANGED <<providerVars, caller, fdVars, m_nextRequset_id, requestId, m_rpc_calllifetime,
                   sendQueue, sender, recvFd, tries, workQueue>>

\* The worker parses the payload into the caller's response and runs its closure.
RunDone ==
    /\ workQueue # << >>
    /\ \E payload \in {Head(workQueue).payload} : \E reply \in {Parse(RequestVoteReply, payload)} :
         Complete(Head(workQueue).call, Success(reply))
    /\ workQueue' = Tail(workQueue)
    /\ UNCHANGED <<providerVars, caller, fdVars, callVars, sendQueue, sender, receiverVars>>

-----------------------------------------------------------------------------
SenderStep == Sent \/ SendFails \/ SenderCloses \/ SenderFailsAll

ReceiverStep ==
    \/ \E k \in Connection : Socket(k)
    \/ SocketFails \/ Connected \/ ConnectFails
    \/ NextFrame \/ ReceiveFrame \/ ReceiveFails \/ ReceiverFailsAll
=============================================================================
