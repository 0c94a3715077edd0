---------------------------- MODULE Mrpcchannel -----------------------------
(***************************************************************************)
(* The channel between a clerk and a server: one call at a time, which      *)
(* connects if need be, sends its frame and waits at most a second for the  *)
(* response.  The id in the response is not looked at, so a channel that    *)
(* keeps a connection with an unread response answers the next call with it.*)
(***************************************************************************)
EXTENDS RpcProvider

CONSTANT PartSent   \* bound: the bytes of a frame that are sent before send fails

ASSUME PartSentAssumption == PartSent \subseteq Nat

VARIABLES
    fd,           \* m_clientFd: the connection, {} for -1
    m_request_id

syncVars == <<fd, m_request_id>>

SyncInit == fd = {} /\ m_request_id = 0

\* The calls of one clerk follow each other.
Idle == \A i \in Call : caller[i] \in {"new", "returned"}

\* close: the connection ends, what was sent on it may still arrive.
Close(k) == conn' = [conn EXCEPT ![k] = "dead"]

\* The call is over: CallMethod returns and the controller says how it went.
Return(i, outcome) ==
    /\ caller' = [caller EXCEPT ![i] = "returned"]
    /\ Complete(i, outcome)

-----------------------------------------------------------------------------
\* CallMethod begins: a call that finds a connection uses it, another makes one.
Begin(i) ==
    /\ caller[i] = "new" /\ Idle
    /\ caller' = [caller EXCEPT ![i] = IF fd = {} THEN "connecting" ELSE "connected"]
    /\ UNCHANGED <<providerVars, completions, syncVars>>

\* newConnect, which may fail.
Connect(i, k) ==
    /\ caller[i] = "connecting" /\ conn[k] = "unused"
    /\ conn' = [conn EXCEPT ![k] = "open"]
    /\ fd' = {k}
    /\ caller' = [caller EXCEPT ![i] = "connected"]
    /\ UNCHANGED <<toServer, toClient, tasks, executed, drops, completions, m_request_id>>

ConnectRefused(i) ==
    /\ caller[i] = "connecting"
    /\ Return(i, Failure)
    /\ UNCHANGED <<providerVars, syncVars>>

\* The frame is sent; on a connection that has ended it is lost.
Send(i) ==
    /\ caller[i] = "connected"
    /\ m_request_id' = m_request_id + 1
    /\ caller' = [caller EXCEPT ![i] = "waiting"]
    /\ toServer' = [k \in Connection |->
                       toServer[k] \o IF k \in fd /\ conn[k] = "open" THEN RequestFrame[m_request_id, i]
                                      ELSE << >>]
    /\ UNCHANGED <<conn, toClient, tasks, executed, drops, completions, fd>>

\* send fails because the connection has ended, or because nothing of the frame, or not all of it,
\* could be sent for a second: the socket is closed.
SendError(i, k, sent) ==
    /\ caller[i] = "connected" /\ k \in fd
    /\ m_request_id' = m_request_id + 1
    /\ sent < Len(RequestFrame[m_request_id, i])
    /\ toServer' = IF conn[k] = "open"
                   THEN [toServer EXCEPT ![k] = @ \o SubSeq(RequestFrame[m_request_id, i], 1, sent)]
                   ELSE toServer
    /\ Close(k)
    /\ fd' = {}
    /\ Return(i, Failure)
    /\ UNCHANGED <<toClient, tasks, executed, drops>>

\* A frame has arrived, in time.
Receive(i, k) ==
    /\ caller[i] = "waiting" /\ k \in fd
    /\ FrameArrived(k)
    /\ toClient' = [toClient EXCEPT ![k] = AfterFirst(k)]
    /\ \E body \in {FirstBody(k)} : \E frame \in {Parse(RpcResponseFrame, body)} :
         Return(i, Success(Parse(RequestVoteReply, frame.payload)))
    /\ UNCHANGED <<conn, toServer, tasks, executed, drops, syncVars>>

\* The buggy variant: the connection is kept.
FaultyReceiveFailed(i, k) ==
    /\ caller[i] = "waiting" /\ k \in fd
    /\ Return(i, Failure)
    /\ UNCHANGED <<providerVars, syncVars>>

\* The second is over, the connection has ended, or the length is out of range.
ReceiveFailed(i, k) ==
    /\ caller[i] = "waiting" /\ k \in fd
    /\ Close(k)
    /\ fd' = {}
    /\ Return(i, Failure)
    /\ UNCHANGED <<toServer, toClient, tasks, executed, drops, m_request_id>>

ClerkStep(i) ==
    \/ \E k \in Connection : Connect(i, k) \/ Receive(i, k) \/ ReceiveFailed(i, k)
    \/ \E k \in Connection, sent \in PartSent : SendError(i, k, sent)
    \/ Begin(i) \/ ConnectRefused(i) \/ Send(i)
=============================================================================
