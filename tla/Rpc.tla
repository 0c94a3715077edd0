-------------------------------- MODULE Rpc ---------------------------------
(***************************************************************************)
(* A client, a provider and the network between them.  The client is a Raft *)
(* server, which calls through the multi-request channel, or a clerk, which *)
(* calls through the synchronous one.                                       *)
(***************************************************************************)
EXTENDS MrpcchannelMultiReq, Mrpcchannel

VARIABLE client     \* "raft" or "clerk"

vars == <<providerVars, callerVars, channelVars, syncVars, client>>

Init ==
    /\ ProviderInit
    /\ ChannelInit
    /\ SyncInit
    /\ client \in {"raft", "clerk"}

Provider ==
    /\ \/ \E k \in Connection : OnMessage(k) \/ Drop(k)
       \/ \E t \in tasks : RunTask(t)
    /\ UNCHANGED <<channelVars, syncVars, client>>

Raft ==
    /\ client = "raft"
    /\ \/ \E i \in Call : RequestVoteAsync(i) \/ CallMethod(i) \/ Schedule(i)
       \/ SenderStep
       \/ ReceiverStep
       \/ RunDone
    /\ UNCHANGED <<syncVars, client>>

Clerk ==
    /\ client = "clerk"
    /\ \E i \in Call : ClerkStep(i)
    /\ UNCHANGED <<channelVars, client>>

Next == Provider \/ Raft \/ Clerk

\* Threads that can go on do, a request that has arrived is read, a task that is scheduled ends.
Fairness ==
    /\ WF_vars(client = "raft" /\ \E i \in Call : CallMethod(i) /\ UNCHANGED <<syncVars, client>>)
    /\ WF_vars(client = "raft" /\ \E i \in Call : Schedule(i) /\ UNCHANGED <<syncVars, client>>)
    /\ WF_vars(client = "raft" /\ SenderStep /\ UNCHANGED <<syncVars, client>>)
    /\ WF_vars(client = "raft" /\ ReceiverStep /\ UNCHANGED <<syncVars, client>>)
    /\ WF_vars(client = "raft" /\ RunDone /\ UNCHANGED <<syncVars, client>>)
    /\ WF_vars(\E k \in Connection : OnMessage(k) /\ UNCHANGED <<channelVars, syncVars, client>>)
    /\ WF_vars(\E t \in tasks : RunTask(t) /\ UNCHANGED <<channelVars, syncVars, client>>)

Spec == Init /\ [][Next]_vars /\ Fairness

-----------------------------------------------------------------------------
Once == INSTANCE CallOnce WITH issued <- {i \in Call : caller[i] \notin {"new", "refused"}}

\* Both channels keep the promise to their callers: a call is executed at most once and never when it
\* was refused, its closure runs (its CallMethod returns) at most once, and a success carries the reply
\* to this call, although responses come in any order, connections end between any two steps and the
\* synchronous channel does not compare the ids.
CallsAreOnce == Once!Spec

\* Every call that MrpcchannelMultiReq::CallMethod has accepted is completed: by its response, or by
\* the thread that finds the connection gone.
CallsComplete ==
    \A i \in Call : (client = "raft" /\ caller[i] \in {"accepted", "pending", "queued"})
                        ~> (completions[i] # << >>)
=============================================================================
