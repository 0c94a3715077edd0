---------------------------- MODULE RpcProvider -----------------------------
(***************************************************************************)
(* The server side of an RPC: the connections to it, the bytes under way    *)
(* on each in both directions, and RpcProvider, which cuts the bytes that   *)
(* arrive into frames, schedules one task per frame and writes the          *)
(* responses in whatever order the tasks end.  A call is known by the term  *)
(* in its RequestVote arguments, the service answers with that term.        *)
(***************************************************************************)
EXTENDS Wire, FiniteSets

CONSTANTS
    Call,       \* the calls, positive numbers
    Connection, \* bound: the sockets a client can create
    MaxDrops    \* bound: connections that the network or the server ends

ASSUME CallAssumption == Call \subseteq Nat \ {0} /\ IsFiniteSet(Call)
ASSUME ConnectionAssumption == IsFiniteSet(Connection) /\ MaxDrops \in Nat

VARIABLES
    conn,      \* connection -> "unused", "connecting", "open" or "dead"
    toServer,  \* connection -> the bytes OnMessage has not consumed
    toClient,  \* connection -> the bytes the client has not read
    tasks,     \* the RpcCallContexts scheduled on m_iomanager
    executed,  \* call -> how often the service has run it
    drops,     \* connections lost so far
    caller,    \* call -> how far its caller is
    completions \* call -> the outcomes its caller has been given

providerVars == <<conn, toServer, toClient, tasks, executed, drops>>
callerVars == <<caller, completions>>

-----------------------------------------------------------------------------
\* NotifyService: the names of the service and of the method that the calls use.
m_serviceMap == {<< <<82>>, <<86>> >>}

\* The bytes of the request of call i under an id.
RequestFrame ==
    [id \in 0..Cardinality(Call), i \in Call |->
        Frame(Serialize(RpcRequestFrame,
            [request_id |-> id, service_name |-> <<82>>, method_name |-> <<86>>,
             payload    |-> Serialize(RequestVoteArgs, [Term |-> i, CandidateId |-> 0, LastLogIndex |-> 0,
                                                        LastLogTerm |-> 0])]))]

\* raft::RequestVote of a voter that grants: it is in the term of the request by then, and says
\* "normal".  Which answer a voter gives is Raft's matter; here one tells the calls apart.
Handler(args) == [Term |-> args.Term, VoteGranted |-> TRUE, VoteState |-> 1]

\* What the caller of i is to receive: raft::RequestVote sets every field of the response.
Reply(i) == Handler([Term |-> i])

\* The bytes of the response to call i under an id.
ResponseFrame ==
    [id \in 0..Cardinality(Call), i \in Call |->
        Frame(Serialize(RpcResponseFrame,
            [request_id |-> id, payload |-> Serialize(RequestVoteReply, Reply(i))]))]

ProviderInit ==
    /\ conn = [k \in Connection |-> "unused"]
    /\ toServer = [k \in Connection |-> << >>]
    /\ toClient = [k \in Connection |-> << >>]
    /\ tasks = {}
    /\ executed = [i \in Call |-> 0]
    /\ drops = 0
    /\ caller = [i \in Call |-> "new"]
    /\ completions = [i \in Call |-> << >>]

\* The end of call i for its caller.
Complete(i, outcome) == completions' = [completions EXCEPT ![i] = Append(@, outcome)]

Success(reply) == [ok |-> TRUE, reply |-> reply]
Failure == [ok |-> FALSE]

-----------------------------------------------------------------------------
\* The frames that name a registered method become tasks, the others get no answer at all; a frame
\* length that cannot be right ends the connection.  What the clients here send can be parsed.
OnMessage(k) ==
    /\ toServer[k] # << >>
    /\ \E read \in {ReadFrames(toServer[k])} :
         \E requests \in {{Parse(RpcRequestFrame, read.frames[j]) : j \in DOMAIN read.frames}} :
           /\ tasks' = tasks \cup
                {[conn |-> k, requestId |-> m.request_id, request |-> Parse(RequestVoteArgs, m.payload)]
                    : m \in {m \in requests : <<m.service_name, m.method_name>> \in m_serviceMap}}
           /\ toServer' = [toServer EXCEPT ![k] = read.rest]
           /\ conn' = IF read.keep THEN conn ELSE [conn EXCEPT ![k] = "dead"]
    /\ UNCHANGED <<toClient, executed, drops, callerVars>>

\* A task: the service's method, then SendRpcResponse, which loses the response of a connection that
\* has ended.
RunTask(t) ==
    /\ tasks' = tasks \ {t}
    /\ executed' = [executed EXCEPT ![t.request.Term] = @ + 1]
    /\ toClient' = IF conn[t.conn] = "open"
                   THEN [toClient EXCEPT ![t.conn] = @ \o ResponseFrame[t.requestId, t.request.Term]]
                   ELSE toClient
    /\ UNCHANGED <<conn, toServer, drops, callerVars>>

\* A connection ends; what is under way in either direction still arrives or does not.
Drop(k) ==
    /\ conn[k] = "open" /\ drops < MaxDrops
    /\ drops' = drops + 1
    /\ conn' = [conn EXCEPT ![k] = "dead"]
    /\ toServer' \in {toServer, [toServer EXCEPT ![k] = << >>]}
    /\ toClient' \in {toClient, [toClient EXCEPT ![k] = << >>]}
    /\ UNCHANGED <<tasks, executed, callerVars>>

\* recvVarint32 and recvExact: a whole frame is there for the client to read, its body, what follows.
FrameArrived(k) ==
    \E r \in {TryReadVarint32(toClient[k], 0)} :
        r.result = "Ok" /\ r.value \in 1..kMaxFrameSize /\ Whole(toClient[k], 0, r)

FirstBody(k) ==
    LET r == TryReadVarint32(toClient[k], 0) IN SubSeq(toClient[k], r.length + 1, r.length + r.value)

AfterFirst(k) ==
    LET r == TryReadVarint32(toClient[k], 0)
    IN  SubSeq(toClient[k], r.length + r.value + 1, Len(toClient[k]))
=============================================================================
