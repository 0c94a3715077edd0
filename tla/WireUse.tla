------------------------------ MODULE WireUse -------------------------------
(***************************************************************************)
(* A message on its way: it is serialized as the payload of a request       *)
(* frame, a second frame follows, TCP delivers the bytes in pieces, and the *)
(* provider takes frames out of its buffer.                                 *)
(***************************************************************************)
EXTENDS Wire

CONSTANTS
    Ints,   \* bound: the values of int32 fields
    Blobs   \* bound: the values of bytes fields

VARIABLES
    schema,    \* the type of the message
    message,
    stream,    \* the bytes under way
    buffer,    \* the bytes in muduo's buffer
    frames,    \* the frames that were taken out of it
    keep       \* the connection was kept

Values(f) ==
    CASE f.kind = "int" -> Ints [] f.kind = "uint" -> Ints \cap Nat
      [] f.kind = "bool" -> BOOLEAN [] f.kind = "bytes" -> Blobs
      [] OTHER -> {<< >>} \cup {<<[Command |-> c, LogTerm |-> i, LogIndex |-> j]>>
                                   : c \in Blobs, i, j \in Ints}

Messages(fields) ==
    LET UpTo[k \in 0..Len(fields)] ==
            IF k = 0 THEN {<< >>}
            ELSE {m @@ (fields[k].name :> v) : m \in UpTo[k - 1], v \in Values(fields[k])}
    IN  UpTo[Len(fields)]

Schemas == {LogEntry, AppendEntriesArgs, AppendEntriesReply, RequestVoteArgs, RequestVoteReply,
            InstallSnapshotRequest, InstallSnapshotResponse, GetArgs, GetReply, PutAppendArgs,
            PutAppendReply, RpcHeader, RpcRequestFrame, RpcResponseFrame}

Request(id, payload) ==
    Serialize(RpcRequestFrame, [request_id |-> id, service_name |-> <<82>>, method_name |-> <<86>>,
                                payload |-> payload])

wireVars == <<schema, message, stream, buffer, frames, keep>>

WireInit ==
    /\ schema = << >> /\ message = << >> /\ stream = << >>
    /\ buffer = << >> /\ frames = << >> /\ keep = TRUE

\* A message is sent as the payload of a request, and another request behind it.
SendMessage ==
    /\ schema = << >>
    /\ schema' \in Schemas
    /\ message' \in Messages(schema')
    /\ stream' = Frame(Request(1, Serialize(schema', message'))) \o Frame(Request(300, << >>))
    /\ UNCHANGED <<buffer, frames, keep>>

\* The next n bytes arrive, and OnMessage takes what is complete.
Arrive(n) ==
    /\ keep
    /\ \E read \in {ReadFrames(buffer \o SubSeq(stream, 1, n))} :
          /\ frames' = frames \o read.frames
          /\ buffer' = read.rest
          /\ keep' = read.keep
    /\ stream' = SubSeq(stream, n + 1, Len(stream))
    /\ UNCHANGED <<schema, message>>

\* Bound: a piece is all that is left or, with these types of messages, one byte.
InPieces == {GetArgs, RequestVoteReply}

Piece == {Len(stream)} \cup (IF schema \in InPieces THEN {1} ELSE {})

WireNext == SendMessage \/ (stream # << >> /\ \E n \in Piece : Arrive(n))

\* What is written is what is read: a message, with fields at their defaults (which are not written
\* at all), negative numbers and empty entries, comes out of its frame as it went in.
RoundTrip ==
    \A j \in DOMAIN frames :
        LET request == Parse(RpcRequestFrame, frames[j])
        IN  request.request_id = 1 => Parse(schema, request.payload) = message

\* However TCP cuts two frames into pieces, OnMessage takes exactly these two out of its buffer and
\* never gives the connection up.
FramesSurviveCuts ==
    /\ keep
    /\ [j \in DOMAIN frames |-> Parse(RpcRequestFrame, frames[j]).request_id]
          = SubSeq(<<1, 300>>, 1, Len(frames))
    /\ stream = << >> /\ schema # << >> => buffer = << >> /\ Len(frames) = 2
=============================================================================
