-------------------------------- MODULE Wire --------------------------------
(***************************************************************************)
(* The bytes the RPC layer exchanges: the protocol buffer encoding of the   *)
(* messages in proto/ (what the generated classes write and read) and the   *)
(* length-prefixed frames of the channels and the provider.  A message is   *)
(* a record of its fields, its encoding a sequence of bytes.                *)
(***************************************************************************)
EXTENDS Integers, Sequences, SequencesExt, TLC

\* A field: its name, number and kind, in the order of the numbers.
Field(name, number, kind) == [name |-> name, number |-> number, kind |-> kind]

LogEntry == <<Field("Command", 1, "bytes"), Field("LogTerm", 2, "int"), Field("LogIndex", 3, "int")>>

AppendEntriesArgs ==
    <<Field("Term", 1, "int"), Field("LeaderId", 2, "int"), Field("PrevLogIndex", 3, "int"),
      Field("PrevLogTerm", 4, "int"), Field("Entries", 5, "repeated"), Field("LeaderCommit", 6, "int")>>

AppendEntriesReply ==
    <<Field("Term", 1, "int"), Field("Success", 2, "bool"), Field("UpdateNextIndex", 3, "int"),
      Field("AppState", 4, "int")>>

RequestVoteArgs ==
    <<Field("Term", 1, "int"), Field("CandidateId", 2, "int"), Field("LastLogIndex", 3, "int"),
      Field("LastLogTerm", 4, "int")>>

RequestVoteReply ==
    <<Field("Term", 1, "int"), Field("VoteGranted", 2, "bool"), Field("VoteState", 3, "int")>>

InstallSnapshotRequest ==
    <<Field("LeaderId", 1, "int"), Field("Term", 2, "int"), Field("LastSnapShotIncludeIndex", 3, "int"),
      Field("LastSnapShotIncludeTerm", 4, "int"), Field("Data", 5, "bytes")>>

InstallSnapshotResponse == <<Field("Term", 1, "int")>>

GetArgs ==
    <<Field("Key", 1, "bytes"), Field("ClientId", 2, "bytes"), Field("RequestId", 3, "int")>>

GetReply == <<Field("Err", 1, "bytes"), Field("Value", 2, "bytes")>>

PutAppendArgs ==
    <<Field("Key", 1, "bytes"), Field("Value", 2, "bytes"), Field("Op", 3, "bytes"),
      Field("ClientId", 4, "bytes"), Field("RequestId", 5, "int")>>

PutAppendReply == <<Field("Err", 1, "bytes")>>

RpcHeader ==
    <<Field("service_name", 1, "bytes"), Field("method_name", 2, "bytes"), Field("args_size", 3, "uint")>>

RpcRequestFrame ==
    <<Field("request_id", 1, "uint"), Field("service_name", 2, "bytes"), Field("method_name", 3, "bytes"),
      Field("payload", 4, "bytes")>>

RpcResponseFrame == <<Field("request_id", 1, "uint"), Field("payload", 2, "bytes")>>

-----------------------------------------------------------------------------
\* Seven bits of n, from group i (0 is the lowest) on.
Group(n, i) == (n \div 128^i) % 128

\* Writers: a varint has as many groups as it needs, all but the last with the high bit.
WriteVarint32(n) ==
    LET last == CHOOSE g \in 0..4 : n < 128^(g + 1) /\ \A h \in 0..(g - 1) : n >= 128^(h + 1)
    IN  [j \in 1..(last + 1) |-> Group(n, j - 1) + IF j <= last THEN 128 ELSE 0]

\* An int32 is written as 64 bits: a negative one (above -128^3) takes ten bytes.
WriteInt32(n) ==
    IF n >= 0 THEN WriteVarint32(n)
    ELSE [j \in 1..10 |-> IF j <= 3 THEN Group(128^3 + n, j - 1) + 128
                          ELSE IF j < 10 THEN 255 ELSE 1]

\* Readers: the bytes of the varint at p, up to the first without the high bit.
VarintEnd(b, p) ==
    LET ends == {q \in (p..(p + 9)) \cap DOMAIN b : b[q] < 128 /\ \A r \in p..(q - 1) : b[r] >= 128}
    IN  IF ends = {} THEN 0 ELSE CHOOSE q \in ends : TRUE

\* Its value; only the low groups of a ten-byte varint count, which then is negative.
VarintValue(b, p, q) ==
    LET low[j \in 0..3] == (IF p + j > q THEN 0 ELSE (b[p + j] % 128) * 128^j)
                              + IF j = 0 THEN 0 ELSE low[j - 1]
    IN  IF q - p < 9 THEN low[3] ELSE low[2] - 128^3

-----------------------------------------------------------------------------
\* What a field holds when it was not received.
Default(f) == CASE f.kind \in {"int", "uint"} -> 0 [] f.kind = "bool" -> FALSE [] OTHER -> << >>

\* The bytes of one occurrence of a field: its tag and its value.
Occurrence(number, kind, value) ==
    CASE kind \in {"int", "uint"} -> <<number * 8>> \o WriteInt32(value)
      [] kind = "bool"            -> <<number * 8>> \o <<IF value THEN 1 ELSE 0>>
      [] OTHER                    -> <<number * 8 + 2>> \o WriteVarint32(Len(value)) \o value

\* Fields of a message without repeated ones: those that differ from their default, in order.
SerializeFields(fields, m) ==
    FlattenSeq([k \in DOMAIN fields |->
        IF m[fields[k].name] = Default(fields[k]) THEN << >>
        ELSE Occurrence(fields[k].number, fields[k].kind, m[fields[k].name])])

\* The buggy variant: an entry all of whose fields are at their defaults is left out.
FaultySerializeRepeated(f, entries) ==
    FlattenSeq([e \in DOMAIN entries |->
        LET bytes == SerializeFields(LogEntry, entries[e])
        IN  IF bytes = << >> THEN << >> ELSE Occurrence(f.number, "bytes", bytes)])

\* The entries of AppendEntriesArgs are written whatever they hold.
SerializeRepeated(f, entries) ==
    FlattenSeq([e \in DOMAIN entries |->
        Occurrence(f.number, "bytes", SerializeFields(LogEntry, entries[e]))])

\* SerializeToString.
Serialize(fields, m) ==
    FlattenSeq([k \in DOMAIN fields |->
        IF fields[k].kind = "repeated" THEN SerializeRepeated(fields[k], m[fields[k].name])
        ELSE SerializeFields(<<fields[k]>>, m)])

\* The occurrences in a serialized message: number, and the value or the bytes.
Occurrences(b) ==
    LET At[p \in 1..(Len(b) + 1)] ==
            IF p > Len(b) THEN << >>
            ELSE LET q   == VarintEnd(b, p + 1)
                     n   == VarintValue(b, p + 1, q)
                     end == IF b[p] % 8 = 2 THEN q + n ELSE q
                 IN  <<[number |-> b[p] \div 8,
                        value  |-> IF b[p] % 8 = 2 THEN SubSeq(b, q + 1, end) ELSE n]>>
                        \o At[end + 1]
    IN  At[1]

\* What a field is after these occurrences: the last one, or all of a repeated field.
ParsedField(f, found) ==
    LET mine == SelectSeq(found, LAMBDA o : o.number = f.number)
    IN  CASE f.kind = "repeated" -> [e \in DOMAIN mine |-> mine[e].value]
          [] f.kind # "repeated" /\ mine = << >> -> Default(f)
          [] f.kind = "bool" /\ mine # << >> -> Last(mine).value # 0
          [] OTHER -> Last(mine).value

ParsedFields(fields, found) ==
    [name \in {fields[k].name : k \in DOMAIN fields} |->
        ParsedField(fields[CHOOSE k \in DOMAIN fields : fields[k].name = name], found)]

\* A message without repeated fields.
ParseFlat(fields, b) == CHOOSE m \in {ParsedFields(fields, found) : found \in {Occurrences(b)}} : TRUE

\* ParseFromString; the entries of AppendEntriesArgs are messages themselves.
Parse(fields, b) ==
    LET m == ParseFlat(fields, b)
    IN  IF fields = AppendEntriesArgs
        THEN [m EXCEPT !.Entries = [e \in DOMAIN @ |-> ParseFlat(LogEntry, @[e])]]
        ELSE m

-----------------------------------------------------------------------------
kMaxFrameSize == 16 * 1024 * 1024

\* A frame on the wire: its length, then its bytes.
Frame(body) == WriteVarint32(Len(body)) \o body

\* A length prefix that starts behind position p of a buffer is read whole or not at all; five bytes
\* with the high bit are none.
TryReadVarint32(buffer, p) ==
    LET q == VarintEnd(buffer, p + 1)
    IN  CASE q # 0 /\ q - p <= 5 -> [result |-> "Ok", value |-> VarintValue(buffer, p + 1, q), length |-> q - p]
          [] q = 0 /\ Len(buffer) - p < 5 -> [result |-> "NeedMore"]
          [] OTHER -> [result |-> "BadFormat"]

\* The buggy variant: the last byte is waited for although it is there.
FaultyWhole(buffer, p, r) == Len(buffer) - p > r.length + r.value

\* The buffer holds the whole frame whose length has been read.
Whole(buffer, p, r) == Len(buffer) - p >= r.length + r.value

\* The loop of RpcProvider::OnMessage: the frames that are complete, what is left of the buffer, and
\* whether the connection is kept.
ReadFrames(buffer) ==
    LET From[p \in 0..Len(buffer)] ==
            LET r    == TryReadVarint32(buffer, p)
                stop == [frames |-> << >>, rest |-> SubSeq(buffer, p + 1, Len(buffer)), keep |-> TRUE]
            IN  IF r.result = "NeedMore" THEN stop
                ELSE IF r.result = "BadFormat" THEN [stop EXCEPT !.keep = FALSE]
                ELSE IF r.value \notin 1..kMaxFrameSize THEN [stop EXCEPT !.keep = FALSE]
                ELSE IF ~Whole(buffer, p, r) THEN stop
                ELSE [From[p + r.length + r.value] EXCEPT
                          !.frames = <<SubSeq(buffer, p + r.length + 1, p + r.length + r.value)>> \o @]
    IN  From[0]
=============================================================================
