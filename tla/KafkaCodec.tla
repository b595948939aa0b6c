------------------------------ MODULE KafkaCodec ------------------------------
(***************************************************************************)
(* One message on its way: encode()'s first pass adds up the length, the   *)
(* second writes the buffer (encoder_decoder.go), the peer receives all of *)
(* it or, when the connection or the frame is cut short, a prefix, and     *)
(* decodes it.  A request travels in the frame of request.go, a response   *)
(* by itself.                                                              *)
(***************************************************************************)
EXTENDS KafkaRecords, KafkaVersions

CONSTANTS Names,     \* the messages to send
          Variants   \* what their fields hold, see Value

ASSUME VariantsAssumption == Variants \subseteq 0..4

VARIABLES at,        \* "start", "sizing", "writing", "written", "cut", "refused", "panic" or "read"
          sent,      \* the message: its name, version and fields
          todo,      \* the calls that encode still makes in this pass
          prep,      \* the prepEncoder
          real,      \* the realEncoder
          buf,       \* the bytes on the wire
          got        \* what the peer decoded
vars == <<at, sent, todo, prep, real, buf, got>>

-----------------------------------------------------------------------------
(* allocateBody: the requests and their keys. *)
RequestKey ==
  [ProduceRequest |-> 0, FetchRequest |-> 1, OffsetRequest |-> 2, MetadataRequest |-> 3,
   OffsetCommitRequest |-> 8, OffsetFetchRequest |-> 9, FindCoordinatorRequest |-> 10,
   JoinGroupRequest |-> 11, HeartbeatRequest |-> 12, LeaveGroupRequest |-> 13,
   SyncGroupRequest |-> 14, DescribeGroupsRequest |-> 15, ListGroupsRequest |-> 16,
   SaslHandshakeRequest |-> 17, ApiVersionsRequest |-> 18, CreateTopicsRequest |-> 19,
   DeleteTopicsRequest |-> 20, DeleteRecordsRequest |-> 21, InitProducerIDRequest |-> 22,
   AddPartitionsToTxnRequest |-> 24, AddOffsetsToTxnRequest |-> 25, EndTxnRequest |-> 26,
   TxnOffsetCommitRequest |-> 28, DescribeAclsRequest |-> 29, CreateAclsRequest |-> 30,
   DeleteAclsRequest |-> 31, DescribeConfigsRequest |-> 32, AlterConfigsRequest |-> 33,
   SaslAuthenticateRequest |-> 36, CreatePartitionsRequest |-> 37, DeleteGroupsRequest |-> 42]
Requests == DOMAIN RequestKey
allocateBody(key) == {n \in Requests : RequestKey[n] = key}

(* The versions that requiredVersion() and the guards of encode know.      *)
Versions(name) ==
  CASE name \in {"MetadataRequest", "MetadataResponse", "OffsetFetchRequest", "OffsetFetchResponse"} -> 0..5
    [] name \in {"OffsetCommitRequest", "OffsetCommitResponse", "FetchRequest", "FetchResponse"} -> 0..4
    [] name \in {"ProduceRequest", "ProduceResponse"} -> 0..3
    [] name \in {"JoinGroupRequest", "JoinGroupResponse", "CreateTopicsRequest", "CreateTopicsResponse",
                 "DescribeConfigsRequest", "DescribeConfigsResponse"} -> 0..2
    [] name \in {"OffsetRequest", "OffsetResponse", "FindCoordinatorRequest", "FindCoordinatorResponse",
                 "DeleteTopicsRequest", "DeleteTopicsResponse", "DescribeAclsRequest", "DescribeAclsResponse",
                 "CreateAclsRequest", "DeleteAclsRequest", "DeleteAclsResponse", "SaslHandshakeRequest"} -> 0..1
    [] OTHER -> {0}

(* The method that a body's encode() and decode() is. *)
EncodeOf(name, r) ==
  CASE name = "ProduceRequest" -> ProduceRequestEncode(r)
    [] name = "FetchRequest" -> FetchRequestEncode(r)
    [] name = "OffsetRequest" -> OffsetRequestEncode(r)
    [] name = "MetadataRequest" -> MetadataRequestEncode(r)
    [] name = "OffsetCommitRequest" -> OffsetCommitRequestEncode(r)
    [] name = "OffsetFetchRequest" -> OffsetFetchRequestEncode(r)
    [] name = "FindCoordinatorRequest" -> FindCoordinatorRequestEncode(r)
    [] name = "JoinGroupRequest" -> JoinGroupRequestEncode(r)
    [] name = "HeartbeatRequest" -> HeartbeatRequestEncode(r)
    [] name = "LeaveGroupRequest" -> LeaveGroupRequestEncode(r)
    [] name = "SyncGroupRequest" -> SyncGroupRequestEncode(r)
    [] name = "DescribeGroupsRequest" -> DescribeGroupsRequestEncode(r)
    [] name = "ListGroupsRequest" -> ListGroupsRequestEncode(r)
    [] name = "SaslHandshakeRequest" -> SaslHandshakeRequestEncode(r)
    [] name = "ApiVersionsRequest" -> ApiVersionsRequestEncode(r)
    [] name = "CreateTopicsRequest" -> CreateTopicsRequestEncode(r)
    [] name = "DeleteTopicsRequest" -> DeleteTopicsRequestEncode(r)
    [] name = "DeleteRecordsRequest" -> DeleteRecordsRequestEncode(r)
    [] name = "InitProducerIDRequest" -> InitProducerIDRequestEncode(r)
    [] name = "AddPartitionsToTxnRequest" -> AddPartitionsToTxnRequestEncode(r)
    [] name = "AddOffsetsToTxnRequest" -> AddOffsetsToTxnRequestEncode(r)
    [] name = "EndTxnRequest" -> EndTxnRequestEncode(r)
    [] name = "TxnOffsetCommitRequest" -> TxnOffsetCommitRequestEncode(r)
    [] name = "DescribeAclsRequest" -> DescribeAclsRequestEncode(r)
    [] name = "CreateAclsRequest" -> CreateAclsRequestEncode(r)
    [] name = "DeleteAclsRequest" -> DeleteAclsRequestEncode(r)
    [] name = "DescribeConfigsRequest" -> DescribeConfigsRequestEncode(r)
    [] name = "AlterConfigsRequest" -> AlterConfigsRequestEncode(r)
    [] name = "SaslAuthenticateRequest" -> SaslAuthenticateRequestEncode(r)
    [] name = "CreatePartitionsRequest" -> CreatePartitionsRequestEncode(r)
    [] name = "DeleteGroupsRequest" -> DeleteGroupsRequestEncode(r)
    [] name = "ConsumerMetadataRequest" -> ConsumerMetadataRequestEncode(r)
    [] name = "ConsumerGroupMemberMetadata" -> ConsumerGroupMemberMetadataEncode(r)
    [] name = "ConsumerGroupMemberAssignment" -> ConsumerGroupMemberAssignmentEncode(r)
    [] name = "HeartbeatResponse" -> HeartbeatResponseEncode(r)
    [] name = "LeaveGroupResponse" -> LeaveGroupResponseEncode(r)
    [] name = "SyncGroupResponse" -> SyncGroupResponseEncode(r)
    [] name = "SaslHandshakeResponse" -> SaslHandshakeResponseEncode(r)
    [] name = "SaslAuthenticateResponse" -> SaslAuthenticateResponseEncode(r)
    [] name = "EndTxnResponse" -> EndTxnResponseEncode(r)
    [] name = "AddOffsetsToTxnResponse" -> AddOffsetsToTxnResponseEncode(r)
    [] name = "InitProducerIDResponse" -> InitProducerIDResponseEncode(r)
    [] name = "ListGroupsResponse" -> ListGroupsResponseEncode(r)
    [] name = "DeleteGroupsResponse" -> DeleteGroupsResponseEncode(r)
    [] name = "FindCoordinatorResponse" -> FindCoordinatorResponseEncode(r)
    [] name = "ConsumerMetadataResponse" -> ConsumerMetadataResponseEncode(r)
    [] name = "MetadataResponse" -> MetadataResponseEncode(r)
    [] name = "DescribeAclsResponse" -> DescribeAclsResponseEncode(r)
    [] name = "CreateAclsResponse" -> CreateAclsResponseEncode(r)
    [] name = "DeleteAclsResponse" -> DeleteAclsResponseEncode(r)
    [] name = "ApiVersionsResponse" -> ApiVersionsResponseEncode(r)
    [] name = "AlterConfigsResponse" -> AlterConfigsResponseEncode(r)
    [] name = "DescribeConfigsResponse" -> DescribeConfigsResponseEncode(r)
    [] name = "CreatePartitionsResponse" -> CreatePartitionsResponseEncode(r)
    [] name = "CreateTopicsResponse" -> CreateTopicsResponseEncode(r)
    [] name = "DeleteTopicsResponse" -> DeleteTopicsResponseEncode(r)
    [] name = "DeleteRecordsResponse" -> DeleteRecordsResponseEncode(r)
    [] name = "JoinGroupResponse" -> JoinGroupResponseEncode(r)
    [] name = "DescribeGroupsResponse" -> DescribeGroupsResponseEncode(r)
    [] name = "OffsetResponse" -> OffsetResponseEncode(r)
    [] name = "OffsetFetchResponse" -> OffsetFetchResponseEncode(r)
    [] name = "OffsetCommitResponse" -> OffsetCommitResponseEncode(r)
    [] name = "AddPartitionsToTxnResponse" -> AddPartitionsToTxnResponseEncode(r)
    [] name = "TxnOffsetCommitResponse" -> TxnOffsetCommitResponseEncode(r)
    [] name = "ProduceResponse" -> ProduceResponseEncode(r)
    [] name = "FetchResponse" -> FetchResponseEncode(r)

DecodeOf(name, v) ==
  CASE name = "ProduceRequest" -> ProduceRequestDecode(v)
    [] name = "FetchRequest" -> FetchRequestDecode(v)
    [] name = "OffsetRequest" -> OffsetRequestDecode(v)
    [] name = "MetadataRequest" -> MetadataRequestDecode(v)
    [] name = "OffsetCommitRequest" -> OffsetCommitRequestDecode(v)
    [] name = "OffsetFetchRequest" -> OffsetFetchRequestDecode(v)
    [] name = "FindCoordinatorRequest" -> FindCoordinatorRequestDecode(v)
    [] name = "JoinGroupRequest" -> JoinGroupRequestDecode(v)
    [] name = "HeartbeatRequest" -> HeartbeatRequestDecode(v)
    [] name = "LeaveGroupRequest" -> LeaveGroupRequestDecode(v)
    [] name = "SyncGroupRequest" -> SyncGroupRequestDecode(v)
    [] name = "DescribeGroupsRequest" -> DescribeGroupsRequestDecode(v)
    [] name = "ListGroupsRequest" -> ListGroupsRequestDecode(v)
    [] name = "SaslHandshakeRequest" -> SaslHandshakeRequestDecode(v)
    [] name = "ApiVersionsRequest" -> ApiVersionsRequestDecode(v)
    [] name = "CreateTopicsRequest" -> CreateTopicsRequestDecode(v)
    [] name = "DeleteTopicsRequest" -> DeleteTopicsRequestDecode(v)
    [] name = "DeleteRecordsRequest" -> DeleteRecordsRequestDecode(v)
    [] name = "InitProducerIDRequest" -> InitProducerIDRequestDecode(v)
    [] name = "AddPartitionsToTxnRequest" -> AddPartitionsToTxnRequestDecode(v)
    [] name = "AddOffsetsToTxnRequest" -> AddOffsetsToTxnRequestDecode(v)
    [] name = "EndTxnRequest" -> EndTxnRequestDecode(v)
    [] name = "TxnOffsetCommitRequest" -> TxnOffsetCommitRequestDecode(v)
    [] name = "DescribeAclsRequest" -> DescribeAclsRequestDecode(v)
    [] name = "CreateAclsRequest" -> CreateAclsRequestDecode(v)
    [] name = "DeleteAclsRequest" -> DeleteAclsRequestDecode(v)
    [] name = "DescribeConfigsRequest" -> DescribeConfigsRequestDecode(v)
    [] name = "AlterConfigsRequest" -> AlterConfigsRequestDecode(v)
    [] name = "SaslAuthenticateRequest" -> SaslAuthenticateRequestDecode(v)
    [] name = "CreatePartitionsRequest" -> CreatePartitionsRequestDecode(v)
    [] name = "DeleteGroupsRequest" -> DeleteGroupsRequestDecode(v)
    [] name = "ConsumerMetadataRequest" -> ConsumerMetadataRequestDecode(v)
    [] name = "ConsumerGroupMemberMetadata" -> ConsumerGroupMemberMetadataDecode(v)
    [] name = "ConsumerGroupMemberAssignment" -> ConsumerGroupMemberAssignmentDecode(v)
    [] name = "HeartbeatResponse" -> HeartbeatResponseDecode(v)
    [] name = "LeaveGroupResponse" -> LeaveGroupResponseDecode(v)
    [] name = "SyncGroupResponse" -> SyncGroupResponseDecode(v)
    [] name = "SaslHandshakeResponse" -> SaslHandshakeResponseDecode(v)
    [] name = "SaslAuthenticateResponse" -> SaslAuthenticateResponseDecode(v)
    [] name = "EndTxnResponse" -> EndTxnResponseDecode(v)
    [] name = "AddOffsetsToTxnResponse" -> AddOffsetsToTxnResponseDecode(v)
    [] name = "InitProducerIDResponse" -> InitProducerIDResponseDecode(v)
    [] name = "ListGroupsResponse" -> ListGroupsResponseDecode(v)
    [] name = "DeleteGroupsResponse" -> DeleteGroupsResponseDecode(v)
    [] name = "FindCoordinatorResponse" -> FindCoordinatorResponseDecode(v)
    [] name = "ConsumerMetadataResponse" -> ConsumerMetadataResponseDecode(v)
    [] name = "MetadataResponse" -> MetadataResponseDecode(v)
    [] name = "DescribeAclsResponse" -> DescribeAclsResponseDecode(v)
    [] name = "CreateAclsResponse" -> CreateAclsResponseDecode(v)
    [] name = "DeleteAclsResponse" -> DeleteAclsResponseDecode(v)
    [] name = "ApiVersionsResponse" -> ApiVersionsResponseDecode(v)
    [] name = "AlterConfigsResponse" -> AlterConfigsResponseDecode(v)
    [] name = "DescribeConfigsResponse" -> DescribeConfigsResponseDecode(v)
    [] name = "CreatePartitionsResponse" -> CreatePartitionsResponseDecode(v)
    [] name = "CreateTopicsResponse" -> CreateTopicsResponseDecode(v)
    [] name = "DeleteTopicsResponse" -> DeleteTopicsResponseDecode(v)
    [] name = "DeleteRecordsResponse" -> DeleteRecordsResponseDecode(v)
    [] name = "JoinGroupResponse" -> JoinGroupResponseDecode(v)
    [] name = "DescribeGroupsResponse" -> DescribeGroupsResponseDecode(v)
    [] name = "OffsetResponse" -> OffsetResponseDecode(v)
    [] name = "OffsetFetchResponse" -> OffsetFetchResponseDecode(v)
    [] name = "OffsetCommitResponse" -> OffsetCommitResponseDecode(v)
    [] name = "AddPartitionsToTxnResponse" -> AddPartitionsToTxnResponseDecode(v)
    [] name = "TxnOffsetCommitResponse" -> TxnOffsetCommitResponseDecode(v)
    [] name = "ProduceResponse" -> ProduceResponseDecode(v)
    [] name = "FetchResponse" -> FetchResponseDecode(v)

(* request.encode and decode. *)
CorrelationID == 7
ClientID == [n |-> 6, id |-> <<0>>]
PutRequest(api, body) ==
  Push("length") \o PutInt16(api.key) \o PutInt16(api.version) \o PutInt32(CorrelationID)
  \o PutString(ClientID) \o body \o Pop
RequestEncode(name, r) == PutRequest(ApiOf(name, r.Version), EncodeOf(name, r))
RequestHeader == GetInt16("key") \o GetInt16("version") \o GetInt32("correlationID") \o GetString("clientID")
DecodeAs(name, v, u) == Decode(DecodeOf(name, v), u)
RequestDecode(u) ==
  Then(Run(RequestHeader, Start(u)), LAMBDA h :
    IF allocateBody(h.out.key) = {} THEN [Start(u) EXCEPT !.err = "invalid"]
    ELSE DecodeAs(CHOOSE n \in allocateBody(h.out.key) : TRUE, h.out.version, h.u))

Calls(m) == IF m.name \in Requests THEN RequestEncode(m.name, m.fields) ELSE EncodeOf(m.name, m.fields)

-----------------------------------------------------------------------------
(* Messages to send, made from the decode program.  Variant 0 is as small  *)
(* as can be, 1 has one element in each array and map, 2 has two, nil      *)
(* where that is allowed and negative numbers, 3 has strings that are too  *)
(* long, and 4 has times before the epoch.                                 *)
Text(k, i) == CASE k = 0 -> Empty
                [] k = 3 -> [n |-> MaxInt16 + 1, id |-> <<i>>]
                [] OTHER -> [n |-> 1 + (i % 5), id |-> <<i>>]
Count(k) == IF k = 0 THEN 0 ELSE IF k = 2 THEN 2 ELSE 1
Number(k, i) == CASE k = 0 -> 0 [] k = 2 -> -(i % 100) - 1 [] OTHER -> (i % 100) + 1
RECURSIVE Sample(_, _, _)
Plain(op, k, i) ==
  CASE op \in {"int8", "int16", "int32", "int64", "varint"} -> Number(k, i)
    [] op = "bool" -> (k + i) % 2 = 1
    [] op = "string" -> Text(k, i)
    [] op \in {"nullable", "bytes", "varintbytes"} -> IF k = 2 /\ i % 2 = 0 THEN Nil ELSE Text(k, i)
    [] op = "emptyasnil" -> IF k \in {0, 2} THEN Nil ELSE Text(k, i)
    [] op = "replica" -> IF k = 0 THEN NoReplica ELSE [set |-> TRUE, id |-> Number(k, i)]
    [] op = "millis" -> Millisecond * Number(k, i)
    [] op \in {"time", "stamp"} -> CASE k = 2 -> ZeroTime [] k = 4 -> -20 [] OTHER -> Millisecond * i

SampleMessage(k, i) ==
  [Offset |-> i, Msg |-> [Version |-> i % 2, Codec |-> 0, LogAppendTime |-> k = 1,
     Timestamp |-> IF i % 2 = 1 THEN Millisecond * i ELSE ZeroTime,
     Key |-> Plain("bytes", k, i), Value |-> Text(1, i + 1), Set |-> <<>>]]
Wrapper(codec, i, ms) ==
  [Offset |-> i, Msg |-> [Version |-> 1, Codec |-> codec, LogAppendTime |-> FALSE, Timestamp |-> ZeroTime,
     Key |-> Nil, Value |-> Packed(Encoded(MessageSetEncode(ms))), Set |-> ms]]
SampleRecord(k, i) ==
  [Attributes |-> 0, TimestampDelta |-> Millisecond * i, OffsetDelta |-> i,
   Key |-> Plain("varintbytes", k, i), Value |-> [n |-> 40 * i, id |-> <<i>>],
   Headers |-> [j \in 1..(i - 1) |-> [Key |-> Text(1, j), Value |-> Text(1, j + 1)]]]
SampleBatch(codec, k, n) ==
  [FirstOffset |-> 10 * k, PartitionLeaderEpoch |-> k, Version |-> 2, Codec |-> codec, Control |-> k = 2,
   LogAppendTime |-> k = 1, IsTransactional |-> k = 2, LastOffsetDelta |-> n,
   FirstTimestamp |-> Millisecond * k, MaxTimestamp |-> ZeroTime, ProducerID |-> k,
   ProducerEpoch |-> k, FirstSequence |-> k, Records |-> [i \in 1..n |-> SampleRecord(k, i)], Partial |-> FALSE]
SampleRecords(k) ==
  CASE k = 2 -> Default(SampleBatch(1, 2, 2))
    [] k = 4 -> Default(SampleBatch(0, 2, 2))
    [] OTHER -> Legacy(<<SampleMessage(k, 1), Wrapper(2, 3, <<SampleMessage(1, 2)>>)>>)

Value(c, k, i) ==
  LET of(j) == Sample(c.of, k, 10 * i + j)
      map == [key \in {Plain(c.key, 1, 10 * i + j) : j \in 1..Count(k)} |-> of(CHOOSE j \in 1..Count(k) : Plain(c.key, 1, 10 * i + j) = key)]
  IN  CASE c.op = "strings" -> [j \in 1..Count(k) |-> Text(k, 10 * i + j)]
        [] c.op \in {"ints32", "ints64"} -> [j \in 1..Count(k) |-> Number(k, i + j)]
        [] c.op \in {"counted strings", "optional strings"} -> [j \in 1..Count(k) |-> Text(k, 10 * i + j)]
        [] c.op \in {"array", "counted array"} -> [j \in 1..Count(k) |-> of(j)]
        [] c.op = "map" -> map
        [] c.op = "nullable map" -> [nil |-> k = 0, m |-> map]
        [] c.op = "struct" -> of(1)
        [] c.op = "subset" -> IF c.f = "v" THEN SampleRecords(k)
                              ELSE IF k = 0 THEN <<>> ELSE <<SampleRecords(k)>>
        [] OTHER -> Plain(c.op, k, i)
(* Fields that decode derives from others are derived here as well. *)
Derived == {"set", "list", "copy", "forget", "index"}
Sample(program, k, i) ==
  LET Add(r, j) ==
        LET c == program[j]
        IN  CASE c.op = "skip" -> r
              [] c.op = "quiet" -> Sample(c.of, k, i) @@ r
              [] c.op \in Derived -> Exec([Start(<<>>) EXCEPT !.out = r], c).out
              [] OTHER -> (c.f :> Value(c, k, i + j)) @@ r
  IN  FoldLeft(Add, <<>>, [j \in DOMAIN program |-> j])

(* Structures that callers fill in a way decode does not. *)
NoAddress == [id |-> 0, host |-> Empty, port |-> 0]
FilledIn(name, k, r) ==
  CASE name = "JoinGroupRequest" /\ k = 2 -> [r EXCEPT !.OrderedGroupProtocols = <<>>]
    [] name = "JoinGroupRequest" /\ k \in {0, 1} -> [r EXCEPT !.GroupProtocols = <<>>]
    [] name = "ConsumerMetadataResponse" /\ k = 2 -> [r EXCEPT !.Coordinator = NilBroker]
    [] name = "ConsumerMetadataResponse" /\ k = 0 -> [r EXCEPT !.Deprecated = NoAddress]
    [] OTHER -> r
Message(name, v, k) == FilledIn(name, k, Sample(DecodeOf(name, v), k, 1) @@ ("Version" :> v))

-----------------------------------------------------------------------------
Init ==
  /\ at = "start"
  /\ \E name \in Names, k \in Variants : \E v \in Versions(name) :
       sent = [name |-> name, variant |-> k, v |-> v, fields |-> Message(name, v, k)]
  /\ todo = <<>>
  /\ prep = NewPrep
  /\ real = NewReal(NewPrep)
  /\ buf = <<>>
  /\ got = Start(<<>>)

(* encode(): the first pass, one call at a time, and what follows it. *)
BeginEncode ==
  /\ at = "start"
  /\ at' = "sizing"
  /\ todo' = Calls(sent)
  /\ UNCHANGED <<sent, prep, real, buf, got>>
PrepEncode ==
  /\ at = "sizing" /\ todo # <<>> /\ ~prep.stop
  /\ prep' = PrepCall(prep, Head(todo))
  /\ todo' = Tail(todo)
  /\ UNCHANGED <<at, sent, real, buf, got>>
MakeBuffer ==
  /\ at = "sizing" /\ (todo = <<>> \/ prep.stop)
  /\ at' = IF Refused(prep) THEN "refused" ELSE "writing"
  /\ todo' = Calls(sent)
  /\ real' = NewReal(prep)
  /\ UNCHANGED <<sent, prep, buf, got>>

(* encode(): the second pass, into the buffer made after the first.        *)
(* Writing past its end panics.                                            *)
RealEncode ==
  /\ at = "writing" /\ todo # <<>>
  /\ real' = RealCall(real, Head(todo))
  /\ at' = IF Size(real'.raw) > prep.len THEN "panic" ELSE at
  /\ todo' = Tail(todo)
  /\ UNCHANGED <<sent, prep, buf, got>>
SendBuffer ==
  /\ at = "writing" /\ todo = <<>>
  /\ at' = "written"
  /\ buf' = real.raw
  /\ UNCHANGED <<sent, todo, prep, real, got>>

(* The bytes after a request's length field: decodeRequest reads as many   *)
(* as that says.                                                           *)
Payload == IF sent.name \in Requests THEN Tail(buf) ELSE buf

(* External: the peer gets a prefix only, at or one byte after the end of  *)
(* some value.                                                             *)
CutPoints(u) == {Size(SubSeq(u, 1, j)) : j \in 0..(Len(u) - 1)}
                \cup {Size(SubSeq(u, 1, j)) + 1 : j \in {i \in 0..(Len(u) - 1) : u[i + 1][1] > 1}}
CutShort ==
  /\ at = "written"
  /\ \E n \in CutPoints(Payload) :
       buf' = (IF sent.name \in Requests THEN <<buf[1]>> ELSE <<>>) \o Take(Payload, n)
  /\ at' = "cut"
  /\ UNCHANGED <<sent, todo, prep, real, got>>

(* decode() or versionedDecode(). *)
DecodeBody ==
  /\ at \in {"written", "cut"}
  /\ got' = [(IF sent.name \in Requests THEN RequestDecode(Payload)
              ELSE Decode(DecodeOf(sent.name, sent.v), Payload)) EXCEPT !.stack = <<at>>]
  /\ at' = "read"
  /\ UNCHANGED <<sent, todo, prep, real, buf>>

Next == BeginEncode \/ PrepEncode \/ MakeBuffer \/ RealEncode \/ SendBuffer \/ CutShort \/ DecodeBody
Spec == Init /\ [][Next]_vars

-----------------------------------------------------------------------------
(* encode() of AlterConfigsResponse answers a string that is too long with *)
(* "return nil", so that the first pass ends early without an error.       *)
EndsEarly == sent.name = "AlterConfigsResponse" /\ sent.variant = 3

(* PrepIsExact: the second pass never writes past the length that the      *)
(* first one added up, and in the end has filled it (encoder_decoder.go:   *)
(* the buffer is made with that length; one byte more is a panic, one less *)
(* a message that the broker cannot parse).  EndsEarly is the exception.   *)
PrepIsExact ==
  /\ at = "panic" => EndsEarly
  /\ at = "written" => Size(buf) = prep.len

(* What decode() should give for the message that was sent: the fields     *)
(* themselves, except where encode() completes or replaces one; a replica  *)
(* below zero is read as none.                                             *)
Expected ==
  LET r == sent.fields
  IN  CASE sent.name = "FindCoordinatorResponse" ->
             IF r.Coordinator = NilBroker THEN [r EXCEPT !.Coordinator = NoNode] ELSE r
        [] sent.name = "ConsumerMetadataResponse" ->
             CASE r.Deprecated = NoAddress -> [r EXCEPT !.Deprecated = NilBroker]
               [] OTHER -> [r EXCEPT !.Coordinator = r.Deprecated]
        [] sent.name = "JoinGroupRequest" ->
             IF r.GroupProtocols = <<>>
             THEN Exec([Start(<<>>) EXCEPT !.out = r], IndexBy("GroupProtocols", "OrderedGroupProtocols", "Name", "Metadata")[1]).out
             ELSE r
        [] sent.name = "OffsetRequest" -> IF r.replicaID.id < 0 THEN [r EXCEPT !.replicaID = NoReplica] ELSE r
        [] OTHER -> r

(* Fields that are compared as sets of records, and the map that the       *)
(* ordered list of a JoinGroupRequest does not determine.                  *)
SameRecords(set, units) == RecordsSetDecode(units, <<>>) = [RecordsSet |-> set, Partial |-> FALSE, err |-> "none"]
SameBlock(x, y) ==
  /\ DOMAIN x = DOMAIN y /\ SameRecords(x.RecordsSet, y.RecordsSet)
  /\ \A f \in DOMAIN x \ {"RecordsSet"} : x[f] = y[f]
SameField(f, x, y) ==
  CASE sent.name = "FetchResponse" /\ f = "Blocks" ->
         /\ DOMAIN x = DOMAIN y
         /\ \A t \in DOMAIN x : DOMAIN x[t].v = DOMAIN y[t].v /\ \A p \in DOMAIN x[t].v : SameBlock(x[t].v[p], y[t].v[p])
    [] sent.name = "ProduceRequest" /\ f = "records" ->
         /\ DOMAIN x = DOMAIN y
         /\ \A t \in DOMAIN x : /\ DOMAIN x[t].v = DOMAIN y[t].v
                              /\ \A p \in DOMAIN x[t].v : RecordsDecode(y[t].v[p].v) = Got(x[t].v[p].v, <<>>)
    [] sent.name = "JoinGroupRequest" /\ f = "OrderedGroupProtocols" /\ x = <<>> -> TRUE
    [] OTHER -> x = y

(* decode() of these does not store the version it was given. *)
VersionForgotten == {"SaslHandshakeRequest", "OffsetResponse", "DescribeAclsResponse", "DeleteAclsResponse"}

(* RoundTrip: decoding what was encoded, at the same version and, for a    *)
(* request, through the frame and allocateBody, consumes every byte and    *)
(* gives every field back as Expected (both are written by hand, twice     *)
(* per message and version; the broker's side exists only in tests).       *)
RoundTrip ==
  at = "read" /\ got.stack = <<"written">> =>
    /\ got.err = "none"
    /\ \A f \in DOMAIN got.out \ {"Version"} : SameField(f, Expected[f], got.out[f])
    /\ DOMAIN Expected \ DOMAIN got.out \subseteq {"Version"}
    /\ LET version == IF "Version" \in DOMAIN got.out THEN got.out.Version ELSE 0
       IN  sent.name \in VersionForgotten \/ version = sent.fields.Version

(* CutIsRejected: a message of which the end is missing is never taken for *)
(* a whole one, and no length read from it makes decode panic.  The one    *)
(* exception is ConfigSynonym.decode, which answers an error with "return  *)
(* nil".                                                                   *)
CutIsRejected ==
  at = "read" /\ got.stack = <<"cut">> =>
    \/ got.err \in {"insufficient", "invalid"}
    \/ sent.name = "DescribeConfigsResponse" /\ sent.v >= 1 /\ got.err = "none"
=============================================================================
