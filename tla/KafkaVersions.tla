--------------------------- MODULE KafkaVersions ---------------------------
(***************************************************************************)
(* Broker versions (kafka/utils.go) and, for each message, its key, the    *)
(* version of its layout and the oldest broker that knows that layout: the *)
(* methods key, version and requiredVersion.                               *)
(***************************************************************************)
EXTENDS Integers, Sequences

V0_8_2_0 == <<0, 8, 2, 0>>
V0_8_2_2 == <<0, 8, 2, 2>>
V0_9_0_0 == <<0, 9, 0, 0>>
V0_10_0_0 == <<0, 10, 0, 0>>
V0_10_1_0 == <<0, 10, 1, 0>>
V0_10_2_0 == <<0, 10, 2, 0>>
V0_11_0_0 == <<0, 11, 0, 0>>
V1_0_0_0 == <<1, 0, 0, 0>>
V1_1_0_0 == <<1, 1, 0, 0>>
V2_0_0_0 == <<2, 0, 0, 0>>
V2_1_0_0 == <<2, 1, 0, 0>>
V2_2_0_0 == <<2, 2, 0, 0>>
MinVersion == V0_8_2_0
SupportedVersions ==
  {V0_8_2_0, <<0, 8, 2, 1>>, V0_8_2_2, V0_9_0_0, <<0, 9, 0, 1>>, V0_10_0_0, <<0, 10, 0, 1>>, V0_10_1_0,
   <<0, 10, 1, 1>>, V0_10_2_0, <<0, 10, 2, 1>>, V0_11_0_0, <<0, 11, 0, 1>>, <<0, 11, 0, 2>>, V1_0_0_0,
   V1_1_0_0, <<1, 1, 1, 0>>, V2_0_0_0, <<2, 0, 1, 0>>, V2_1_0_0, V2_2_0_0}
IsAtLeast(v, w) ==
  \/ v = w
  \/ \E i \in 1..4 : v[i] > w[i] /\ \A j \in 1..(i - 1) : v[j] = w[j]

-----------------------------------------------------------------------------
CreateAclsRequestApi(v) ==
  [key |-> 30, version |-> v,
   requires |-> CASE v = 1 -> V2_0_0_0 [] OTHER -> V0_11_0_0]
DeleteAclsRequestApi(v) ==
  [key |-> 31, version |-> v,
   requires |-> CASE v = 1 -> V2_0_0_0 [] OTHER -> V0_11_0_0]
DescribeAclsRequestApi(v) ==
  [key |-> 29, version |-> v,
   requires |-> CASE v = 1 -> V2_0_0_0 [] OTHER -> V0_11_0_0]
AddOffsetsToTxnRequestApi(v) == [key |-> 25, version |-> 0, requires |-> V0_11_0_0]
AddPartitionsToTxnRequestApi(v) == [key |-> 24, version |-> 0, requires |-> V0_11_0_0]
AlterConfigsRequestApi(v) == [key |-> 33, version |-> 0, requires |-> V0_11_0_0]
ApiVersionsRequestApi(v) == [key |-> 18, version |-> 0, requires |-> V0_10_0_0]
ConsumerMetadataRequestApi(v) == [key |-> 10, version |-> 0, requires |-> V0_8_2_0]
CreatePartitionsRequestApi(v) == [key |-> 37, version |-> 0, requires |-> V1_0_0_0]
CreateTopicsRequestApi(v) ==
  [key |-> 19, version |-> v,
   requires |-> CASE v = 2 -> V1_0_0_0 [] v = 1 -> V0_11_0_0 [] OTHER -> V0_10_1_0]
DeleteGroupsRequestApi(v) == [key |-> 42, version |-> 0, requires |-> V1_1_0_0]
DeleteRecordsRequestApi(v) == [key |-> 21, version |-> 0, requires |-> V0_11_0_0]
DeleteTopicsRequestApi(v) ==
  [key |-> 20, version |-> v,
   requires |-> CASE v = 1 -> V0_11_0_0 [] OTHER -> V0_10_1_0]
DescribeConfigsRequestApi(v) ==
  [key |-> 32, version |-> v,
   requires |-> CASE v = 1 -> V1_1_0_0 [] v = 2 -> V2_0_0_0 [] OTHER -> V0_11_0_0]
DescribeGroupsRequestApi(v) == [key |-> 15, version |-> 0, requires |-> V0_9_0_0]
EndTxnRequestApi(v) == [key |-> 26, version |-> 0, requires |-> V0_11_0_0]
FetchRequestApi(v) ==
  [key |-> 1, version |-> v,
   requires |-> CASE v = 1 -> V0_9_0_0 [] v = 2 -> V0_10_0_0 [] v = 3 -> V0_10_1_0
                [] v = 4 -> V0_11_0_0 [] OTHER -> MinVersion]
FindCoordinatorRequestApi(v) ==
  [key |-> 10, version |-> v,
   requires |-> CASE v = 1 -> V0_11_0_0 [] OTHER -> V0_8_2_0]
HeartbeatRequestApi(v) == [key |-> 12, version |-> 0, requires |-> V0_9_0_0]
InitProducerIDRequestApi(v) == [key |-> 22, version |-> 0, requires |-> V0_11_0_0]
JoinGroupRequestApi(v) ==
  [key |-> 11, version |-> v,
   requires |-> CASE v = 2 -> V0_11_0_0 [] v = 1 -> V0_10_1_0 [] OTHER -> V0_9_0_0]
LeaveGroupRequestApi(v) == [key |-> 13, version |-> 0, requires |-> V0_9_0_0]
ListGroupsRequestApi(v) == [key |-> 16, version |-> 0, requires |-> V0_9_0_0]
MetadataRequestApi(v) ==
  [key |-> 3, version |-> v,
   requires |-> CASE v = 1 -> V0_10_0_0 [] v = 2 -> V0_10_1_0 [] v \in {3, 4} -> V0_11_0_0
                [] v = 5 -> V1_0_0_0 [] OTHER -> MinVersion]
OffsetCommitRequestApi(v) ==
  [key |-> 8, version |-> v,
   requires |-> CASE v = 1 -> V0_8_2_0 [] v = 2 -> V0_9_0_0 [] v = 3 -> V0_11_0_0
                [] v = 4 -> V2_0_0_0 [] OTHER -> MinVersion]
OffsetFetchRequestApi(v) ==
  [key |-> 9, version |-> v,
   requires |-> CASE v = 1 -> V0_8_2_0 [] v = 2 -> V0_10_2_0 [] v = 3 -> V0_11_0_0
                [] v = 4 -> V2_0_0_0 [] v = 5 -> V2_1_0_0 [] OTHER -> MinVersion]
OffsetRequestApi(v) ==
  [key |-> 2, version |-> v,
   requires |-> CASE v = 1 -> V0_10_1_0 [] OTHER -> MinVersion]
ProduceRequestApi(v) ==
  [key |-> 0, version |-> v,
   requires |-> CASE v = 1 -> V0_9_0_0 [] v = 2 -> V0_10_0_0 [] v = 3 -> V0_11_0_0 [] OTHER -> MinVersion]
SaslAuthenticateRequestApi(v) == [key |-> 36, version |-> 0, requires |-> V1_0_0_0]
SaslHandshakeRequestApi(v) == [key |-> 17, version |-> v, requires |-> V0_10_0_0]
SyncGroupRequestApi(v) == [key |-> 14, version |-> 0, requires |-> V0_9_0_0]
TxnOffsetCommitRequestApi(v) == [key |-> 28, version |-> 0, requires |-> V0_11_0_0]

-----------------------------------------------------------------------------
CreateAclsResponseApi(v) == [key |-> 30, version |-> 0, requires |-> V0_11_0_0]
DeleteAclsResponseApi(v) == [key |-> 31, version |-> v, requires |-> V0_11_0_0]
DescribeAclsResponseApi(v) ==
  [key |-> 29, version |-> v,
   requires |-> CASE v = 1 -> V2_0_0_0 [] OTHER -> V0_11_0_0]
AddOffsetsToTxnResponseApi(v) == [key |-> 25, version |-> 0, requires |-> V0_11_0_0]
AddPartitionsToTxnResponseApi(v) == [key |-> 24, version |-> 0, requires |-> V0_11_0_0]
AlterConfigsResponseApi(v) == [key |-> 32, version |-> 0, requires |-> V0_11_0_0]
ApiVersionsResponseApi(v) == [key |-> 18, version |-> 0, requires |-> V0_10_0_0]
ConsumerMetadataResponseApi(v) == [key |-> 10, version |-> 0, requires |-> V0_8_2_0]
CreatePartitionsResponseApi(v) == [key |-> 37, version |-> 0, requires |-> V1_0_0_0]
CreateTopicsResponseApi(v) ==
  [key |-> 19, version |-> v,
   requires |-> CASE v = 2 -> V1_0_0_0 [] v = 1 -> V0_11_0_0 [] OTHER -> V0_10_1_0]
DeleteGroupsResponseApi(v) == [key |-> 42, version |-> 0, requires |-> V1_1_0_0]
DeleteRecordsResponseApi(v) == [key |-> 21, version |-> 0, requires |-> V0_11_0_0]
DeleteTopicsResponseApi(v) ==
  [key |-> 20, version |-> v,
   requires |-> CASE v = 1 -> V0_11_0_0 [] OTHER -> V0_10_1_0]
DescribeConfigsResponseApi(v) ==
  [key |-> 32, version |-> v,
   requires |-> CASE v = 1 -> V1_0_0_0 [] v = 2 -> V2_0_0_0 [] OTHER -> V0_11_0_0]
DescribeGroupsResponseApi(v) == [key |-> 15, version |-> 0, requires |-> V0_9_0_0]
EndTxnResponseApi(v) == [key |-> 25, version |-> 0, requires |-> V0_11_0_0]
FetchResponseApi(v) ==
  [key |-> 1, version |-> v,
   requires |-> CASE v = 1 -> V0_9_0_0 [] v = 2 -> V0_10_0_0 [] v = 3 -> V0_10_1_0
                [] v = 4 -> V0_11_0_0 [] OTHER -> MinVersion]
FindCoordinatorResponseApi(v) ==
  [key |-> 10, version |-> v,
   requires |-> CASE v = 1 -> V0_11_0_0 [] OTHER -> V0_8_2_0]
HeartbeatResponseApi(v) == [key |-> 12, version |-> 0, requires |-> V0_9_0_0]
InitProducerIDResponseApi(v) == [key |-> 22, version |-> 0, requires |-> V0_11_0_0]
JoinGroupResponseApi(v) ==
  [key |-> 11, version |-> v,
   requires |-> CASE v = 2 -> V0_11_0_0 [] v = 1 -> V0_10_1_0 [] OTHER -> V0_9_0_0]
LeaveGroupResponseApi(v) == [key |-> 13, version |-> 0, requires |-> V0_9_0_0]
ListGroupsResponseApi(v) == [key |-> 16, version |-> 0, requires |-> V0_9_0_0]
MetadataResponseApi(v) ==
  [key |-> 3, version |-> v,
   requires |-> CASE v = 1 -> V0_10_0_0 [] v = 2 -> V0_10_1_0 [] v \in {3, 4} -> V0_11_0_0
                [] v = 5 -> V1_0_0_0 [] OTHER -> MinVersion]
OffsetCommitResponseApi(v) ==
  [key |-> 8, version |-> v,
   requires |-> CASE v = 1 -> V0_8_2_0 [] v = 2 -> V0_9_0_0 [] v = 3 -> V0_11_0_0
                [] v = 4 -> V2_0_0_0 [] OTHER -> MinVersion]
OffsetFetchResponseApi(v) ==
  [key |-> 9, version |-> v,
   requires |-> CASE v = 1 -> V0_8_2_0 [] v = 2 -> V0_10_2_0 [] v = 3 -> V0_11_0_0
                [] v = 4 -> V2_0_0_0 [] v = 5 -> V2_1_0_0 [] OTHER -> MinVersion]
OffsetResponseApi(v) ==
  [key |-> 2, version |-> v,
   requires |-> CASE v = 1 -> V0_10_1_0 [] OTHER -> MinVersion]
ProduceResponseApi(v) ==
  [key |-> 0, version |-> v,
   requires |-> CASE v = 1 -> V0_9_0_0 [] v = 2 -> V0_10_0_0 [] v = 3 -> V0_11_0_0 [] OTHER -> MinVersion]
SaslAuthenticateResponseApi(v) == [key |-> 36, version |-> 0, requires |-> V1_0_0_0]
SaslHandshakeResponseApi(v) == [key |-> 17, version |-> 0, requires |-> V0_10_0_0]
SyncGroupResponseApi(v) == [key |-> 14, version |-> 0, requires |-> V0_9_0_0]
TxnOffsetCommitResponseApi(v) == [key |-> 28, version |-> 0, requires |-> V0_11_0_0]


ApiOf(name, v) ==
  CASE name = "CreateAclsRequest" -> CreateAclsRequestApi(v)
    [] name = "DeleteAclsRequest" -> DeleteAclsRequestApi(v)
    [] name = "DescribeAclsRequest" -> DescribeAclsRequestApi(v)
    [] name = "AddOffsetsToTxnRequest" -> AddOffsetsToTxnRequestApi(v)
    [] name = "AddPartitionsToTxnRequest" -> AddPartitionsToTxnRequestApi(v)
    [] name = "AlterConfigsRequest" -> AlterConfigsRequestApi(v)
    [] name = "ApiVersionsRequest" -> ApiVersionsRequestApi(v)
    [] name = "ConsumerMetadataRequest" -> ConsumerMetadataRequestApi(v)
    [] name = "CreatePartitionsRequest" -> CreatePartitionsRequestApi(v)
    [] name = "CreateTopicsRequest" -> CreateTopicsRequestApi(v)
    [] name = "DeleteGroupsRequest" -> DeleteGroupsRequestApi(v)
    [] name = "DeleteRecordsRequest" -> DeleteRecordsRequestApi(v)
    [] name = "DeleteTopicsRequest" -> DeleteTopicsRequestApi(v)
    [] name = "DescribeConfigsRequest" -> DescribeConfigsRequestApi(v)
    [] name = "DescribeGroupsRequest" -> DescribeGroupsRequestApi(v)
    [] name = "EndTxnRequest" -> EndTxnRequestApi(v)
    [] name = "FetchRequest" -> FetchRequestApi(v)
    [] name = "FindCoordinatorRequest" -> FindCoordinatorRequestApi(v)
    [] name = "HeartbeatRequest" -> HeartbeatRequestApi(v)
    [] name = "InitProducerIDRequest" -> InitProducerIDRequestApi(v)
    [] name = "JoinGroupRequest" -> JoinGroupRequestApi(v)
    [] name = "LeaveGroupRequest" -> LeaveGroupRequestApi(v)
    [] name = "ListGroupsRequest" -> ListGroupsRequestApi(v)
    [] name = "MetadataRequest" -> MetadataRequestApi(v)
    [] name = "OffsetCommitRequest" -> OffsetCommitRequestApi(v)
    [] name = "OffsetFetchRequest" -> OffsetFetchRequestApi(v)
    [] name = "OffsetRequest" -> OffsetRequestApi(v)
    [] name = "ProduceRequest" -> ProduceRequestApi(v)
    [] name = "SaslAuthenticateRequest" -> SaslAuthenticateRequestApi(v)
    [] name = "SaslHandshakeRequest" -> SaslHandshakeRequestApi(v)
    [] name = "SyncGroupRequest" -> SyncGroupRequestApi(v)
    [] name = "TxnOffsetCommitRequest" -> TxnOffsetCommitRequestApi(v)
    [] name = "CreateAclsResponse" -> CreateAclsResponseApi(v)
    [] name = "DeleteAclsResponse" -> DeleteAclsResponseApi(v)
    [] name = "DescribeAclsResponse" -> DescribeAclsResponseApi(v)
    [] name = "AddOffsetsToTxnResponse" -> AddOffsetsToTxnResponseApi(v)
    [] name = "AddPartitionsToTxnResponse" -> AddPartitionsToTxnResponseApi(v)
    [] name = "AlterConfigsResponse" -> AlterConfigsResponseApi(v)
    [] name = "ApiVersionsResponse" -> ApiVersionsResponseApi(v)
    [] name = "ConsumerMetadataResponse" -> ConsumerMetadataResponseApi(v)
    [] name = "CreatePartitionsResponse" -> CreatePartitionsResponseApi(v)
    [] name = "CreateTopicsResponse" -> CreateTopicsResponseApi(v)
    [] name = "DeleteGroupsResponse" -> DeleteGroupsResponseApi(v)
    [] name = "DeleteRecordsResponse" -> DeleteRecordsResponseApi(v)
    [] name = "DeleteTopicsResponse" -> DeleteTopicsResponseApi(v)
    [] name = "DescribeConfigsResponse" -> DescribeConfigsResponseApi(v)
    [] name = "DescribeGroupsResponse" -> DescribeGroupsResponseApi(v)
    [] name = "EndTxnResponse" -> EndTxnResponseApi(v)
    [] name = "FetchResponse" -> FetchResponseApi(v)
    [] name = "FindCoordinatorResponse" -> FindCoordinatorResponseApi(v)
    [] name = "HeartbeatResponse" -> HeartbeatResponseApi(v)
    [] name = "InitProducerIDResponse" -> InitProducerIDResponseApi(v)
    [] name = "JoinGroupResponse" -> JoinGroupResponseApi(v)
    [] name = "LeaveGroupResponse" -> LeaveGroupResponseApi(v)
    [] name = "ListGroupsResponse" -> ListGroupsResponseApi(v)
    [] name = "MetadataResponse" -> MetadataResponseApi(v)
    [] name = "OffsetCommitResponse" -> OffsetCommitResponseApi(v)
    [] name = "OffsetFetchResponse" -> OffsetFetchResponseApi(v)
    [] name = "OffsetResponse" -> OffsetResponseApi(v)
    [] name = "ProduceResponse" -> ProduceResponseApi(v)
    [] name = "SaslAuthenticateResponse" -> SaslAuthenticateResponseApi(v)
    [] name = "SaslHandshakeResponse" -> SaslHandshakeResponseApi(v)
    [] name = "SyncGroupResponse" -> SyncGroupResponseApi(v)
    [] name = "TxnOffsetCommitResponse" -> TxnOffsetCommitResponseApi(v)
=============================================================================
