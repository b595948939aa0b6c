----------------------------- MODULE KafkaRecords -----------------------------
(***************************************************************************)
(* The record formats: message sets (magic 0 and 1), record batches (magic *)
(* 2), and the produce requests and fetch responses that carry them.       *)
(* kafka/message.go, message_set.go, record.go, record_batch.go,           *)
(* records.go, produce_request.go, fetch_response.go.                      *)
(***************************************************************************)
EXTENDS KafkaResponses

(* A header size that forgets the attributes' second byte. *)
ShortOverhead == 48
recordBatchOverhead == 49
magicOffset == 16
timestampTypeMask == 8
isTransactionalMask == 16
controlMask == 32
CompressionNone == 0
Flag(b, mask) == IF b THEN mask ELSE 0

(* Compression changes the length and can be undone; its output is opaque. *)
CompressionSaves == 1
compress(codec, b) == IF codec = CompressionNone THEN b
                      ELSE [n |-> b.n - CompressionSaves, id |-> <<codec, b>>]
decompress(codec, b) ==
  CASE codec = CompressionNone -> Got(b, <<>>)
    [] codec # CompressionNone /\ Len(b.id) = 2 /\ b.id[1] = codec -> Got(b.id[2], <<>>)
    [] OTHER -> Failed("invalid", <<>>)

(* Bytes that are an encoded structure, and back. *)
Packed(u) == [n |-> Size(u), id |-> <<u>>]
Unpacked(b) == b.id[1]

Encoded(calls) == Real(calls, Prep(calls))

-----------------------------------------------------------------------------
(* Message sets.  A compressed message wraps a set: its Value is the       *)
(* encoding of Set.                                                        *)
TimestampEncode(t) == PutTime(t)
TimestampDecode(f) == Get("stamp", f)
MessageEncode(m) ==
  Push("crcIEEE") \o PutInt8(m.Version)
  \o PutInt8(m.Codec + Flag(m.LogAppendTime, timestampTypeMask))
  \o When(m.Version >= 1, TimestampEncode(m.Timestamp))
  \o PutBytes(m.Key)
  \o PutBytes(IF m.Value = Nil THEN Nil ELSE compress(m.Codec, m.Value)) \o Pop
MessageProgram ==
  PushField("crcIEEE") \o GetInt8("Version") \o GetInt8("attributes")
  \o GetAttributes("LogAppendTime", timestampTypeMask)
  \o GetIf("Version", 1, TimestampDecode("Timestamp"))
  \o GetBytes("Key") \o GetBytes("Value") \o PopField

MessageBlockEncode(b) == PutInt64(b.Offset) \o Push("length") \o MessageEncode(b.Msg) \o Pop
MessageBlockProgram == GetInt64("Offset") \o PushField("length") \o MessageProgram \o PopField
MessageSetEncode(ms) == PutEach(ms, MessageBlockEncode)

magicValue(u) == IF Size(u) <= magicOffset THEN Insufficient ELSE Fixed(Drop(u, magicOffset), 1)

RECURSIVE MessageSetDecode(_, _)
MessageOf(out) ==
  [Version |-> out.Version, Codec |-> out.attributes % 8, LogAppendTime |-> out.LogAppendTime,
   Timestamp |-> IF out.Version = 1 THEN out.Timestamp ELSE ZeroTime,
   Key |-> out.Key, Value |-> out.Value, Set |-> <<>>]
(* What Message.decode does after the wire fields, decodeSet included.     *)
decodeSet(m) ==
  CASE m.Version > 1 -> Failed("invalid", <<>>)
    [] m.Codec = CompressionNone \/ m.Value = Nil -> Got(m, <<>>)
    [] OTHER -> Then(decompress(m.Codec, m.Value), LAMBDA value :
                  Then(MessageSetDecode(Unpacked(value.v), <<>>), LAMBDA inner :
                    Got([m EXCEPT !.Value = value.v, !.Set = inner.Messages], <<>>)))
MessageBlockDecode(u) ==
  Then(Run(MessageBlockProgram, Start(u)), LAMBDA s :
    Then(decodeSet(MessageOf(s.out)), LAMBDA m : Got([Offset |-> s.out.Offset, Msg |-> m.v], s.u)))
(* The server may cut a set anywhere: what does not fit is not an error.   *)
MessageSetOf(got, u, partial, overflow, err) ==
  [Messages |-> got, Partial |-> partial, Overflow |-> overflow, err |-> err, u |-> u]
AppendBlock(b, u, got) ==
  CASE b.err = "none" -> MessageSetDecode(b.u, Append(got, b.v))
    [] b.err = "insufficient" -> MessageSetOf(got, <<>>, Fixed(u, 8).v # -1, Fixed(u, 8).v = -1, "none")
    [] OTHER -> MessageSetOf(got, u, FALSE, FALSE, b.err)
DecodeByMagic(magic, u, got) ==
  CASE magic.err = "insufficient" -> MessageSetOf(got, u, TRUE, FALSE, "none")
    [] magic.err \notin {"none", "insufficient"} -> MessageSetOf(got, u, FALSE, FALSE, magic.err)
    [] magic.err = "none" /\ magic.v > 1 -> MessageSetOf(got, u, FALSE, FALSE, "none")
    [] OTHER -> AppendBlock(MessageBlockDecode(u), u, got)
MessageSetDecode(u, got) == IF u = <<>> THEN MessageSetOf(got, u, FALSE, FALSE, "none")
                            ELSE DecodeByMagic(magicValue(u), u, got)

-----------------------------------------------------------------------------
(* Record batches. *)
RecordHeaderEncode(h) == PutVarintBytes(h.Key) \o PutVarintBytes(h.Value)
RecordHeaderDecode == GetVarintBytes("Key") \o GetVarintBytes("Value")
RecordEncode(r) ==
  Push("varint") \o PutInt8(r.Attributes) \o PutVarint(r.TimestampDelta \div Millisecond)
  \o PutVarint(r.OffsetDelta) \o PutVarintBytes(r.Key) \o PutVarintBytes(r.Value)
  \o PutVarint(Len(r.Headers)) \o PutEach(r.Headers, RecordHeaderEncode) \o Pop
RecordDecode ==
  PushField("varint") \o GetInt8("Attributes") \o Get("delta", "TimestampDelta")
  \o GetVarint("OffsetDelta") \o GetVarintBytes("Key") \o GetVarintBytes("Value")
  \o GetVarintArray("Headers", RecordHeaderDecode) \o PopField

recordsArrayEncode(rs) == PutEach(rs, RecordEncode)
RECURSIVE recordsArrayDecode(_, _, _)
recordsArrayDecode(n, u, got) ==
  CASE n <= 0 /\ u = <<>> -> Got(got, u)
    [] n <= 0 /\ u # <<>> -> Failed("invalid", u)
    [] OTHER -> Then(Run(RecordDecode, Start(u)), LAMBDA r :
                  recordsArrayDecode(n - 1, r.u, Append(got, r.out)))

computeAttributes(b) == b.Codec + Flag(b.Control, controlMask) + Flag(b.LogAppendTime, timestampTypeMask)
                        + Flag(b.IsTransactional, isTransactionalMask)
(* The first pass encodes and compresses the records, which the second one *)
(* finds in compressedRecords.                                             *)
RawOf(b) == [n |-> b.n, u |-> Body(b)]
CompressRaw(codec, calls) ==
  IF codec = CompressionNone THEN [n |-> Prep(calls).len, u |-> Encoded(calls)]
  ELSE RawOf(compress(codec, Packed(Encoded(calls))))
encodeRecords(b) == CompressRaw(b.Codec, recordsArrayEncode(b.Records))
RecordBatchEncode(b) ==
  IF b.Version # 2 THEN Fail
  ELSE PutInt64(b.FirstOffset) \o Push("length") \o PutInt32(b.PartitionLeaderEpoch) \o PutInt8(b.Version)
       \o Push("crcCastagnoli") \o PutInt16(computeAttributes(b)) \o PutInt32(b.LastOffsetDelta)
       \o TimestampEncode(b.FirstTimestamp) \o TimestampEncode(b.MaxTimestamp)
       \o PutInt64(b.ProducerID) \o PutInt16(b.ProducerEpoch) \o PutInt32(b.FirstSequence)
       \o PutArrayLength(Len(b.Records)) \o PutRaw(encodeRecords(b)) \o Pop \o Pop
RecordBatchHeader ==
  GetInt64("FirstOffset") \o GetInt32("batchLen") \o GetInt32("PartitionLeaderEpoch") \o GetInt8("Version")
  \o PushField("crcCastagnoli") \o GetInt16("attributes")
  \o GetAttributes("Control", controlMask) \o GetAttributes("LogAppendTime", timestampTypeMask)
  \o GetAttributes("IsTransactional", isTransactionalMask)
  \o GetInt32("LastOffsetDelta") \o TimestampDecode("FirstTimestamp") \o TimestampDecode("MaxTimestamp")
  \o GetInt64("ProducerID") \o GetInt16("ProducerEpoch") \o GetInt32("FirstSequence")
  \o GetLength("numRecs")
(* A batch whose records do not fit is returned without them, as partial.  *)
BatchOf(out, records, partial) ==
  [f \in (DOMAIN out \ {"batchLen", "attributes", "numRecs"}) \cup {"Codec", "Records", "Partial"} |->
     CASE f = "Codec" -> out.attributes % 8 [] f = "Records" -> records [] f = "Partial" -> partial
       [] OTHER -> out[f]]
RecordBytes(codec, u) == IF codec = CompressionNone THEN Got(u, <<>>)
                         ELSE Then(decompress(codec, u[1][3]), LAMBDA b : Got(Unpacked(b.v), <<>>))
(* The outcome of a step after the header; "rest" follows the batch.       *)
OrPartial(out, g, rest, Use(_)) ==
  CASE g.err = "insufficient" -> Got(BatchOf(out, <<>>, TRUE), rest)
    [] g.err = "none" -> Use(g)
    [] OTHER -> g
RecordBatchDecode(u) ==
  Then(Run(RecordBatchHeader, Start(u)), LAMBDA s :
    OrPartial(s.out, Subset(s.out.batchLen - recordBatchOverhead, s.u), <<>>, LAMBDA buffer :
      Then(PopOf([s EXCEPT !.u = buffer.u]), LAMBDA summed :
        Then(RecordBytes(s.out.attributes % 8, buffer.v), LAMBDA raw :
          OrPartial(s.out, recordsArrayDecode(s.out.numRecs, raw.v, <<>>), buffer.u, LAMBDA records :
            Got(BatchOf(s.out, records.v, FALSE), buffer.u))))))

-----------------------------------------------------------------------------
(* Records: one message set or one batch, told apart by the magic byte.    *)
Legacy(ms) == [type |-> "legacy", set |-> ms, partial |-> FALSE, overflow |-> FALSE]
Default(b) == [type |-> "default", set |-> b, partial |-> FALSE, overflow |-> FALSE]
RecordsEncode(r) == IF r.type = "legacy" THEN MessageSetEncode(r.set) ELSE RecordBatchEncode(r.set)
RecordsDecode(u) ==
  Then(magicValue(u), LAMBDA magic :
    IF magic.v < 2
    THEN Then(MessageSetDecode(u, <<>>), LAMBDA ms :
           Got([type |-> "legacy", set |-> ms.Messages, partial |-> ms.Partial, overflow |-> ms.Overflow], ms.u))
    ELSE Then(RecordBatchDecode(u), LAMBDA b :
           Got([type |-> "default", set |-> b.v, partial |-> b.v.Partial, overflow |-> FALSE], b.u)))
numRecords(r) == IF r.type = "legacy" THEN Len(r.set) ELSE Len(r.set.Records)

(* The loop of FetchResponseBlock.decode over the records of a partition.  *)
RECURSIVE RecordsSetDecode(_, _)
BlockOf(set, partial, err) == [RecordsSet |-> set, Partial |-> partial, err |-> err]
Keep(r, got) == IF numRecords(r) > 0 \/ (r.partial /\ got = <<>>) THEN Append(got, r) ELSE got
AppendRecords(r, got) ==
  CASE r.err = "insufficient" -> BlockOf(got, got = <<>>, "none")
    [] r.err \notin {"none", "insufficient"} -> BlockOf(got, FALSE, r.err)
    [] r.err = "none" /\ (r.v.partial \/ r.v.overflow) -> BlockOf(Keep(r.v, got), FALSE, "none")
    [] OTHER -> RecordsSetDecode(r.u, Keep(r.v, got))
RecordsSetDecode(u, got) == IF u = <<>> THEN BlockOf(got, FALSE, "none") ELSE AppendRecords(RecordsDecode(u), got)
isPartial(b) == \/ b.Partial
                \/ Len(b.RecordsSet) = 1 /\ b.RecordsSet[1].partial

(* Transaction markers are batches of one record. *)
ControlRecordEncode(c) ==
  [Key |-> Packed(Encoded(PutInt16(c.Version) \o PutInt16(c.Type))),
   Value |-> Packed(Encoded(PutInt16(c.Version) \o PutInt32(c.CoordinatorEpoch)))]
ControlRecordAbort == 0
ControlRecordCommit == 1
ControlRecordUnknown == 2
ControlRecordDecode(key, value) ==
  Then(Run(GetInt16("Version") \o GetInt32("CoordinatorEpoch"), Start(Unpacked(value))), LAMBDA x :
    Then(Run(GetInt16("Version") \o GetInt16("Type"), Start(Unpacked(key))), LAMBDA k :
      Got([Version |-> k.out.Version, CoordinatorEpoch |-> x.out.CoordinatorEpoch,
           Type |-> IF k.out.Type \in {ControlRecordAbort, ControlRecordCommit} THEN k.out.Type
                    ELSE ControlRecordUnknown], <<>>)))
isControl(r) == r.type = "default" /\ r.set.Control
getControlRecord(r) ==
  IF r.set.Records = <<>> THEN Failed("invalid", <<>>)
  ELSE ControlRecordDecode(r.set.Records[1].Key, r.set.Records[1].Value)

-----------------------------------------------------------------------------
AbortedTransactionEncode(t) == PutInt64(t.ProducerID) \o PutInt64(t.FirstOffset)
AbortedTransactionDecode == GetInt64("ProducerID") \o GetInt64("FirstOffset")
FetchResponseBlockEncode(b, version) ==
  PutInt16(b.Err) \o PutInt64(b.HighWaterMarkOffset)
  \o When(version >= 4, PutInt64(b.LastStableOffset) \o PutArray(b.AbortedTransactions, AbortedTransactionEncode))
  \o Push("length") \o PutEach(b.RecordsSet, RecordsEncode) \o Pop
FetchResponseBlockDecode(version) ==
  GetInt16("Err") \o GetInt64("HighWaterMarkOffset")
  \o When(version >= 4, GetInt64("LastStableOffset") \o GetArray("AbortedTransactions", AbortedTransactionDecode))
  \o GetSubset("RecordsSet")
FetchResponseEncode(r) ==
  When(r.Version >= 1, PutMillis(r.ThrottleTime))
  \o PutTopics(r.Blocks, LAMBDA b : FetchResponseBlockEncode(b, r.Version))
FetchResponseDecode(v) == SetField("Version", v) \o When(v >= 1, GetMillis("ThrottleTime"))
                          \o GetTopics("Blocks", FetchResponseBlockDecode(v))

ProduceRequestEncode(r) ==
  When(r.Version >= 3, PutNullableString(r.TransactionalID))
  \o PutInt16(r.RequiredAcks) \o PutInt32(r.Timeout)
  \o PutTopics(r.records, LAMBDA p : Push("length") \o RecordsEncode(p.v) \o Pop)
ProduceRequestDecode(v) ==
  SetField("Version", v) \o When(v >= 3, GetNullableString("TransactionalID"))
  \o GetInt16("RequiredAcks") \o GetInt32("Timeout") \o GetTopics("records", GetSubset("v"))
=============================================================================
