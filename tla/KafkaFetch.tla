------------------------------ MODULE KafkaFetch ------------------------------
(***************************************************************************)
(* The records of one partition in a fetch response.  The broker fills the *)
(* response up to a number of bytes and cuts it there, inside a batch or a *)
(* message if need be; FetchResponseBlock.decode returns what is whole and *)
(* tells by isPartial when nothing is.                                     *)
(***************************************************************************)
EXTENDS KafkaRecords

CONSTANT Logs        \* what the broker may have: sequences of Records

VARIABLES log,       \* the records of the partition
          wire,      \* the bytes sent of them
          block      \* the decoded FetchResponseBlock
vars == <<log, wire, block>>

Bytes(rs) == Encoded(PutEach(rs, RecordsEncode))
NoBlock == [RecordsSet |-> <<>>, Partial |-> FALSE, err |-> "not read"]

Init == log \in Logs /\ wire = <<>> /\ block = NoBlock

(* External: the broker sends n bytes of the log. *)
Serve ==
  /\ wire = <<>> /\ block = NoBlock
  /\ \E n \in 1..Size(Bytes(log)) : wire' = Take(Bytes(log), n)
  /\ UNCHANGED <<log, block>>

DecodeBlock ==
  /\ wire # <<>> /\ block = NoBlock
  /\ block' = RecordsSetDecode(wire, <<>>)
  /\ UNCHANGED <<log, wire>>

Next == Serve \/ DecodeBlock
Spec == Init /\ [][Next]_vars

-----------------------------------------------------------------------------
(* The unit that is received as a whole or not at all is a message of a    *)
(* legacy set or a batch.                                                  *)
Items(rs) == FlattenSeq([i \in DOMAIN rs |->
  IF rs[i].type = "legacy" THEN [j \in DOMAIN rs[i].set |-> Legacy(<<rs[i].set[j]>>)] ELSE <<rs[i]>>])
WholeItems(n) ==
  LET items == Items(log)
      Ends(j) == Size(Bytes(SubSeq(items, 1, j)))
  IN  SubSeq(items, 1, Max({j \in 0..Len(items) : Ends(j) <= n}))
HasRecords(item) == numRecords(item) > 0
Delivered == block.err # "not read"

(* WholeRecordsReturned: wherever the broker cuts, the records that arrived *)
(* completely are returned, all of them, in order and unchanged, and none  *)
(* other, without an error (message_set.go:67, fetch_response.go:42; a     *)
(* batch without records is skipped); a transaction marker tells commit    *)
(* from abort (records.go: getControlRecord).  When no whole message or    *)
(* batch arrived, isPartial says so, and the consumer asks for more bytes  *)
(* instead of for the same for ever (consumer.go: parseResponse).          *)
WholeRecordsReturned ==
  Delivered =>
    /\ block.err = "none"
    /\ SelectSeq(Items(block.RecordsSet), HasRecords) = SelectSeq(WholeItems(Size(wire)), HasRecords)
    /\ \A i \in DOMAIN block.RecordsSet :
         isControl(block.RecordsSet[i]) /\ HasRecords(block.RecordsSet[i]) =>
           LET marker == getControlRecord(block.RecordsSet[i])
           IN  marker.err = "none" /\ marker.v.Type = block.RecordsSet[i].set.ProducerEpoch
    /\ WholeItems(Size(wire)) = <<>> => isPartial(block)

=============================================================================
