---------------------------- MODULE KafkaProducer ----------------------------
(***************************************************************************)
(* asyncProducer of kafka/async_producer.go with the batches of            *)
(* kafka/produce_set.go: dispatcher and topicProducer, one                 *)
(* partitionProducer (pp) per partition, one brokerProducer (bp) for each  *)
(* use of a broker, retryHandler, retryBatch, and the shutdown that waits  *)
(* for the WaitGroup inFlight.                                             *)
(*                                                                         *)
(* A goroutine that sends on an unbuffered channel waits for the receiver: *)
(* the sends that a pp still has to do are the sequence ops.  A bp may     *)
(* flush whenever its buffer holds something, which stands for all         *)
(* settings of Producer.Flush.                                             *)
(***************************************************************************)
EXTENDS Integers, Sequences, FiniteSetsExt, SequencesExt

CONSTANT Confs   \* the configurations and loads to look at, see conf

VARIABLES conf,                    \* conf.Producer, the user's messages, the brokers, and bounds
          sent,                 \* how many messages the user has sent
          retryq,                  \* the channel retries and the queue of retryHandler
          inFlight, shuttingDown, closed,
          refusing,                \* the message that dispatcher refuses because of the shutdown
          input,                   \* pp: its channel
          leader, hwm, buf, chaser, ops, \* pp: brokerProducer, highWatermark, retryState, sends to do
          abandoned, refs, brokers, brokerOf, \* bp: the channel abandoned, brokerRefs, the map brokers, its Broker
          closing, currentRetries, buffer, bridge, response,
          waiting,                 \* bp: the message for which waitForSpace waits
          strayed,                 \* partitions of which a bp took a chaser, or a message out of sequence, into a batch
          batches,                 \* goroutines of retryBatch
          seq, nextSeq,            \* sequence numbers of messages, and the next one
          log, offset, recent,     \* at Kafka: what a partition holds, where, the last batches
          results,                 \* what was returned to the user for each message
          panicked, faults
inputVars == <<conf, sent, seq, nextSeq>>
ppVars == <<leader, hwm, buf, chaser, ops>>
bpVars == <<closing, currentRetries, buffer, bridge, response, waiting, strayed>>
mapVars == <<abandoned, refs, brokers, brokerOf>>
stopVars == <<shuttingDown, closed, refusing>>
logVars == <<log, recent>>
vars == <<inputVars, retryq, inFlight, stopVars, input, ppVars, mapVars, bpVars,
          batches, logVars, offset, results, panicked, faults>>

Ids == 1..conf.Messages              \* the messages, in the order they are sent
PartitionOf == conf.PartitionOf
Partitions == {PartitionOf[i] : i \in Ids}
TooLarge == conf.TooLarge             \* messages above MaxMessageBytes
NoEncoding == conf.NoEncoding         \* messages whose Encoder fails
LateSend == conf.LateSend             \* the user may send while the producer shuts down
Brokers == conf.Brokers
RetryMax == conf.RetryMax             \* Producer.Retry.Max
MaxMessages == conf.MaxMessages       \* Producer.Flush.MaxMessages
Idempotent == conf.Idempotent
Bps == 1..conf.MaxBps                 \* bound: brokerProducers

None == 0
Unused == -1
Init ==
  /\ conf \in Confs
  /\ sent = 0 /\ retryq = <<>> /\ inFlight = 0 /\ shuttingDown = FALSE /\ closed = FALSE /\ refusing = None
  /\ input = [p \in Partitions |-> <<>>]
  /\ leader = [p \in Partitions |-> None] /\ hwm = [p \in Partitions |-> 0]
  /\ buf = [p \in Partitions |-> [l \in 0..RetryMax |-> <<>>]]
  /\ chaser = [p \in Partitions |-> [l \in 0..RetryMax |-> FALSE]]
  /\ ops = [p \in Partitions |-> <<>>]
  /\ abandoned = {} /\ refs = [i \in Bps |-> Unused]
  /\ brokers = [b \in Brokers |-> None] /\ brokerOf = [i \in Bps |-> None]
  /\ closing = {} /\ currentRetries = [i \in Bps |-> {}]
  /\ buffer = [i \in Bps |-> <<>>] /\ bridge = [i \in Bps |-> <<>>]
  /\ response = [i \in Bps |-> <<>>]
  /\ waiting = [i \in Bps |-> <<>>] /\ strayed = {}
  /\ batches = {}
  /\ seq = [i \in Ids |-> -1] /\ nextSeq = [p \in Partitions |-> 0]
  /\ log = [p \in Partitions |-> <<>>] /\ recent = [p \in Partitions |-> {}]
  /\ offset = [i \in Ids |-> None]
  /\ results = [i \in Ids |-> <<>>]
  /\ panicked = "no" /\ faults = 0

Message(i) == [id |-> i, part |-> PartitionOf[i], retries |-> 0, flags |-> "data"]
Control(flags, p, retries) == [id |-> None, part |-> p, retries |-> retries, flags |-> flags]
Fault == faults < conf.MaxFaults /\ faults' = faults + 1

OfPartition(msgs, p) == SelectSeq(msgs, LAMBDA m : m.part = p)
PartitionsOf(msgs) == {m.part : m \in ToSet(msgs)}

-----------------------------------------------------------------------------
(* returnErrors, returnSuccesses and retryMessages, on a sequence.  Each   *)
(* answer counts the WaitGroup down; a control message is answered to the  *)
(* user as well.                                                           *)
Answer(msgs, how) ==
  [i \in Ids |-> results[i] \o [k \in 1..Len(SelectSeq(msgs, LAMBDA m : m.id = i)) |-> how]]
MayRetry(m) == m.retries < RetryMax
Retried(msgs) ==
  LET kept == SelectSeq(msgs, MayRetry) IN [k \in 1..Len(kept) |-> [kept[k] EXCEPT !.retries = @ + 1]]
Exhausted(msgs) == SelectSeq(msgs, LAMBDA m : ~MayRetry(m))
ReturnErrors(msgs) == results' = Answer(msgs, "error") /\ inFlight' = inFlight - Len(msgs)
RetryMessages(msgs) == retryq' = retryq \o Retried(msgs) /\ ReturnErrors(Exhausted(msgs))

-----------------------------------------------------------------------------
(* dispatcher and topicProducer.dispatch for a new message. *)
DispatchNew ==
  /\ ~closed /\ refusing = None /\ sent < Cardinality(Ids)
  /\ shuttingDown => LateSend
  /\ sent' = sent + 1
  /\ LET m == Message(sent + 1) IN
     \/ /\ shuttingDown
        /\ refusing' = m.id
        /\ UNCHANGED <<results, inFlight, input, seq, nextSeq, faults>>
     \/ /\ ~shuttingDown /\ m.id \in TooLarge
        /\ results' = Answer(<<m>>, "error")
        /\ UNCHANGED <<inFlight, input, seq, nextSeq, faults, refusing>>
     \/ /\ ~shuttingDown /\ m.id \notin TooLarge
        /\ Fault     \* partitionMessage
        /\ results' = Answer(<<m>>, "error")
        /\ UNCHANGED <<inFlight, input, seq, nextSeq, refusing>>
     \/ /\ ~shuttingDown /\ m.id \notin TooLarge
        /\ inFlight' = inFlight + 1
        /\ seq' = [seq EXCEPT ![m.id] = nextSeq[m.part]]
        /\ nextSeq' = [nextSeq EXCEPT ![m.part] = @ + 1]
        /\ input' = [input EXCEPT ![m.part] = Append(@, m)]
        /\ UNCHANGED <<results, faults, refusing>>
  /\ UNCHANGED <<conf, retryq, shuttingDown, closed, ppVars, mapVars, bpVars, batches, logVars, offset, panicked>>

(* A refusal that counts down a message which was never counted. *)
RefuseCounts ==
  /\ refusing # None
  /\ refusing' = None
  /\ IF closed THEN panicked' = "closed" /\ UNCHANGED <<results, inFlight>>
     ELSE ReturnErrors(<<Message(refusing)>>) /\ UNCHANGED panicked
  /\ UNCHANGED <<inputVars, retryq, shuttingDown, closed, input, ppVars, mapVars, bpVars, batches, logVars, offset, faults>>
(* It sends the refusal on the channel errors, which may be closed by then. *)
Refuse ==
  /\ refusing # None
  /\ refusing' = None
  /\ IF closed THEN panicked' = "closed" /\ UNCHANGED results
     ELSE results' = Answer(<<Message(refusing)>>, "error") /\ UNCHANGED panicked
  /\ UNCHANGED <<inputVars, retryq, inFlight, shuttingDown, closed, input, ppVars, mapVars, bpVars, batches, logVars, offset, faults>>

(* A dispatch that gives a retried message a new sequence number. *)
DispatchRetryNumbers ==
  /\ retryq # <<>> /\ refusing = None
  /\ retryq' = Tail(retryq)
  /\ input' = [input EXCEPT ![Head(retryq).part] = Append(@, Head(retryq))]
  /\ LET m == Head(retryq) IN
     IF m.id = None THEN UNCHANGED <<seq, nextSeq>>
     ELSE seq' = [seq EXCEPT ![m.id] = nextSeq[m.part]] /\ nextSeq' = [nextSeq EXCEPT ![m.part] = @ + 1]
  /\ UNCHANGED <<conf, sent, inFlight, stopVars, ppVars, mapVars, bpVars, batches, logVars, offset, results, panicked, faults>>
(* retryHandler hands a message back to the dispatcher. *)
DispatchRetry ==
  /\ retryq # <<>> /\ refusing = None
  /\ retryq' = Tail(retryq)
  /\ input' = [input EXCEPT ![Head(retryq).part] = Append(@, Head(retryq))]
  /\ UNCHANGED <<inputVars, inFlight, stopVars, ppVars, mapVars, bpVars, batches, logVars, offset, results, panicked, faults>>

-----------------------------------------------------------------------------
(* partitionProducer.dispatch: one message, and the sends it leads to.     *)
(* deliver(msgs) stands for updateLeader, if there is no bp, and then the  *)
(* sends; a failing updateLeader returns the messages as errors.           *)
Deliver(msgs) == [do |-> "deliver", msgs |-> msgs]
SendTo(m) == [do |-> "send", msgs |-> <<m>>]
Unref == [do |-> "unref", msgs |-> <<>>]
Done == [do |-> "done", msgs |-> <<>>]

(* The levels that flushRetryBuffers empties, from the highest: down to    *)
(* one that still expects its chaser, or to zero.                          *)
FlushedLevels(p) ==
  LET stop == Max({l \in 0..(hwm[p] - 1) : l = 0 \/ chaser[p][l]})
  IN [k \in 1..(hwm[p] - stop) |-> hwm[p] - k]

PPTake(p) ==
  /\ ops[p] = <<>> /\ input[p] # <<>>
  /\ input' = [input EXCEPT ![p] = Tail(@)]
  /\ LET m == Head(input[p])
         drop == IF leader[p] \in abandoned /\ RetryMax = 0 THEN <<Unref>> ELSE <<>>
         isFin == m.flags = "fin"
     IN
     \/ /\ m.retries > hwm[p]
        /\ panicked' = IF leader[p] = None THEN "nil" ELSE panicked
        /\ hwm' = [hwm EXCEPT ![p] = m.retries]
        /\ chaser' = [chaser EXCEPT ![p][m.retries] = TRUE]
        /\ inFlight' = inFlight + 1
        /\ ops' = [ops EXCEPT ![p] = drop \o <<SendTo(Control("fin", p, m.retries - 1)), Unref, Deliver(<<m>>)>>]
        /\ UNCHANGED buf
     \/ /\ hwm[p] > 0 /\ m.retries < hwm[p]
        /\ IF isFin
           THEN /\ chaser' = [chaser EXCEPT ![p][m.retries] = FALSE]
                /\ inFlight' = inFlight - 1
                /\ UNCHANGED buf
           ELSE /\ buf' = [buf EXCEPT ![p][m.retries] = Append(@, m)]
                /\ UNCHANGED <<chaser, inFlight>>
        /\ ops' = [ops EXCEPT ![p] = drop]
        /\ UNCHANGED <<hwm, panicked>>
     \/ /\ hwm[p] > 0 /\ m.retries = hwm[p] /\ isFin
        /\ LET levels == FlushedLevels(p) IN
             /\ chaser' = [chaser EXCEPT ![p][hwm[p]] = FALSE]
             /\ hwm' = [hwm EXCEPT ![p] = Last(levels)]
             /\ ops' = [ops EXCEPT ![p] = drop \o [k \in 1..Len(levels) |-> Deliver(buf[p][levels[k]])] \o <<Done>>]
             /\ buf' = [buf EXCEPT ![p] = [l \in 0..RetryMax |-> IF l \in ToSet(levels) THEN <<>> ELSE @[l]]]
        /\ UNCHANGED <<inFlight, panicked>>
     \/ /\ m.retries = hwm[p] /\ ~(isFin /\ hwm[p] > 0)
        /\ ops' = [ops EXCEPT ![p] = drop \o <<Deliver(<<m>>)>>]
        /\ UNCHANGED <<hwm, chaser, buf, inFlight, panicked>>
  /\ UNCHANGED <<inputVars, retryq, stopVars, leader, mapVars, bpVars, batches, logVars, offset, results, faults>>

(* getBrokerProducer, newBrokerProducer. *)
GetBrokerProducer(b, i) ==
  /\ \/ brokers[b] = i /\ i # None
     \/ brokers[b] = None /\ refs[i] = Unused /\ \A j \in 1..(i - 1) : refs[j] # Unused
  /\ refs' = [refs EXCEPT ![i] = IF @ = Unused THEN 1 ELSE @ + 1]
  /\ brokers' = [brokers EXCEPT ![b] = i]
  /\ brokerOf' = [brokerOf EXCEPT ![i] = b]
  /\ UNCHANGED abandoned
(* unrefBrokerProducer: a bp without references gets no more messages. *)
UnrefBrokerProducer(i) ==
  /\ refs' = [refs EXCEPT ![i] = @ - 1]
  /\ brokers' = [b \in Brokers |-> IF brokers[b] = i /\ refs[i] = 1 THEN None ELSE brokers[b]]
  /\ UNCHANGED <<abandoned, brokerOf>>

PPUnref(p) ==
  /\ \/ ops[p] # <<>> /\ Head(ops[p]).do = "unref" /\ ops' = [ops EXCEPT ![p] = Tail(@)]
     \/ closed /\ ops[p] = <<>> /\ input[p] = <<>> /\ leader[p] # None /\ UNCHANGED ops
  /\ UnrefBrokerProducer(leader[p])
  /\ leader' = [leader EXCEPT ![p] = None]
  /\ UNCHANGED <<inputVars, retryq, inFlight, stopVars, input, hwm, buf, chaser, bpVars, batches, logVars, offset, results, panicked, faults>>

(* The fin that ended a level is accounted for once its buffers are sent. *)
PPDone(p) ==
  /\ ops[p] # <<>> /\ Head(ops[p]).do = "done"
  /\ ops' = [ops EXCEPT ![p] = Tail(@)]
  /\ inFlight' = inFlight - 1
  /\ UNCHANGED <<inputVars, retryq, stopVars, input, leader, hwm, buf, chaser, mapVars, bpVars, batches, logVars, offset, results, panicked, faults>>

(* The messages of a deliver; before them updateLeader, if need be, with a *)
(* syn to the new bp.                                                      *)
Sends(msgs) == [k \in 1..Len(msgs) |-> SendTo(msgs[k])]

PPDeliver(p) ==
  /\ ops[p] # <<>> /\ Head(ops[p]).do = "deliver"
  /\ LET msgs == Head(ops[p]).msgs IN
     \/ /\ leader[p] # None
        /\ ops' = [ops EXCEPT ![p] = Sends(msgs) \o Tail(@)]
        /\ UNCHANGED <<inFlight, leader, mapVars, results, faults>>
     \/ /\ leader[p] = None
        /\ Fault /\ ReturnErrors(msgs)
        /\ ops' = [ops EXCEPT ![p] = Tail(@)]
        /\ UNCHANGED <<leader, mapVars>>
     \/ /\ leader[p] = None
        /\ \E b \in Brokers, i \in Bps : GetBrokerProducer(b, i) /\ leader' = [leader EXCEPT ![p] = i]
        /\ inFlight' = inFlight + 1
        /\ ops' = [ops EXCEPT ![p] = <<SendTo(Control("syn", p, 0))>> \o Sends(msgs) \o Tail(@)]
        /\ UNCHANGED <<results, faults>>
  /\ UNCHANGED <<inputVars, retryq, stopVars, input, hwm, buf, chaser, bpVars, batches, logVars, offset, panicked>>

-----------------------------------------------------------------------------
(* produceSet.add: a message whose number is below the first one of its    *)
(* batch, a chaser included, is answered and cleared, and stays among the  *)
(* messages of the batch without a record.                                 *)
SequenceNumber(m) == IF m.id = None THEN 0 ELSE seq[m.id]
OutOfSequence(set, m) ==
  LET batch == OfPartition(set, m.part)
  IN Idempotent /\ batch # <<>> /\ SequenceNumber(m) < SequenceNumber(Head(batch))
Records(set) == SelectSeq(set, LAMBDA m : ~OutOfSequence(set, m))
Cleared(m) == [m EXCEPT !.flags = "data", !.retries = 0]
Add(i, m) ==
  IF m.id \in NoEncoding THEN ReturnErrors(<<m>>) /\ UNCHANGED <<buffer, strayed>>
  ELSE /\ strayed' = IF m.flags = "fin" \/ OutOfSequence(buffer[i], m) THEN strayed \cup {m.part} ELSE strayed
       /\ IF OutOfSequence(buffer[i], m)
          THEN ReturnErrors(<<m>>) /\ buffer' = [buffer EXCEPT ![i] = Append(@, Cleared(m))]
          ELSE buffer' = [buffer EXCEPT ![i] = Append(@, m)] /\ UNCHANGED <<results, inFlight>>

(* brokerProducer.run: the next message. *)
NeedsRetry(i, m) == i \in closing \/ m.part \in currentRetries[i]
WouldOverflow(i) == Len(Records(buffer[i])) >= MaxMessages
BPTake(p) ==
  LET i == leader[p]
      m == Head(Head(ops[p]).msgs)
  IN
  /\ ops[p] # <<>> /\ Head(ops[p]).do = "send" /\ waiting[i] = <<>>
  /\ ops' = [ops EXCEPT ![p] = Tail(@)]
  /\ \/ /\ m.flags = "syn"
        /\ currentRetries' = [currentRetries EXCEPT ![i] = @ \ {p}]
        /\ inFlight' = inFlight - 1
        /\ UNCHANGED <<buffer, waiting, strayed, retryq, results>>
     \/ /\ m.flags # "syn" /\ NeedsRetry(i, m)
        /\ RetryMessages(<<m>>)
        /\ currentRetries' = IF i \notin closing /\ m.flags = "fin"
                             THEN [currentRetries EXCEPT ![i] = @ \ {p}] ELSE currentRetries
        /\ UNCHANGED <<buffer, waiting, strayed>>
     \/ /\ m.flags # "syn" /\ ~NeedsRetry(i, m) /\ WouldOverflow(i)
        /\ waiting' = [waiting EXCEPT ![i] = <<m>>]
        /\ UNCHANGED <<currentRetries, retryq, buffer, strayed, results, inFlight>>
     \/ /\ m.flags # "syn" /\ ~NeedsRetry(i, m) /\ ~WouldOverflow(i)
        /\ Add(i, m)
        /\ UNCHANGED <<currentRetries, retryq, waiting>>
  /\ UNCHANGED <<inputVars, stopVars, input, leader, hwm, buf, chaser, mapVars, closing, bridge, response,
                 batches, logVars, offset, panicked, faults>>

(* waitForSpace: the bp takes no other message meanwhile; after a flush or *)
(* a response it goes on at once.                                          *)
HasSpace(i) == waiting[i] # <<>> /\ (NeedsRetry(i, waiting[i][1]) \/ ~WouldOverflow(i))
WaitForSpace(i) ==
  /\ HasSpace(i)
  /\ waiting' = [waiting EXCEPT ![i] = <<>>]
  /\ IF NeedsRetry(i, waiting[i][1]) THEN RetryMessages(waiting[i]) /\ UNCHANGED <<buffer, strayed>>
     ELSE Add(i, waiting[i][1]) /\ UNCHANGED retryq
  /\ UNCHANGED <<inputVars, stopVars, input, ppVars, mapVars, closing, currentRetries, bridge, response,
                 batches, logVars, offset, panicked, faults>>

(* The buffer goes to the bridge when that is free, and rollOver. *)
BPFlush(i) ==
  /\ buffer[i] # <<>> /\ bridge[i] = <<>> /\ ~HasSpace(i)
  /\ bridge' = [bridge EXCEPT ![i] = buffer[i]]
  /\ buffer' = [buffer EXCEPT ![i] = <<>>]
  /\ UNCHANGED <<inputVars, retryq, inFlight, stopVars, input, ppVars, mapVars, closing, currentRetries, response, waiting, strayed,
                 batches, logVars, offset, results, panicked, faults>>

-----------------------------------------------------------------------------
(* Kafka.  For an idempotent producer it compares the sequence number of a *)
(* batch, that of its first message, with those it has: a batch it has     *)
(* stored lately is a duplicate, a gap is an error.                        *)
Fates == {"ok", "retry", "storedRetry", "fatal", "missing", "conn", "storedConn", "encode"}
WholeFates == {"conn", "storedConn", "encode"}
Span(msgs) == <<SequenceNumber(Head(msgs)), SequenceNumber(Head(msgs)) + Len(msgs) - 1>>
Known(p) == {r[2] : r \in recent[p]} \cup {-1}
Verdict(p, msgs) ==
  CASE ~Idempotent \/ Span(msgs)[1] = Max(Known(p)) + 1 -> "new"
    [] Idempotent /\ Span(msgs) \in recent[p] -> "dup"
    [] OTHER -> "gap"
Reply(p, msgs, fate) ==
  CASE fate \in {"ok", "storedRetry"} /\ Verdict(p, msgs) = "gap" -> "fatal"
    [] fate = "storedRetry" -> "retry"
    [] fate = "storedConn" -> "conn"
    [] OTHER -> fate
(* The bridge: broker.Produce, stored or not, answered or not. *)
Produce(i) ==
  /\ bridge[i] # <<>> /\ response[i] = <<>>
  /\ \E fate \in [PartitionsOf(bridge[i]) -> Fates] :
       LET set(p) == Records(OfPartition(bridge[i], p))
           faulty == {p \in DOMAIN fate : fate[p] # "ok"}
           stored == {p \in DOMAIN fate : /\ fate[p] \in {"ok", "storedRetry", "storedConn"}
                                          /\ Verdict(p, set(p)) = "new"}
       IN
       /\ \A p, q \in DOMAIN fate : fate[p] \in WholeFates => fate[p] = fate[q]
       /\ faults + Cardinality(faulty) <= conf.MaxFaults
       /\ faults' = faults + Cardinality(faulty)
       /\ response' = [response EXCEPT ![i] = [p \in DOMAIN fate |-> Reply(p, set(p), fate[p])]]
       /\ log' = [p \in Partitions |-> IF p \in stored THEN log[p] \o [k \in 1..Len(set(p)) |-> set(p)[k].id] ELSE log[p]]
       /\ recent' = [p \in Partitions |-> IF p \in stored /\ Idempotent THEN recent[p] \cup {Span(set(p))} ELSE recent[p]]
       /\ offset' = [d \in Ids |->
                       LET p == PartitionOf[d]
                           places == IF p \in stored THEN {k \in 1..Len(set(p)) : set(p)[k].id = d} ELSE {}
                       IN IF places = {} THEN offset[d] ELSE Len(log[p]) + Max(places)]
  /\ UNCHANGED <<inputVars, retryq, inFlight, stopVars, input, ppVars, mapVars, closing, currentRetries, buffer, bridge, waiting, strayed,
                 batches, results, panicked>>

(* abandonBrokerConnection. *)
Abandon(i) ==
  /\ abandoned' = IF RetryMax = 0 THEN abandoned \cup ({brokers[brokerOf[i]]} \ {None}) ELSE abandoned
  /\ brokers' = [brokers EXCEPT ![brokerOf[i]] = None]
  /\ UNCHANGED <<refs, brokerOf>>

(* handleResponse: handleError for a broken connection or a request that   *)
(* cannot be encoded, else handleSuccess block by block.                   *)
(* An error after which the buffered messages are forgotten. *)
HandleErrorForgets(i) ==
  LET all == bridge[i] IN
  /\ IF \E p \in DOMAIN response[i] : response[i][p] = "encode"
     THEN ReturnErrors(bridge[i]) /\ UNCHANGED <<retryq, closing, buffer, mapVars>>
     ELSE /\ RetryMessages(all)
          /\ closing' = closing \cup {i}
          /\ buffer' = [buffer EXCEPT ![i] = <<>>]
          /\ Abandon(i)
  /\ UNCHANGED <<currentRetries, batches>>
HandleError(i) ==
  LET all == bridge[i] \o buffer[i] IN
  /\ IF \E p \in DOMAIN response[i] : response[i][p] = "encode"
     THEN ReturnErrors(bridge[i]) /\ UNCHANGED <<retryq, closing, buffer, mapVars>>
     ELSE /\ RetryMessages(all)
          /\ closing' = closing \cup {i}
          /\ buffer' = [buffer EXCEPT ![i] = <<>>]
          /\ Abandon(i)
  /\ UNCHANGED <<currentRetries, batches>>
(* A response after which the messages behind a failed batch stay in the buffer. *)
HandleSuccessKeeps(i) ==
  LET with(codes) == SelectSeq(bridge[i], LAMBDA m : response[i][m.part] \in codes)
      retrying == {p \in DOMAIN response[i] : response[i][p] = "retry" /\ RetryMax > 0}
      good == with({"ok", "dup"})
      bad == with({"missing", "fatal"} \cup (IF RetryMax = 0 THEN {"retry"} ELSE {}))
      dropped == <<>>
      back == IF Idempotent THEN dropped
              ELSE SelectSeq(bridge[i], LAMBDA m : m.part \in retrying) \o dropped
      failed == bad \o Exhausted(back)
  IN
  /\ results' = [d \in Ids |-> LET n(msgs) == Len(SelectSeq(msgs, LAMBDA m : m.id = d))
                               IN results[d] \o [k \in 1..n(good) |-> "ok"] \o [k \in 1..n(failed) |-> "error"]]
  /\ inFlight' = inFlight - Len(good) - Len(failed)
  /\ retryq' = retryq \o Retried(back)
  /\ currentRetries' = [currentRetries EXCEPT ![i] = @ \cup retrying]
  /\ batches' = IF Idempotent THEN batches \cup {[msgs |-> OfPartition(bridge[i], p), bp |-> None] : p \in retrying} ELSE batches
  /\ IF RetryMax = 0 /\ \E p \in DOMAIN response[i] : response[i][p] \in {"retry", "fatal"} THEN Abandon(i) ELSE UNCHANGED mapVars
  /\ UNCHANGED <<closing, buffer>>
(* A response whose missing blocks are taken for success. *)
HandleSuccessHopes(i) ==
  LET with(codes) == SelectSeq(bridge[i], LAMBDA m : response[i][m.part] \in codes)
      retrying == {p \in DOMAIN response[i] : response[i][p] = "retry" /\ RetryMax > 0}
      good == with({"ok", "dup", "missing"})
      bad == with({"fatal"} \cup (IF RetryMax = 0 THEN {"retry"} ELSE {}))
      dropped == SelectSeq(buffer[i], LAMBDA m : m.part \in retrying)
      back == IF Idempotent THEN dropped
              ELSE SelectSeq(bridge[i], LAMBDA m : m.part \in retrying) \o dropped
      failed == bad \o Exhausted(back)
  IN
  /\ results' = [d \in Ids |-> LET n(msgs) == Len(SelectSeq(msgs, LAMBDA m : m.id = d))
                               IN results[d] \o [k \in 1..n(good) |-> "ok"] \o [k \in 1..n(failed) |-> "error"]]
  /\ inFlight' = inFlight - Len(good) - Len(failed)
  /\ retryq' = retryq \o Retried(back)
  /\ currentRetries' = [currentRetries EXCEPT ![i] = @ \cup retrying]
  /\ buffer' = [buffer EXCEPT ![i] = SelectSeq(@, LAMBDA m : m.part \notin retrying)]
  /\ batches' = IF Idempotent THEN batches \cup {[msgs |-> OfPartition(bridge[i], p), bp |-> None] : p \in retrying} ELSE batches
  /\ IF RetryMax = 0 /\ \E p \in DOMAIN response[i] : response[i][p] \in {"retry", "fatal"} THEN Abandon(i) ELSE UNCHANGED mapVars
  /\ UNCHANGED closing
HandleSuccess(i) ==
  LET with(codes) == SelectSeq(bridge[i], LAMBDA m : response[i][m.part] \in codes)
      retrying == {p \in DOMAIN response[i] : response[i][p] = "retry" /\ RetryMax > 0}
      good == with({"ok", "dup"})
      bad == with({"missing", "fatal"} \cup (IF RetryMax = 0 THEN {"retry"} ELSE {}))
      dropped == SelectSeq(buffer[i], LAMBDA m : m.part \in retrying)
      back == IF Idempotent THEN dropped
              ELSE SelectSeq(bridge[i], LAMBDA m : m.part \in retrying) \o dropped
      failed == bad \o Exhausted(back)
  IN
  /\ results' = [d \in Ids |-> LET n(msgs) == Len(SelectSeq(msgs, LAMBDA m : m.id = d))
                               IN results[d] \o [k \in 1..n(good) |-> "ok"] \o [k \in 1..n(failed) |-> "error"]]
  /\ inFlight' = inFlight - Len(good) - Len(failed)
  /\ retryq' = retryq \o Retried(back)
  /\ currentRetries' = [currentRetries EXCEPT ![i] = @ \cup retrying]
  /\ buffer' = [buffer EXCEPT ![i] = SelectSeq(@, LAMBDA m : m.part \notin retrying)]
  /\ batches' = IF Idempotent THEN batches \cup {[msgs |-> OfPartition(bridge[i], p), bp |-> None] : p \in retrying} ELSE batches
  /\ IF RetryMax = 0 /\ \E p \in DOMAIN response[i] : response[i][p] \in {"retry", "fatal"} THEN Abandon(i) ELSE UNCHANGED mapVars
  /\ UNCHANGED closing
BPHandle(i) ==
  /\ response[i] # <<>> /\ ~HasSpace(i)
  /\ IF \E p \in DOMAIN response[i] : response[i][p] \in {"conn", "encode"} THEN HandleError(i) ELSE HandleSuccess(i)
  /\ bridge' = [bridge EXCEPT ![i] = <<>>] /\ response' = [response EXCEPT ![i] = <<>>]
  /\ UNCHANGED <<inputVars, stopVars, input, ppVars, waiting, strayed, logVars, offset, panicked, faults>>

(* retryBatch, the goroutine that sends a batch of an idempotent producer  *)
(* again.  At a message that may not be retried it returns that one and    *)
(* ends.                                                                   *)
RetryBatch(x) ==
  /\ x.bp = None
  /\ IF \E m \in ToSet(x.msgs) : ~MayRetry(m)
     THEN /\ ReturnErrors(<<Head(Exhausted(x.msgs))>>)
          /\ batches' = batches \ {x}
          /\ UNCHANGED <<mapVars, faults>>
     ELSE \/ /\ Fault /\ ReturnErrors(x.msgs)
             /\ batches' = batches \ {x}
             /\ UNCHANGED mapVars
          \/ /\ \E b \in Brokers, i \in Bps :
                  /\ GetBrokerProducer(b, i)
                  /\ batches' = (batches \ {x}) \cup {[msgs |-> Retried(x.msgs), bp |-> i]}
             /\ UNCHANGED <<results, inFlight, faults>>
  /\ UNCHANGED <<inputVars, retryq, stopVars, input, ppVars, bpVars, logVars, offset, panicked>>
RetryBatchSend(x) ==
  /\ x.bp # None /\ bridge[x.bp] = <<>>
  /\ bridge' = [bridge EXCEPT ![x.bp] = x.msgs]
  /\ batches' = batches \ {x}
  /\ UNCHANGED <<inputVars, retryq, inFlight, stopVars, input, ppVars, mapVars, closing, currentRetries, buffer, response, waiting, strayed,
                 logVars, offset, results, panicked, faults>>

-----------------------------------------------------------------------------
(* shutdown: the message with the flag, and then the wait for inFlight. *)
Shutdown ==
  /\ ~shuttingDown /\ refusing = None
  /\ shuttingDown' = TRUE
  /\ UNCHANGED <<inputVars, retryq, inFlight, closed, refusing, input, ppVars, mapVars, bpVars, batches, logVars, offset, results, panicked, faults>>
Close ==
  /\ shuttingDown /\ ~closed /\ inFlight = 0
  /\ closed' = TRUE
  /\ UNCHANGED <<inputVars, retryq, inFlight, shuttingDown, refusing, input, ppVars, mapVars, bpVars, batches, logVars, offset, results, panicked, faults>>

Step ==
  \/ DispatchRetry \/ Refuse
  \/ \E p \in Partitions : PPTake(p) \/ PPUnref(p) \/ PPDone(p) \/ PPDeliver(p) \/ BPTake(p)
  \/ \E i \in Bps : BPFlush(i) \/ WaitForSpace(i) \/ Produce(i) \/ BPHandle(i)
  \/ \E x \in batches : RetryBatch(x) \/ RetryBatchSend(x)
  \/ Close
Next == panicked = "no" /\ (DispatchNew \/ Shutdown \/ Step)
Spec == Init /\ [][Next]_vars

(* Goroutines run, and a request is answered or its connection breaks. *)
Fairness == WF_vars(panicked = "no" /\ Step)
FairSpec == Spec /\ Fairness

-----------------------------------------------------------------------------
(* retryBatch raises the level of a batch past the partitionProducer, and  *)
(* another goroutine may send it after the messages that follow.  So an    *)
(* idempotent producer with several retries may buffer a chaser like a     *)
(* message, which then does not come back to the partitionProducer that    *)
(* waits for it, add a message out of sequence (produce_set.go:83), or     *)
(* start a retry level without a brokerProducer, a nil dereference         *)
(* (async_producer.go:586, :751, :937).                                    *)
MayStray == Idempotent /\ RetryMax > 1

(* The number of a message that failed is taken already                    *)
(* (async_producer.go:391): after the gap a batch of an idempotent         *)
(* producer may have the numbers of one that Kafka stored, or others than  *)
(* its messages had before.                                                *)
Numbered(p) ==
  Idempotent => p \notin strayed /\ \A i \in Ids : PartitionOf[i] = p => "error" \notin ToSet(results[i])

(* Every message is answered at most once: a second answer takes inFlight  *)
(* below zero, or releases a wait that is not over.  When the channels are *)
(* closed each message that was taken has its answer and no goroutine      *)
(* holds one (shutdown waits for inFlight, which also counts the control   *)
(* messages), unless a late refusal met the closed channel                 *)
(* (async_producer.go:322).  Except once a chaser or a message strayed,    *)
(* which only an idempotent producer with several retries lets happen.     *)
AnsweredOnce ==
  /\ strayed # {} \/ panicked = "nil" => MayStray
  /\ strayed = {} =>
       /\ inFlight >= 0 /\ \A i \in Ids : Len(results[i]) <= 1
       /\ closed /\ panicked # "closed" =>
            /\ \A i \in 1..sent : i = refusing \/ Len(results[i]) = 1
            /\ retryq = <<>> /\ batches = {}
            /\ \A p \in Partitions : input[p] = <<>> /\ ops[p] = <<>> /\ \A l \in 0..RetryMax : buf[p][l] = <<>>
            /\ \A i \in Bps : buffer[i] = <<>> /\ bridge[i] = <<>> /\ waiting[i] = <<>>

(* Messages of one partition that are acknowledged are stored in the order *)
(* in which they were sent, whatever was retried on the way (the levels of *)
(* partitionProducer).  Not claimed without retries, where a broker is     *)
(* abandoned under messages that follow, and for an idempotent producer    *)
(* only while no message of the partition failed or strayed.               *)
OrderKept ==
  \A i, j \in Ids :
    /\ i < j /\ PartitionOf[i] = PartitionOf[j] /\ Numbered(PartitionOf[i])
    /\ results[i] = <<"ok">> /\ results[j] = <<"ok">>
    => offset[i] < offset[j] \/ RetryMax = 0

(* What was acknowledged is stored, for an idempotent producer while no    *)
(* message of the partition failed or strayed, and nothing but messages    *)
(* is: chasers and syns do not reach Kafka unless one strayed.             *)
AcknowledgedIsStored ==
  \A p \in Partitions :
    /\ \A i \in Ids : PartitionOf[i] = p /\ results[i] = <<"ok">> /\ Numbered(p) => offset[i] # None
    /\ None \in ToSet(log[p]) => p \in strayed

(* With Idempotent no message is stored twice (config.go:162-163) while no *)
(* message of its partition failed or strayed.                             *)
NoDuplicates ==
  Idempotent => \A p \in Partitions : Numbered(p) => Cardinality(ToSet(log[p])) = Len(log[p])

(* After AsyncClose the channels are closed in the end                     *)
(* (async_producer.go:21-24).  Except when an idempotent batch of several  *)
(* messages has no retry left: retryBatch answers the first and forgets    *)
(* the others (async_producer.go:932-935); and when a chaser or a message  *)
(* strayed, or a retry level started without a brokerProducer.             *)
CloseReturns ==
  shuttingDown ~> \/ closed
                  \/ Idempotent /\ MaxMessages > 1
                  \/ MayStray /\ (strayed # {} \/ panicked = "nil")
=============================================================================
