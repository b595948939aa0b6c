---------------------------- MODULE MCKafkaClient ----------------------------
(***************************************************************************)
(* For TLC: the asynchronous producer (KafkaProducer) and the connection   *)
(* to a broker (KafkaBroker).  They share no state; the initial state      *)
(* chooses the one that runs.                                              *)
(***************************************************************************)
EXTENDS KafkaProducer

CONSTANTS CallerNames, MaxOpenRequests, Mechanisms, MaxRequests, MaxBrokerFaults

VARIABLES part,
          opened, lock, conn, connErr, correlationID, responses, opening, invalid, at, want, got, torn,
          recv, hold, dead, wire, replies, requests, opens, brokerFaults

OneBroker == {"b1"}
Same(n) == [i \in 1..n |-> "p"]
Plain ==
  [Messages |-> 3, PartitionOf |-> Same(3), TooLarge |-> {}, NoEncoding |-> {}, LateSend |-> TRUE, Brokers |-> OneBroker,
   RetryMax |-> 2, MaxMessages |-> 2, Idempotent |-> FALSE, MaxBps |-> 4, MaxFaults |-> 2]
(* Two partitions that share a brokerProducer. *)
Parts ==
  [Plain EXCEPT !.PartitionOf = <<"p", "q", "p">>, !.LateSend = FALSE,
                !.RetryMax = 1, !.MaxBps = 3, !.MaxFaults = 1]
(* The idempotent producer: with three messages, with a partition that     *)
(* changes its leader, and with the retries it has by default and as many  *)
(* failures.                                                               *)
Idem == [Plain EXCEPT !.LateSend = FALSE, !.Idempotent = TRUE]
Pair == [Idem EXCEPT !.Messages = 2, !.PartitionOf = Same(2)]
TwoLeaders == [Pair EXCEPT !.Brokers = {"b1", "b2"}]
ManyRetries == [Pair EXCEPT !.RetryMax = 3, !.MaxFaults = 3]
(* Without retries brokers are abandoned; the last message is too large. *)
NoRetry == [Plain EXCEPT !.Messages = 4, !.PartitionOf = Same(4), !.TooLarge = {4}, !.RetryMax = 0]
SafetyConfs == {Plain, Parts, Idem, TwoLeaders, ManyRetries, NoRetry}

(* A message that cannot be encoded, and idempotent batches of one. *)
Odd == [Plain EXCEPT !.NoEncoding = {2}, !.RetryMax = 1]
LiveConfs == {Odd, [Pair EXCEPT !.MaxMessages = 1, !.MaxFaults = 3]}

Broker == INSTANCE KafkaBroker WITH faults <- brokerFaults, MaxFaults <- MaxBrokerFaults, MaxOpens <- 2,
                                     Callers <- ToSet(CallerNames)
TwoCallers == <<"c1", "c2">>
ThreeCallers == <<"c1", "c2", "c3">>
(* The callers are alike: they begin in the order of their names. *)
InOrder == \A k \in 2..Len(CallerNames) : want[CallerNames[k]] # Broker!None => want[CallerNames[k - 1]] # Broker!None
AllMechanisms == {"none", "RAWPLAIN", "PLAIN", "PLAINv1", "OAUTHBEARER", "SCRAM", "GSSAPI"}

-----------------------------------------------------------------------------
brokerVars == <<opened, lock, conn, connErr, correlationID, responses, opening, invalid, at, want, got, torn,
                recv, hold, dead, wire, replies, requests, opens, brokerFaults>>
allVars == <<part, vars, brokerVars>>
ClientInit ==
  /\ part \in {"producer", "broker"} /\ Init /\ Broker!Init
  /\ part = "broker" => conf = CHOOSE c \in Confs : TRUE
ClientNext ==
  \/ part = "producer" /\ Next /\ UNCHANGED <<part, brokerVars>>
  \/ part = "broker" /\ Broker!Next /\ InOrder' /\ UNCHANGED <<part, vars>>
ClientSpec == ClientInit /\ [][ClientNext]_allVars
(* The one that rests has no step to take. *)
FairClientSpec == ClientSpec /\ Fairness /\ Broker!Fairness

-----------------------------------------------------------------------------
(* See KafkaBroker: a caller gets the response to its own request.         *)
NoCrossedReply == Broker!NoCrossedReply
(* See KafkaBroker: nothing is sent before the authentication.             *)
AuthFirst == Broker!AuthFirst
(* See KafkaBroker: Close leaves nobody waiting, and few wait before it.   *)
ClosedOwesNothing == Broker!ClosedOwesNothing
(* See KafkaBroker: callers return.                                        *)
CallersReturn == Broker!CallersReturn
=============================================================================
