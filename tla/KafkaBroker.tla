----------------------------- MODULE KafkaBroker -----------------------------
(***************************************************************************)
(* Broker of kafka/broker.go: one connection that several goroutines use   *)
(* at a time.  send holds the lock while it writes a request and queues a  *)
(* promise; responseReceiver takes the promises in order and reads one     *)
(* response for each; Open dials and authenticates with the lock held;     *)
(* Close ends the receiver with the lock held.                             *)
(***************************************************************************)
EXTENDS Integers, Sequences, FiniteSets

CONSTANTS Callers,          \* goroutines that send requests
          MaxOpenRequests,  \* conf.Net.MaxOpenRequests
          Mechanisms,       \* values of conf.Net.SASL.Mechanism, "none" when it is disabled
          MaxRequests,      \* bound: requests
          MaxOpens,         \* bound: calls of Open
          MaxFaults         \* bound: failures of the network, responses out of order

VARIABLES opened, lock, conn, connErr,   \* the fields of Broker
          correlationID, responses,
          opening,     \* the goroutine of Open: "none", "lock", "dial", or the exchanges left
          invalid,     \* an Open returned the error of Validate
          at, want, got,   \* each caller: its place, its request, the request whose answer it got
          torn,            \* requests of which a part was written
          recv, hold, dead,\* responseReceiver: its place, its promise, its error
          wire, replies,   \* requests at the server, responses on their way back
          requests, opens, faults
brokerVars == <<opened, connErr>>
recvVars == <<recv, hold, dead>>
callVars == <<at, want, got, torn>>
netVars == <<wire, replies>>
counts == <<requests, opens, faults>>
vars == <<opened, lock, conn, connErr, correlationID, responses, opening, invalid, callVars, recvVars, netVars, counts>>

None == 0
NoPromise == [id |-> -1, caller |-> None]
Init ==
  /\ opened = 0 /\ lock = "free" /\ conn = "nil" /\ connErr = FALSE
  /\ correlationID = 0 /\ responses = <<>>
  /\ opening = <<"none">> /\ invalid = FALSE
  /\ at = [c \in Callers |-> "idle"] /\ want = [c \in Callers |-> None] /\ got = [c \in Callers |-> None]
  /\ torn = {}
  /\ recv = "none" /\ hold = NoPromise /\ dead = FALSE
  /\ wire = <<>> /\ replies = <<>>
  /\ requests = 0 /\ opens = 0 /\ faults = 0

Fault == faults < MaxFaults /\ faults' = faults + 1

-----------------------------------------------------------------------------
(* Open: compare-and-swap of opened, Validate, and the lock.  A            *)
(* configuration that is not valid leaves opened at one.                   *)
Open(valid) ==
  /\ opens < MaxOpens
  /\ opens' = opens + 1
  /\ opened' = 1
  /\ opening' = IF opened = 0 /\ valid THEN <<"lock">> ELSE opening
  /\ invalid' = (invalid \/ (opened = 0 /\ ~valid))
  /\ UNCHANGED <<lock, conn, connErr, correlationID, responses, callVars, recvVars, netVars, requests, faults>>
OpenLock ==
  /\ opening = <<"lock">> /\ lock = "free"
  /\ lock' = "open" /\ opening' = <<"dial">>
  /\ UNCHANGED <<brokerVars, conn, correlationID, responses, invalid, callVars, recvVars, netVars, counts>>

(* The exchanges of a mechanism: "hand" the handshake, whose correlation   *)
(* ID is not compared, "id" a request whose ID is, "raw" bytes outside the *)
(* protocol, "write" a message that is not answered.                       *)
Exchanges(mechanism) ==
  CASE mechanism = "none" -> <<>>
    [] mechanism = "RAWPLAIN" -> <<"raw">>
    [] mechanism = "PLAIN" -> <<"hand", "raw">>
    [] mechanism \in {"PLAINv1", "OAUTHBEARER"} -> <<"hand", "id">>
    [] mechanism = "SCRAM" -> <<"hand", "id", "id">>
    [] mechanism = "GSSAPI" -> <<"raw", "write">>

OpenFails ==
  /\ conn' = "nil" /\ connErr' = TRUE /\ opened' = 0
  /\ lock' = "free" /\ opening' = <<"none">>
OpenSucceeds ==
  /\ lock' = "free" /\ opening' = <<"none">>
  /\ responses' = <<>>
  /\ recv' = "idle" /\ hold' = NoPromise /\ dead' = FALSE

(* A dial after which the lock is released before the authentication. *)
DialUnlocks ==
  /\ opening = <<"dial">>
  /\ \E mechanism \in Mechanisms \ {"none"} : opening' = <<"auth">> \o Exchanges(mechanism)
  /\ conn' = "up" /\ connErr' = FALSE
  /\ wire' = <<>> /\ replies' = <<>> /\ lock' = "free"
  /\ UNCHANGED <<opened, responses, recvVars, correlationID, invalid, callVars, counts>>
Dial ==
  /\ opening = <<"dial">>
  /\ \/ /\ Fault /\ OpenFails
        /\ UNCHANGED <<responses, recvVars, netVars>>
     \/ \E mechanism \in Mechanisms :
          /\ conn' = "up" /\ connErr' = FALSE
          /\ wire' = <<>> /\ replies' = <<>>
          /\ IF mechanism = "none" THEN OpenSucceeds
             ELSE opening' = <<"auth">> \o Exchanges(mechanism) /\ UNCHANGED <<lock, responses, recvVars>>
          /\ UNCHANGED <<opened, faults>>
  /\ UNCHANGED <<correlationID, invalid, callVars, requests, opens>>

(* One exchange of the authentication: what is written, with a deadline,   *)
(* and what is read, without one.                                          *)
Request(kind, req) == [id |-> correlationID, kind |-> kind, req |-> req]
AuthWrite ==
  /\ opening[1] = "auth"
  /\ \/ /\ Fault /\ OpenFails
        /\ UNCHANGED <<correlationID, responses, recvVars, wire>>
     \/ /\ wire' = Append(wire, Request(opening[2], None))
        /\ correlationID' = correlationID + (IF opening[2] \in {"hand", "id"} THEN 1 ELSE 0)
        /\ IF opening[2] = "write" THEN OpenSucceeds
           ELSE opening' = [opening EXCEPT ![1] = "read"] /\ UNCHANGED <<lock, responses, recvVars>>
        /\ UNCHANGED <<brokerVars, conn, faults>>
  /\ UNCHANGED <<invalid, callVars, replies, requests, opens>>
AuthRead ==
  /\ opening[1] = "read" /\ replies # <<>>
  /\ replies' = Tail(replies)
  /\ IF opening[2] = "id" /\ Head(replies).id # correlationID - 1
     THEN OpenFails /\ UNCHANGED <<responses, recvVars>>
     ELSE /\ UNCHANGED <<brokerVars, conn>>
          /\ IF Len(opening) = 2 THEN OpenSucceeds
             ELSE opening' = <<"auth">> \o SubSeq(opening, 3, Len(opening)) /\ UNCHANGED <<lock, responses, recvVars>>
  /\ UNCHANGED <<correlationID, invalid, callVars, wire, counts>>
(* The connection breaks, or the server refuses. *)
AuthReadFails ==
  /\ opening[1] = "read" /\ Fault /\ OpenFails
  /\ UNCHANGED <<correlationID, responses, invalid, callVars, recvVars, netVars, requests, opens>>

-----------------------------------------------------------------------------
Call(c) ==
  /\ at[c] \in {"idle", "ok", "error"} /\ requests < MaxRequests
  /\ requests' = requests + 1
  /\ at' = [at EXCEPT ![c] = "send"]
  /\ want' = [want EXCEPT ![c] = requests'] /\ got' = [got EXCEPT ![c] = None]
  /\ UNCHANGED <<brokerVars, lock, conn, correlationID, responses, opening, invalid, torn, recvVars, netVars, opens, faults>>

(* The capacity of the channel b.responses; a receiver that waits takes    *)
(* one more.                                                               *)
ResponsesCap == MaxOpenRequests - 1
HasPlace == Len(responses) < ResponsesCap + (IF recv = "idle" THEN 1 ELSE 0)

(* send.  A request that is invalid before the write changes nothing; one  *)
(* whose write fails may have left a part of itself on the connection, and *)
(* the next request gets the same correlation ID.                          *)
Promised(c, id) == [id |-> id, caller |-> c]
Promise(c) ==
  /\ IF HasPlace THEN /\ responses' = Append(responses, Promised(c, correlationID))
                      /\ at' = [at EXCEPT ![c] = "waiting"] /\ lock' = "free"
     ELSE at' = [at EXCEPT ![c] = "blocked"] /\ lock' = c /\ UNCHANGED responses
Send(c) ==
  /\ at[c] = "send" /\ lock = "free"
  /\ \/ /\ at' = [at EXCEPT ![c] = "error"]
        /\ UNCHANGED <<lock, correlationID, responses, torn, wire, faults>>
     \/ /\ conn = "up" /\ Fault
        /\ at' = [at EXCEPT ![c] = "error"]
        /\ wire' = Append(wire, Request("part", want[c])) /\ torn' = torn \cup {want[c]}
        /\ UNCHANGED <<lock, correlationID, responses>>
     \/ /\ conn = "up"
        /\ wire' = Append(wire, Request("call", want[c]))
        /\ correlationID' = correlationID + 1
        /\ Promise(c)
        /\ UNCHANGED <<torn, faults>>
     \/ /\ conn = "up"
        /\ wire' = Append(wire, Request("oneway", want[c]))
        /\ correlationID' = correlationID + 1
        /\ at' = [at EXCEPT ![c] = "idle"]
        /\ UNCHANGED <<lock, responses, torn, faults>>
  /\ UNCHANGED <<brokerVars, conn, opening, invalid, want, got, recvVars, replies, requests, opens>>
SendUnblocked(c) ==
  /\ at[c] = "blocked" /\ HasPlace
  /\ responses' = Append(responses, Promised(c, correlationID - 1))
  /\ at' = [at EXCEPT ![c] = "waiting"] /\ lock' = "free"
  /\ UNCHANGED <<brokerVars, conn, correlationID, opening, invalid, want, got, torn, recvVars, netVars, counts>>

-----------------------------------------------------------------------------
(* responseReceiver: the next promise, and the outcome it hands over on    *)
(* the promise's channels.                                                 *)
Fails(promise) == at' = [at EXCEPT ![promise.caller] = "error"] /\ UNCHANGED got
Answers(promise, reply) ==
  /\ at' = [at EXCEPT ![promise.caller] = "ok"]
  /\ got' = [got EXCEPT ![promise.caller] = reply.req]
(* A receiver that stops at its first error. *)
TakeStops ==
  /\ recv = "idle" /\ responses # <<>> /\ ~dead
  /\ responses' = Tail(responses)
  /\ recv' = "reading" /\ hold' = Head(responses)
  /\ UNCHANGED <<brokerVars, lock, conn, correlationID, opening, invalid, dead, callVars, netVars, counts>>
Take ==
  /\ recv = "idle" /\ responses # <<>>
  /\ responses' = Tail(responses)
  /\ IF dead THEN Fails(Head(responses)) /\ UNCHANGED recvVars
     ELSE recv' = "reading" /\ hold' = Head(responses) /\ UNCHANGED <<dead, at, got>>
  /\ UNCHANGED <<brokerVars, lock, conn, correlationID, opening, invalid, want, torn, netVars, counts>>
(* A receiver that does not compare the correlation IDs. *)
ReceiveUnchecked ==
  /\ recv = "reading" /\ replies # <<>>
  /\ replies' = Tail(replies)
  /\ recv' = "idle" /\ hold' = NoPromise
  /\ Answers(hold, Head(replies))
  /\ UNCHANGED <<brokerVars, lock, conn, correlationID, responses, opening, invalid, want, torn, dead, wire, counts>>
Receive ==
  /\ recv = "reading" /\ replies # <<>>
  /\ replies' = Tail(replies)
  /\ recv' = "idle" /\ hold' = NoPromise
  /\ IF Head(replies).id # hold.id THEN dead' = TRUE /\ Fails(hold)
     ELSE Answers(hold, Head(replies)) /\ UNCHANGED dead
  /\ UNCHANGED <<brokerVars, lock, conn, correlationID, responses, opening, invalid, want, torn, wire, counts>>
(* The deadline passes, or the header or the body cannot be read. *)
ReceiveFails ==
  /\ recv = "reading"
  /\ recv' = "idle" /\ hold' = NoPromise /\ dead' = TRUE /\ Fails(hold)
  /\ UNCHANGED <<brokerVars, lock, conn, correlationID, responses, opening, invalid, want, torn, netVars, counts>>

-----------------------------------------------------------------------------
Close ==
  /\ lock = "free" /\ conn = "up"
  /\ lock' = "close"
  /\ UNCHANGED <<brokerVars, conn, correlationID, responses, opening, invalid, callVars, recvVars, netVars, counts>>
(* responseReceiver ends when the closed channel is empty. *)
ReceiverDoneEarly == recv = "idle"
ReceiverDone == recv = "idle" /\ responses = <<>>
CloseDone ==
  /\ lock = "close" /\ ReceiverDone
  /\ conn' = "nil" /\ connErr' = FALSE /\ opened' = 0 /\ lock' = "free"
  /\ recv' = "none" /\ hold' = NoPromise /\ dead' = FALSE
  /\ wire' = <<>> /\ replies' = <<>> /\ responses' = <<>>
  /\ UNCHANGED <<correlationID, opening, invalid, callVars, counts>>

-----------------------------------------------------------------------------
(* The server: it answers in order, or out of order as a fault.  It        *)
(* completes a part of a request with the bytes that follow, and answers   *)
(* that; nothing behind them can be understood.                            *)
Reply(request) == [id |-> request.id, req |-> request.req]
ServeTorn ==
  /\ Len(wire) > 1 /\ wire[1].kind = "part"
  /\ wire' = <<[wire[1] EXCEPT !.kind = "rest"]>>
  /\ replies' = Append(replies, Reply(wire[1]))
  /\ UNCHANGED <<brokerVars, lock, conn, correlationID, responses, opening, invalid, callVars, recvVars, counts>>
Serve ==
  /\ wire # <<>> /\ Head(wire).kind \notin {"part", "rest"}
  /\ wire' = Tail(wire)
  /\ replies' = IF Head(wire).kind \in {"oneway", "write"} THEN replies ELSE Append(replies, Reply(Head(wire)))
  /\ UNCHANGED <<brokerVars, lock, conn, correlationID, responses, opening, invalid, callVars, recvVars, counts>>
ServeOutOfOrder ==
  /\ Len(wire) > 1 /\ wire[1].kind = "call" /\ wire[2].kind = "call"
  /\ Fault
  /\ wire' = <<wire[1]>> \o SubSeq(wire, 3, Len(wire))
  /\ replies' = Append(replies, Reply(wire[2]))
  /\ UNCHANGED <<brokerVars, lock, conn, correlationID, responses, opening, invalid, callVars, recvVars, requests, opens>>

Next ==
  \/ \E valid \in BOOLEAN : Open(valid)
  \/ OpenLock \/ Dial \/ AuthWrite \/ AuthRead \/ AuthReadFails
  \/ \E c \in Callers : Call(c) \/ Send(c) \/ SendUnblocked(c)
  \/ Take \/ Receive \/ ReceiveFails
  \/ Close \/ CloseDone
  \/ Serve \/ ServeTorn \/ ServeOutOfOrder

Spec == Init /\ [][Next]_vars

(* Goroutines run; a mutex is not starved; a dial, a write and a read of   *)
(* the receiver have deadlines.  The server need not answer.               *)
Fairness ==
  /\ WF_vars(Dial) /\ WF_vars(AuthWrite) /\ WF_vars(AuthRead)
  /\ SF_vars(OpenLock)
  /\ \A c \in Callers : SF_vars(Send(c)) /\ WF_vars(SendUnblocked(c))
  /\ WF_vars(Take) /\ WF_vars(Receive \/ ReceiveFails) /\ WF_vars(CloseDone)
FairSpec == Spec /\ Fairness

-----------------------------------------------------------------------------
Outstanding == {c \in Callers : at[c] \in {"blocked", "waiting"}}

(* A caller that gets a response gets the one to its own request, whatever *)
(* the order in which the server answers, however writes fail and however  *)
(* often the connection is made anew (send numbers the requests,           *)
(* responseReceiver compares the numbers).  Except that a request of which *)
(* a part was written has the correlation ID of the one that follows       *)
(* (broker.go:688-693): an answer to it is taken for that one's, and no    *)
(* other answer is.                                                        *)
NoCrossedReply == \A c \in Callers : at[c] = "ok" => got[c] \in {want[c]} \cup torn

(* No request but those of the authentication is written to a connection   *)
(* that is still being authenticated (Open keeps the lock until then).     *)
AuthFirst ==
  opening[1] \in {"auth", "read"} =>
    \A i \in 1..Len(wire) : wire[i].kind \in {"hand", "id", "raw"}

(* Once Close returned, or Open failed, the broker is as a new one: nobody *)
(* waits for a promise of that connection, no receiver is left reading     *)
(* from it (Close waits for b.done), and the flag opened, on which Open    *)
(* returns ErrAlreadyConnected (broker.go:129), is not set, except after   *)
(* an Open with an invalid configuration (broker.go:143).  Until then at   *)
(* most MaxOpenRequests and one more wait for a response: send queues the  *)
(* promise after it wrote the request.  config.go:32-33 does not mention   *)
(* the one more.                                                           *)
ClosedOwesNothing ==
  /\ conn = "nil" => Outstanding = {} /\ recv = "none" /\ (opened = 1 => opening # <<"none">> \/ invalid)
  /\ Cardinality(Outstanding) <= MaxOpenRequests + 1

(* Every call of sendAndReceive returns, also when the server is silent    *)
(* (config.go:40, ReadTimeout).  Except while Open, which holds the lock,  *)
(* reads in the authentication: without a deadline (broker.go:888).  A     *)
(* dial through a proxy (broker.go:162) has none either and is taken to    *)
(* end.                                                                    *)
CallersReturn == \A c \in Callers : at[c] = "send" ~> at[c] \in {"idle", "ok", "error"} \/ opening[1] = "read"
=============================================================================
