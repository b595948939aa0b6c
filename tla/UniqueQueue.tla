----------------------------- MODULE UniqueQueue -----------------------------
(***************************************************************************)
(* The de-duplicating queue of lib/unique_queue.go.  A queue named k is    *)
(* two Redis keys: the list k and the set k_set that filters its pushes.   *)
(* UniquePush and UniquePop are Lua scripts, which Redis runs atomically;  *)
(* Clear is two DEL commands, between which other clients may run.         *)
(***************************************************************************)
EXTENDS Naturals, Sequences, Functions

CONSTANTS
  Queues,    \* the names of the queues
  Bodies,    \* the strings that can be pushed
  Empty,     \* the empty string ""
  NoQueue,   \* a client that is not inside Clear
  Clients,   \* the goroutines that call Clear
  MaxClears  \* bound: how often Clear is called

ASSUME QueueAssumption ==
  /\ NoQueue \notin Queues
  /\ MaxClears \in Nat

VARIABLES
  q,         \* q[k]: the Redis list k
  q_set,     \* q_set[k]: the Redis set k_set
  clearing,  \* clearing[c]: the queue whose list c has deleted, not yet its set
  clears,    \* number of calls of Clear so far
  torn,      \* history: queues whose set was deleted while their list had bodies
  halved     \* history: queues whose list was deleted but not their set

vars == <<q, q_set, clearing, clears, torn, halved>>

TypeOK ==
  /\ q \in [Queues -> Seq(Bodies)]
  /\ q_set \in [Queues -> SUBSET Bodies]
  /\ clearing \in [Clients -> Queues \cup {NoQueue}]
  /\ clears \in 0..MaxClears
  /\ torn \in SUBSET Queues
  /\ halved \in SUBSET Queues

Init ==
  /\ q = [k \in Queues |-> <<>>]
  /\ q_set = [k \in Queues |-> {}]
  /\ clearing = [c \in Clients |-> NoQueue]
  /\ clears = 0
  /\ torn = {}
  /\ halved = {}

-----------------------------------------------------------------------------

\* A filter that lets every body through (a lost SADD guard).
PushRespUnfiltered(k, v) == 1

\* What SCRIPT_PUSH returns: 1 when SADD added the body, 0 when it was filtered.
PushResp(k, v) == IF v \in q_set[k] THEN 0 ELSE 1

\* SCRIPT_PUSH: SADD on the set, RPUSH on the list only when SADD added.
UniquePush(k, v) ==
  /\ q_set' = [q_set EXCEPT ![k] = @ \cup {v}]
  /\ q' = IF PushResp(k, v) = 1 THEN [q EXCEPT ![k] = Append(@, v)] ELSE q
  /\ UNCHANGED <<clearing, clears, torn, halved>>

\* A pop that forgets the SREM.
UniquePopKeepsSet(k) ==
  /\ q[k] # <<>>
  /\ q' = [q EXCEPT ![k] = Tail(@)]
  /\ UNCHANGED <<q_set, clearing, clears, torn, halved>>

\* SCRIPT_POP.  The empty string leaves the list but not the set.  On an empty
\* list LPOP yields false, SREM rejects it and nothing changes.
UniquePop(k) ==
  /\ q[k] # <<>>
  /\ q' = [q EXCEPT ![k] = Tail(@)]
  /\ q_set' = [q_set EXCEPT ![k] = IF Head(q[k]) # Empty THEN @ \ {Head(q[k])} ELSE @]
  /\ UNCHANGED <<clearing, clears, torn, halved>>

\* The first DEL of Clear.  Had it failed, Clear would have returned with
\* nothing changed.
ClearList(c, k) ==
  /\ clearing[c] = NoQueue
  /\ clears < MaxClears
  /\ clears' = clears + 1
  /\ q' = [q EXCEPT ![k] = <<>>]
  /\ clearing' = [clearing EXCEPT ![c] = k]
  /\ UNCHANGED <<q_set, torn, halved>>

\* The second DEL of Clear, on getQueueSet(q).
ClearSet(c) ==
  /\ clearing[c] # NoQueue
  /\ q_set' = [q_set EXCEPT ![clearing[c]] = {}]
  /\ clearing' = [clearing EXCEPT ![c] = NoQueue]
  /\ torn' = IF q[clearing[c]] # <<>> THEN torn \cup {clearing[c]} ELSE torn
  /\ UNCHANGED <<q, clears, halved>>

\* The second DEL fails: Clear returns the error, the set survives.
ClearSetFails(c) ==
  /\ clearing[c] # NoQueue
  /\ clearing' = [clearing EXCEPT ![c] = NoQueue]
  /\ halved' = halved \cup {clearing[c]}
  /\ UNCHANGED <<q, q_set, clears, torn>>

Next ==
  \/ \E k \in Queues, v \in Bodies : UniquePush(k, v)
  \/ \E k \in Queues : UniquePop(k)
  \/ \E c \in Clients, k \in Queues : ClearList(c, k)
  \/ \E c \in Clients : ClearSet(c)
  \/ \E c \in Clients : ClearSetFails(c)

Spec == Init /\ [][Next]_vars

-----------------------------------------------------------------------------

\* The list of a queue holds every body once and the set filters all of them,
\* unless some Clear deleted the set after a push had slipped between its two
\* DELs (UniquePush's "return 0, not push, set filter").
UniqueWhileIntact ==
  \A k \in Queues : k \notin torn =>
    /\ IsInjective(q[k])
    /\ Range(q[k]) \subseteq q_set[k]

\* A body the set filters is in the list, so that a later UniquePop lets it be
\* pushed again.  The exceptions: the empty string once popped, a Clear in
\* progress, and a Clear whose second DEL failed.
NoStuckBody ==
  \A k \in Queues : \A v \in q_set[k] :
    \/ v \in Range(q[k])
    \/ v = Empty
    \/ k \in halved
    \/ \E c \in Clients : clearing[c] = k

=============================================================================
