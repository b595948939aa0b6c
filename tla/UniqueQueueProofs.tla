------------------------- MODULE UniqueQueueProofs -------------------------
(***************************************************************************)
(* The guarantees of the de-duplicating queue, for any number of queues,   *)
(* bodies, clients and calls of Clear.                                     *)
(***************************************************************************)
EXTENDS UniqueQueue, ListLemmas

\* The types of the queue's state are preserved by every script and command.
THEOREM QueueTypes == Spec => []TypeOK
<1>1. Init => TypeOK
  BY QueueAssumption DEF Init, TypeOK
<1>2. TypeOK /\ [Next]_vars => TypeOK'
  <2> SUFFICES ASSUME TypeOK, [Next]_vars PROVE TypeOK'
    OBVIOUS
  <2> USE DEF TypeOK
  <2>1. ASSUME NEW k \in Queues, NEW v \in Bodies, UniquePush(k, v) PROVE TypeOK'
    BY <2>1, AppendRange DEF UniquePush
  <2>2. ASSUME NEW k \in Queues, UniquePop(k) PROVE TypeOK'
    <3>1. Tail(q[k]) \in Seq(Bodies)
      BY <2>2, TailRange DEF UniquePop
    <3> QED
      BY <2>2, <3>1 DEF UniquePop
  <2>3. ASSUME NEW c \in Clients, NEW k \in Queues, ClearList(c, k) PROVE TypeOK'
    BY <2>3, QueueAssumption DEF ClearList
  <2>4. ASSUME NEW c \in Clients, ClearSet(c) PROVE TypeOK'
    BY <2>4 DEF ClearSet
  <2>5. ASSUME NEW c \in Clients, ClearSetFails(c) PROVE TypeOK'
    BY <2>5 DEF ClearSetFails
  <2>6. CASE UNCHANGED vars
    BY <2>6 DEF vars
  <2> QED
    BY <2>1, <2>2, <2>3, <2>4, <2>5, <2>6 DEF Next
<1> QED
  BY <1>1, <1>2, PTL DEF Spec

\* The list holds every body once and the set filters all of them, in every queue
\* whose set was never deleted under a non-empty list.
THEOREM QueueUnique == Spec => []UniqueWhileIntact
<1>1. Init => UniqueWhileIntact
  BY DEF Init, UniqueWhileIntact, IsInjective, Range
<1>2. TypeOK /\ UniqueWhileIntact /\ [Next]_vars => UniqueWhileIntact'
  <2> SUFFICES ASSUME TypeOK, UniqueWhileIntact, [Next]_vars,
                      NEW j \in Queues, j \notin torn'
               PROVE  IsInjective(q'[j]) /\ Range(q'[j]) \subseteq q_set'[j]
    BY DEF UniqueWhileIntact
  <2>1. q[j] \in Seq(Bodies) /\ q \in [Queues -> Seq(Bodies)] /\ q_set \in [Queues -> SUBSET Bodies]
    BY DEF TypeOK
  <2>2. ASSUME j \notin torn
        PROVE  IsInjective(q[j]) /\ Range(q[j]) \subseteq q_set[j]
    BY <2>2 DEF UniqueWhileIntact
  <2>3. IsInjective(<<>>) /\ Range(<<>>) = {}
    BY DEF IsInjective, Range
  <2>4. ASSUME NEW k \in Queues, NEW v \in Bodies, UniquePush(k, v)
        PROVE  IsInjective(q'[j]) /\ Range(q'[j]) \subseteq q_set'[j]
    <3>1. j \notin torn
      BY <2>4 DEF UniquePush
    <3>2. CASE v \in q_set[k] \/ j # k
      BY <2>1, <2>2, <2>4, <3>1, <3>2 DEF UniquePush, PushResp
    <3>3. CASE v \notin q_set[k] /\ j = k
      <4>1. q'[j] = Append(q[j], v) /\ q_set'[j] = q_set[j] \cup {v}
        BY <2>1, <2>4, <3>3 DEF UniquePush, PushResp
      <4> QED
        BY <2>1, <2>2, <3>1, <3>3, <4>1, AppendRange
    <3> QED
      BY <3>2, <3>3
  <2>5. ASSUME NEW k \in Queues, UniquePop(k)
        PROVE  IsInjective(q'[j]) /\ Range(q'[j]) \subseteq q_set'[j]
    <3>1. j \notin torn
      BY <2>5 DEF UniquePop
    <3>2. CASE j # k
      BY <2>1, <2>2, <2>5, <3>1, <3>2 DEF UniquePop
    <3>3. CASE j = k
      <4>1. /\ q[j] # <<>> /\ q'[j] = Tail(q[j])
            /\ q_set[j] \ {Head(q[j])} \subseteq q_set'[j]
        BY <2>1, <2>5, <3>3 DEF UniquePop
      <4> QED
        BY <2>1, <2>2, <3>1, <4>1, TailRange
    <3> QED
      BY <3>2, <3>3
  <2>6. ASSUME NEW c \in Clients, NEW k \in Queues, ClearList(c, k)
        PROVE  IsInjective(q'[j]) /\ Range(q'[j]) \subseteq q_set'[j]
    BY <2>1, <2>2, <2>3, <2>6 DEF ClearList
  <2>7. ASSUME NEW c \in Clients, ClearSet(c)
        PROVE  IsInjective(q'[j]) /\ Range(q'[j]) \subseteq q_set'[j]
    BY <2>1, <2>2, <2>3, <2>7 DEF ClearSet
  <2>8. ASSUME NEW c \in Clients, ClearSetFails(c)
        PROVE  IsInjective(q'[j]) /\ Range(q'[j]) \subseteq q_set'[j]
    BY <2>2, <2>8 DEF ClearSetFails
  <2>9. CASE UNCHANGED vars
    BY <2>2, <2>9 DEF vars
  <2> QED
    BY <2>4, <2>5, <2>6, <2>7, <2>8, <2>9 DEF Next
<1> QED
  BY QueueTypes, <1>1, <1>2, PTL DEF Spec

\* A filtered body is in the list, unless it is the empty string or a Clear is
\* half done: nothing else keeps a body from being pushed again.
THEOREM QueueNotStuck == Spec => []NoStuckBody
<1>1. Init => NoStuckBody
  BY DEF Init, NoStuckBody
<1>2. TypeOK /\ NoStuckBody /\ [Next]_vars => NoStuckBody'
  <2> SUFFICES ASSUME TypeOK, NoStuckBody, [Next]_vars,
                      NEW j \in Queues, NEW u \in q_set'[j],
                      u # Empty, j \notin halved', \A c \in Clients : clearing'[c] # j
               PROVE  u \in Range(q'[j])
    BY DEF NoStuckBody
  <2>1. /\ q[j] \in Seq(Bodies) /\ q \in [Queues -> Seq(Bodies)]
        /\ q_set \in [Queues -> SUBSET Bodies]
        /\ clearing \in [Clients -> Queues \cup {NoQueue}]
    BY DEF TypeOK
  <2>2. ASSUME u \in q_set[j], j \notin halved, \A c \in Clients : clearing[c] # j
        PROVE  u \in Range(q[j])
    BY <2>2 DEF NoStuckBody
  <2>3. ASSUME NEW k \in Queues, NEW v \in Bodies, UniquePush(k, v)
        PROVE  u \in Range(q'[j])
    <3>1. j \notin halved /\ \A c \in Clients : clearing[c] # j
      BY <2>3 DEF UniquePush
    <3>2. CASE v \in q_set[k] \/ j # k
      BY <2>1, <2>2, <2>3, <3>1, <3>2 DEF UniquePush, PushResp
    <3>3. CASE v \notin q_set[k] /\ j = k
      <4>1. q'[j] = Append(q[j], v) /\ q_set'[j] = q_set[j] \cup {v}
        BY <2>1, <2>3, <3>3 DEF UniquePush, PushResp
      <4> QED
        BY <2>1, <2>2, <3>1, <4>1, AppendRange
    <3> QED
      BY <3>2, <3>3
  <2>4. ASSUME NEW k \in Queues, UniquePop(k)
        PROVE  u \in Range(q'[j])
    <3>1. j \notin halved /\ \A c \in Clients : clearing[c] # j
      BY <2>4 DEF UniquePop
    <3>2. CASE j # k
      BY <2>1, <2>2, <2>4, <3>1, <3>2 DEF UniquePop
    <3>3. CASE j = k
      <4>1. /\ q[j] # <<>> /\ q'[j] = Tail(q[j])
            /\ u \in q_set[j] /\ u # Head(q[j])
        BY <2>1, <2>4, <3>3 DEF UniquePop
      <4> QED
        BY <2>1, <2>2, <3>1, <4>1, TailRange
    <3> QED
      BY <3>2, <3>3
  <2>5. ASSUME NEW c \in Clients, NEW k \in Queues, ClearList(c, k)
        PROVE  u \in Range(q'[j])
    <3>1. clearing[c] = NoQueue /\ clearing'[c] = k
      BY <2>1, <2>5 DEF ClearList
    <3>2. j # k
      BY <3>1
    <3>3. \A d \in Clients : clearing[d] # j
      BY <2>1, <2>5, <3>1, QueueAssumption DEF ClearList
    <3> QED
      BY <2>1, <2>2, <2>5, <3>2, <3>3 DEF ClearList
  <2>6. ASSUME NEW c \in Clients, ClearSet(c)
        PROVE  u \in Range(q'[j])
    <3>1. j # clearing[c]
      BY <2>1, <2>6 DEF ClearSet
    <3>2. \A d \in Clients : clearing[d] # j
      BY <2>1, <2>6, <3>1 DEF ClearSet
    <3> QED
      BY <2>1, <2>2, <2>6, <3>1, <3>2 DEF ClearSet
  <2>7. ASSUME NEW c \in Clients, ClearSetFails(c)
        PROVE  u \in Range(q'[j])
    <3>1. j # clearing[c]
      BY <2>1, <2>7 DEF ClearSetFails
    <3>2. \A d \in Clients : clearing[d] # j
      BY <2>1, <2>7, <3>1 DEF ClearSetFails
    <3> QED
      BY <2>2, <2>7, <3>2 DEF ClearSetFails
  <2>8. CASE UNCHANGED vars
    BY <2>2, <2>8 DEF vars
  <2> QED
    BY <2>3, <2>4, <2>5, <2>6, <2>7, <2>8 DEF Next
<1> QED
  BY QueueTypes, <1>1, <1>2, PTL DEF Spec
=============================================================================
