---------------------------- MODULE PriorityQueue ----------------------------
(***************************************************************************)
(* lib/priority_queue.go: one list per priority and one set of the bodies  *)
(* that wait in any of them.  Push and Pop are Lua scripts, so each is one *)
(* step.  The field Unique is stored and never read.                       *)
(***************************************************************************)
EXTENDS Integers, Sequences, SequencesExt, FiniteSets

CONSTANTS Bodies,
          Wanted,      \* the priority that NewPriorityQueue is called with
          Priorities,  \* the priorities that Push is called with
          MaxPushes    \* bound: calls of Push

VARIABLES lists,       \* the lists q_<priority>
          set,         \* the set q_set
          pushes,      \* calls of Push so far
          popped       \* the last answer of Pop
vars == <<lists, set, pushes, popped>>

DEFAULT_PRIORITY == 1
Nothing == "nothing"
Priority == IF Wanted < 0 THEN DEFAULT_PRIORITY ELSE Wanted

Init ==
  /\ lists = [p \in Priorities |-> <<>>]
  /\ set = {}
  /\ pushes = 0
  /\ popped = Nothing

Push(b, p) ==
  /\ pushes < MaxPushes
  /\ pushes' = pushes + 1
  /\ set' = set \cup {b}
  /\ lists' = IF b \in set THEN lists ELSE [lists EXCEPT ![p] = Append(@, b)]
  /\ UNCHANGED popped

(* The loop of the script looks at the lists 1 to Priority. *)
Scanned == {p \in Priorities : 1 <= p /\ p <= Priority}
Full == {p \in Scanned : lists[p] # <<>>}
(* A Pop that forgets the set. *)
PopKeepsSet ==
  /\ popped' = IF Full = {} THEN Nothing ELSE Head(lists[CHOOSE p \in Full : \A q \in Full : p <= q])
  /\ lists' = [p \in Priorities |-> IF p \in Full /\ \A q \in Full : p <= q THEN Tail(lists[p]) ELSE lists[p]]
  /\ UNCHANGED <<set, pushes>>
Pop ==
  /\ popped' = IF Full = {} THEN Nothing ELSE Head(lists[CHOOSE p \in Full : \A q \in Full : p <= q])
  /\ lists' = [p \in Priorities |-> IF p \in Full /\ \A q \in Full : p <= q THEN Tail(lists[p]) ELSE lists[p]]
  /\ set' = set \ {popped'}
  /\ UNCHANGED pushes

Next == Pop \/ \E b \in Bodies, p \in Priorities : Push(b, p)
Spec == Init /\ [][Next]_vars

-----------------------------------------------------------------------------
Places(b) == {<<p, i>> \in Priorities \X (1..MaxPushes) : i <= Len(lists[p]) /\ lists[p][i] = b}

(* FilteredIffWaiting: a body is in the set exactly when it waits, once,   *)
(* in one of the lists; so Push filters a body exactly while Pop has not   *)
(* returned it (priority_queue.go:10, :23).                                *)
FilteredIffWaiting ==
  \A b \in Bodies : Cardinality(Places(b)) = IF b \in set THEN 1 ELSE 0

=============================================================================
