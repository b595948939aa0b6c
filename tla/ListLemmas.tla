---------------------------- MODULE ListLemmas ----------------------------
(***************************************************************************)
(* What the list commands of Redis, and sends and receives on a channel,   *)
(* do to the elements of a sequence.                                       *)
(***************************************************************************)
EXTENDS Naturals, Sequences, Functions, SequenceTheorems, TLAPS

\* What RPUSH does to the elements of a list.
LEMMA AppendRange ==
  ASSUME NEW S, NEW s \in Seq(S), NEW v \in S
  PROVE  /\ Append(s, v) \in Seq(S)
         /\ Range(Append(s, v)) = Range(s) \cup {v}
         /\ IsInjective(s) /\ v \notin Range(s) => IsInjective(Append(s, v))
<1>1. /\ Append(s, v) \in Seq(S)
      /\ DOMAIN s = 1..Len(s) /\ Len(s) \in Nat
      /\ DOMAIN Append(s, v) = 1..(Len(s) + 1)
      /\ \A n \in 1..Len(s) : Append(s, v)[n] = s[n]
      /\ Append(s, v)[Len(s) + 1] = v
  OBVIOUS
<1>2. Range(Append(s, v)) = Range(s) \cup {v}
  BY <1>1 DEF Range
<1>3. ASSUME IsInjective(s), v \notin Range(s)
      PROVE  IsInjective(Append(s, v))
  BY <1>1, <1>3 DEF Range, IsInjective
<1> QED
  BY <1>1, <1>2, <1>3

\* What LPOP does to the elements of a list.
LEMMA TailRange ==
  ASSUME NEW S, NEW s \in Seq(S), s # <<>>
  PROVE  /\ Tail(s) \in Seq(S) /\ Head(s) \in S
         /\ Range(s) = Range(Tail(s)) \cup {Head(s)}
         /\ IsInjective(s) => IsInjective(Tail(s)) /\ Head(s) \notin Range(Tail(s))
<1>1. /\ Tail(s) \in Seq(S) /\ Head(s) = s[1] /\ Head(s) \in S
      /\ DOMAIN s = 1..Len(s) /\ Len(s) \in Nat /\ Len(s) >= 1
      /\ DOMAIN Tail(s) = 1..(Len(s) - 1)
      /\ \A n \in 1..(Len(s) - 1) : Tail(s)[n] = s[n + 1]
  BY EmptySeq, HeadTailProperties, LenProperties
<1>2. Range(s) = Range(Tail(s)) \cup {Head(s)}
  <2>1. \A n \in 1..Len(s) : n = 1 \/ (n - 1 \in 1..(Len(s) - 1) /\ s[n] = Tail(s)[n - 1])
    BY <1>1
  <2>2. ASSUME NEW x \in Range(s) PROVE x \in Range(Tail(s)) \cup {Head(s)}
    <3>1. PICK n \in 1..Len(s) : x = s[n]
      BY <1>1 DEF Range
    <3>2. CASE n = 1
      BY <1>1, <3>1, <3>2
    <3>3. CASE n # 1
      BY <1>1, <2>1, <3>1, <3>3 DEF Range
    <3> QED
      BY <3>2, <3>3
  <2>3. ASSUME NEW x \in Range(Tail(s)) PROVE x \in Range(s)
    <3>1. PICK n \in 1..(Len(s) - 1) : x = Tail(s)[n]
      BY <1>1 DEF Range
    <3>2. n + 1 \in 1..Len(s) /\ x = s[n + 1]
      BY <1>1, <3>1
    <3> QED
      BY <1>1, <3>2 DEF Range
  <2>4. Head(s) \in Range(s)
    BY <1>1 DEF Range
  <2> QED
    BY <2>2, <2>3, <2>4
<1>3. ASSUME IsInjective(s)
      PROVE  IsInjective(Tail(s)) /\ Head(s) \notin Range(Tail(s))
  BY <1>1, <1>3 DEF Range, IsInjective
<1> QED
  BY <1>1, <1>2, <1>3

\* Appending an element that differs from all others under f keeps the elements
\* of a sequence different under f.
LEMMA AppendDistinct ==
  ASSUME NEW S, NEW s \in Seq(S), NEW v \in S, NEW t \in Seq(S), t = Append(s, v), NEW f,
         \A n \in 1..Len(s) : f[s[n]] # f[v],
         \A n, k \in 1..Len(s) : f[s[n]] = f[s[k]] => n = k
  PROVE  \A n, k \in 1..Len(t) : f[t[n]] = f[t[k]] => n = k
<1>1. /\ Len(s) \in Nat /\ Len(t) = Len(s) + 1
      /\ \A n \in 1..Len(s) : t[n] = s[n]
      /\ t[Len(s) + 1] = v
  OBVIOUS
<1>2. ASSUME NEW n \in 1..Len(t), NEW k \in 1..Len(t), f[t[n]] = f[t[k]]
      PROVE  n = k
  <2>1. n \in 1..Len(s) \/ n = Len(s) + 1
    BY <1>1
  <2>2. k \in 1..Len(s) \/ k = Len(s) + 1
    BY <1>1
  <2> QED
    BY <1>1, <1>2, <2>1, <2>2
<1> QED
  BY <1>2
=============================================================================
