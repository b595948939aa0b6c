------------------------------ MODULE KafkaWire ------------------------------
(***************************************************************************)
(* Kafka's binary format as kafka/real_encoder.go, prep_encoder.go and     *)
(* real_decoder.go define it.                                              *)
(*                                                                         *)
(* A message's encode(pe) runs twice: the prepEncoder only adds up the     *)
(* length, then the realEncoder writes into a buffer of exactly that       *)
(* length.  Here encode is the sequence of calls it makes on pe, which     *)
(* Prep and Real interpret.  A buffer is a sequence of units: w bytes      *)
(* that hold the value v of type t.  A string or a byte slice is its       *)
(* length n and an identity; Nil has length -1, as on the wire.            *)
(***************************************************************************)
EXTENDS Integers, SequencesExt, FiniteSetsExt, TLC

MaxInt16 == 32767
MaxUint16 == 65535
MaxRequestSize == 100 * 1024 * 1024
Millisecond == 10          \* durations count tenths of a millisecond

ZeroTime == -1
NoReplica == [set |-> FALSE, id |-> 0]

Nil == [n |-> -1, id |-> <<>>]
Empty == [n |-> 0, id |-> <<>>]

Unit(w, t, v) == <<w, t, v>>    \* width, kind, value
RECURSIVE Size(_)
Size(u) == IF u = <<>> THEN 0 ELSE u[1][1] + Size(Tail(u))

(* The bytes of a buffer from the n-th on, and the n first ones; a unit    *)
(* that the boundary splits becomes an unreadable piece.                   *)
RECURSIVE Drop(_, _)
Drop(u, n) == CASE n = 0 \/ u = <<>> -> u
                [] n > 0 /\ u # <<>> /\ u[1][1] <= n -> Drop(Tail(u), n - u[1][1])
                [] OTHER -> <<Unit(u[1][1] - n, "piece", 0)>> \o Tail(u)
RECURSIVE Take(_, _)
Take(u, n) == CASE n = 0 \/ u = <<>> -> <<>>
                [] n > 0 /\ u # <<>> /\ u[1][1] <= n -> <<u[1]>> \o Take(Tail(u), n - u[1][1])
                [] OTHER -> <<Unit(n, "piece", 0)>>

(* binary.PutVarint: zigzag, seven bits to a byte. *)
RECURSIVE Base128(_)
Base128(n) == IF n < 128 THEN 1 ELSE 1 + Base128(n \div 128)
VarintLen(x) == Base128(IF x >= 0 THEN 2 * x ELSE -2 * x - 1)

-----------------------------------------------------------------------------
(* The calls of packetEncoder. *)
Call(op, v) == [op |-> op, v |-> v]
PutInt8(x) == <<Call("int8", x)>>
PutInt16(x) == <<Call("int16", x)>>
PutInt32(x) == <<Call("int32", x)>>
PutInt64(x) == <<Call("int64", x)>>
PutVarint(x) == <<Call("varint", x)>>
PutBool(b) == <<Call("bool", b)>>
PutString(s) == <<Call("string", s)>>
PutNullableString(s) == <<Call("nullable", s)>>
PutBytes(b) == <<Call("bytes", b)>>
PutVarintBytes(b) == <<Call("varintbytes", b)>>
PutArrayLength(n) == <<Call("arraylength", n)>>
(* The bytes u in a buffer of n, which are the same number if encode is    *)
(* right.                                                                  *)
PutRaw(b) == <<Call("raw", b)>>
PutMillis(d) == PutInt32(d \div Millisecond)
(* putString where encode answers an error with "return nil". *)
PutStringQuietly(s) == <<Call("quiet", s)>>
(* An encode that returns an error of its own: a time before the epoch,    *)
(* except the zero time, or an unsupported version.                        *)
Fail == <<Call("fail", 0)>>
PutTime(t) == CASE t >= 0 -> PutInt64(t \div Millisecond)
                [] t = ZeroTime -> PutInt64(-1)
                [] OTHER -> Fail
(* push(&lengthField{}), push(newCRC32Field(..)), push(&r.length), pop(). *)
Push(field) == <<Call("push", field)>>
Pop == <<Call("pop", 0)>>

(* putArrayLength(len(s)) and a loop over s; over a map, in some order.    *)
PutEach(s, Encode(_)) == FlattenSeq([i \in DOMAIN s |-> Encode(s[i])])
PutArray(s, Encode(_)) == PutArrayLength(Len(s)) \o PutEach(s, Encode)
PutStringArray(s) == PutArray(s, PutString)
PutInt32Array(s) == PutArray(s, PutInt32)
PutInt64Array(s) == PutArray(s, PutInt64)
PutMap(m, Encode(_, _)) == PutArray(SetToSeq(DOMAIN m), LAMBDA k : Encode(k, m[k]))
(* A map from topics to maps from partitions to blocks. *)
PutTopics(m, Encode(_)) ==
  PutMap(m, LAMBDA topic, ps : PutString(topic) \o PutMap(ps.v, LAMBDA p, b : PutInt32(p) \o Encode(b)))

Width == [int8 |-> 1, int16 |-> 2, int32 |-> 4, int64 |-> 8, bool |-> 1,
          arraylength |-> 4]
Put == {"string", "nullable", "quiet"}
Int16(n) == ((n + MaxInt16 + 1) % (MaxUint16 + 1)) - MaxInt16 - 1
Body(s) == IF s.n > 0 THEN <<Unit(s.n, "raw", s)>> ELSE <<>>

(* adjustLength: the field grows once the length is known.  A version that *)
(* forgets this.                                                           *)
NoGrowth(body) == 0
adjustLength(body) == VarintLen(body) - VarintLen(0)

(* prepEncoder: a string above MaxInt16 is an error after its two length   *)
(* bytes are counted; the rest of encode is then not run.                  *)
PrepCall(p, c) ==
  CASE c.op = "fail" -> [p EXCEPT !.stop = TRUE, !.err = TRUE]
    [] c.op \in DOMAIN Width -> [p EXCEPT !.len = @ + Width[c.op]]
    [] c.op = "varint" -> [p EXCEPT !.len = @ + VarintLen(c.v)]
    [] c.op \in Put /\ c.v.n > MaxInt16 ->
         [p EXCEPT !.len = @ + 2, !.stop = TRUE, !.err = c.op # "quiet"]
    [] c.op \in Put -> [p EXCEPT !.len = @ + 2 + (IF c.v.n > 0 THEN c.v.n ELSE 0)]
    [] c.op = "bytes" -> [p EXCEPT !.len = @ + 4 + (IF c.v.n > 0 THEN c.v.n ELSE 0)]
    [] c.op = "varintbytes" -> [p EXCEPT !.len = @ + VarintLen(c.v.n) + (IF c.v.n > 0 THEN c.v.n ELSE 0)]
    [] c.op = "raw" -> [p EXCEPT !.len = @ + c.v.n]
    [] c.op = "push" /\ c.v # "varint" ->
         [p EXCEPT !.len = @ + 4, !.stack = Append(@, <<c.v, p.len>>)]
    \* varintLengthField.reserveLength of a length that is still zero
    [] c.op = "push" /\ c.v = "varint" ->
         [p EXCEPT !.len = @ + VarintLen(0), !.stack = Append(@, <<c.v, p.len>>)]
    [] c.op = "pop" ->
         LET top == Last(p.stack)
             body == p.len - top[2] - VarintLen(0)
         IN  IF top[1] = "varint"
             THEN [p EXCEPT !.stack = Front(@), !.lengths = Append(@, body),
                            !.len = @ + adjustLength(body)]
             ELSE [p EXCEPT !.stack = Front(@)]
NewPrep == [len |-> 0, stack |-> <<>>, lengths |-> <<>>, stop |-> FALSE, err |-> FALSE]
RECURSIVE PrepAll(_, _)
PrepAll(p, calls) == IF p.stop \/ calls = <<>> THEN p ELSE PrepAll(PrepCall(p, Head(calls)), Tail(calls))
Prep(calls) == PrepAll(NewPrep, calls)

(* realEncoder: no length is checked here.  A pop fills the reserved unit  *)
(* with the number of bytes, or with the checksum, of what follows it; a   *)
(* checksum is taken to determine what it was computed from.  A varint     *)
(* length was left in its field by the first pass.                         *)
RealCall(r, c) ==
  CASE c.op \in DOMAIN Width -> [r EXCEPT !.raw = Append(@, Unit(Width[c.op], "int",
                                   IF c.op = "bool" THEN (IF c.v THEN 1 ELSE 0) ELSE c.v))]
    [] c.op = "varint" -> [r EXCEPT !.raw = Append(@, Unit(VarintLen(c.v), "varint", c.v))]
    [] c.op \in Put -> [r EXCEPT !.raw = Append(@, Unit(2, "int", Int16(c.v.n))) \o Body(c.v)]
    [] c.op = "bytes" -> [r EXCEPT !.raw = Append(@, Unit(4, "int", c.v.n)) \o Body(c.v)]
    [] c.op = "varintbytes" -> [r EXCEPT !.raw = Append(@, Unit(VarintLen(c.v.n), "varint", c.v.n)) \o Body(c.v)]
    [] c.op = "raw" -> [r EXCEPT !.raw = @ \o c.v.u]
    [] c.op = "push" /\ c.v # "varint" ->
         [r EXCEPT !.raw = Append(@, Unit(4, "int", 0)),
                   !.stack = Append(@, <<c.v, Len(r.raw) + 1>>)]
    [] c.op = "push" /\ c.v = "varint" ->
         [r EXCEPT !.raw = Append(@, Unit(VarintLen(Head(r.lengths)), "varint", Head(r.lengths))),
                   !.stack = Append(@, <<c.v, Len(r.raw) + 1>>), !.lengths = Tail(@)]
    [] c.op = "pop" ->
         LET top == Last(r.stack)
             after == SubSeq(r.raw, top[2] + 1, Len(r.raw))
         IN  CASE top[1] = "length" -> [r EXCEPT !.stack = Front(@), !.raw[top[2]][3] = Size(after)]
               [] top[1] = "varint" -> [r EXCEPT !.stack = Front(@)]
               [] OTHER -> [r EXCEPT !.stack = Front(@), !.raw[top[2]] = Unit(4, top[1], after)]
NewReal(prep) == [raw |-> <<>>, stack |-> <<>>, lengths |-> prep.lengths]
RECURSIVE RealAll(_, _, _)
RealAll(r, calls, len) == IF Size(r.raw) > len \/ calls = <<>> THEN r
                          ELSE RealAll(RealCall(r, Head(calls)), Tail(calls), len)
Real(calls, prep) == RealAll(NewReal(prep), calls, prep.len).raw

(* encode(): no buffer when the first pass fails or the size is refused. *)
Refused(prep) == prep.err \/ prep.len > MaxRequestSize

-----------------------------------------------------------------------------
(* A decode() is a program of get calls: the call, the field it fills and, *)
(* for a loop or a nested structure, the program of the element.           *)
Get(op, f) == <<[op |-> op, f |-> f]>>
GetInt8(f) == Get("int8", f)
GetInt16(f) == Get("int16", f)
GetInt32(f) == Get("int32", f)
GetInt64(f) == Get("int64", f)
GetBool(f) == Get("bool", f)
GetString(f) == Get("string", f)
GetNullableString(f) == Get("nullable", f)
GetBytes(f) == Get("bytes", f)
GetVarint(f) == Get("varint", f)
GetVarintBytes(f) == Get("varintbytes", f)
GetStringArray(f) == Get("strings", f)
GetInt32Array(f) == Get("ints32", f)
GetInt64Array(f) == Get("ints64", f)
GetMillis(f) == Get("millis", f)
GetArray(f, of) == <<[op |-> "array", f |-> f, of |-> of]>>
GetMap(f, key, of) == <<[op |-> "map", f |-> f, key |-> key, of |-> of]>>
GetStruct(f, of) == <<[op |-> "struct", f |-> f, of |-> of]>>
GetTopics(f, of) == GetMap(f, "string", GetMap("v", "int32", of))
(* Loops over a length that may be -1, read by getInt32 or getArrayLength. *)
GetCountedStrings(f) == Get("counted strings", f)
GetOptionalStrings(f) == Get("optional strings", f)
GetVarintArray(f, of) == <<[op |-> "varint array", f |-> f, of |-> of]>>
GetLength(f) == Get("arraylength", f)
GetCountedArray(f, of) == <<[op |-> "counted array", f |-> f, of |-> of]>>
(* A map that stays nil for a negative length, or for zero if zeroIsNil.   *)
GetNullableMap(f, key, of, zeroIsNil) ==
  <<[op |-> "nullable map", f |-> f, key |-> key, of |-> of, zeroIsNil |-> zeroIsNil]>>
(* The field f maps key to value of each element of the array "from".      *)
IndexBy(f, from, key, value) == <<[op |-> "index", f |-> f, from |-> from, key |-> key, v |-> value]>>
(* Fields filled from other fields. *)
ListOf(f, from) == <<[op |-> "list", f |-> f, from |-> from]>>
CopyField(f, from) == <<[op |-> "copy", f |-> f, from |-> from]>>
(* An address ":0" stands for no broker. *)
ForgetBroker(f, nil) == <<[op |-> "forget", f |-> f, nil |-> nil]>>
GetTime(f) == Get("time", f)
SkipInt32 == Get("skip", "")
(* push and pop of a length or checksum field, a field read only when the  *)
(* field "on" has the value "is", the bits of an attribute byte, and the   *)
(* bytes that a length sets apart.                                         *)
PushField(kind) == Get("push", kind)
PopField == Get("pop", "")
GetIf(on, is, of) == <<[op |-> "if", f |-> on, is |-> is, of |-> of]>>
GetAttributes(f, mask) == <<[op |-> "attributes", f |-> f, mask |-> mask]>>
GetSubset(f) == Get("subset", f)
(* An error inside is answered with "return nil". *)
GetQuietly(of) == <<[op |-> "quiet", f |-> "", of |-> of]>>
SetField(f, v) == <<[op |-> "set", f |-> f, v |-> v]>>
When(cond, s) == IF cond THEN s ELSE <<>>

(* The outcome of one get call: the value, the error and what remains.     *)
(* "garbled" is a read that does not match what was written there.         *)
Got(v, u) == [v |-> v, err |-> "none", u |-> u]
Failed(err, u) == [v |-> 0, err |-> err, u |-> u]
Insufficient == Failed("insufficient", <<>>)
(* "if err != nil { return err }" between a call and what uses its value.  *)
Then(g, Use(_)) == IF g.err = "none" THEN Use(g) ELSE g

Fixed(u, w) == CASE Size(u) < w -> Insufficient
                 [] Size(u) >= w /\ u[1][1] = w /\ u[1][2] = "int" -> Got(u[1][3], Tail(u))
                 [] OTHER -> Failed("garbled", u)
ReadVarint(u) == CASE u = <<>> \/ (u # <<>> /\ u[1][2] = "piece") -> Insufficient
                   [] u # <<>> /\ u[1][2] = "varint" -> Got(u[1][3], Tail(u))
                   [] OTHER -> Failed("garbled", u)
(* A getRawBytes that does not look how much is left. *)
UncheckedRawBytes(u, n) == CASE n < 0 -> Failed("invalid", u)
                             [] n > Size(u) -> Failed("panic", u)
                             [] n = 0 -> Got(Empty, u)
                             [] n > 0 /\ n <= Size(u) -> Got(u[1][3], Tail(u))
RawBytes(u, n) == CASE n < 0 -> Failed("invalid", u)
                    [] n > Size(u) -> Insufficient
                    [] n = 0 -> Got(Empty, u)
                    [] n > 0 /\ n <= Size(u) /\ u[1][1] = n /\ u[1][2] = "raw" -> Got(u[1][3], Tail(u))
                    [] OTHER -> Failed("garbled", u)
ArrayLength(u) ==
  Then(Fixed(u, 4), LAMBDA l : CASE l.v > Size(l.u) -> Insufficient
                                 [] l.v > 2 * MaxUint16 -> Failed("invalid", l.u)
                                 [] OTHER -> l)
(* A length of -1 is no value, a null string is read as the empty one.     *)
Prefixed(l, null) == CASE l.err # "none" -> l
                       [] l.v = -1 -> Got(null, l.u)
                       [] OTHER -> RawBytes(l.u, l.v)
StringLength(u) == Then(Fixed(u, 2), LAMBDA l : IF l.v < -1 THEN Failed("invalid", l.u) ELSE l)
Millis(g) == Then(g, LAMBDA m : Got(m.v * Millisecond, m.u))

Scalar(op, u) ==
  CASE op \in {"int8", "int16", "int32", "int64"} -> Fixed(u, Width[op])
    [] op = "bool" -> Then(Fixed(u, 1), LAMBDA b : IF b.v \in {0, 1} THEN Got(b.v = 1, b.u)
                                                   ELSE Failed("invalid", b.u))
    [] op = "varint" -> ReadVarint(u)
    [] op = "string" -> Prefixed(StringLength(u), Empty)
    [] op = "nullable" -> Prefixed(StringLength(u), Nil)
    [] op = "bytes" -> Prefixed(Fixed(u, 4), Nil)
    [] op = "varintbytes" -> Prefixed(ReadVarint(u), Nil)
    [] op = "millis" -> Millis(Fixed(u, 4))
    [] op = "delta" -> Millis(ReadVarint(u))
    [] op = "stamp" -> Then(Fixed(u, 8), LAMBDA m : IF m.v >= 0 THEN Millis(m) ELSE Got(ZeroTime, m.u))
    [] op = "time" -> Then(Fixed(u, 8), LAMBDA m : IF m.v = -1 THEN Got(ZeroTime, m.u) ELSE Millis(m))
    \* the replicaID of an OffsetRequest, set if it is not negative
    [] op = "replica" -> Then(Fixed(u, 4), LAMBDA id : Got(IF id.v >= 0 THEN [set |-> TRUE, id |-> id.v]
                                                           ELSE NoReplica, id.u))
    \* a string whose empty value leaves the pointer nil
    [] op = "emptyasnil" -> Then(Prefixed(StringLength(u), Empty),
                                 LAMBDA s : IF s.v = Empty THEN Got(Nil, s.u) ELSE s)

RECURSIVE Repeat(_, _, _)
Repeat(op, n, u) ==
  IF n <= 0 THEN Got(<<>>, u)
  ELSE Then(Scalar(op, u), LAMBDA x :
         Then(Repeat(op, n - 1, x.u), LAMBDA rest : Got(<<x.v>> \o rest.v, rest.u)))

(* getInt32Array, getInt64Array and getStringArray read their own length,  *)
(* as an unsigned number: a negative one is larger than what follows.      *)
Elements(op, w, u) ==
  Then(Fixed(u, 4), LAMBDA l : IF l.v < 0 \/ l.v * w > Size(l.u) THEN Insufficient
                               ELSE Repeat(op, l.v, l.u))

(* Lengths that other code may write as -1 for "none": the loop is skipped *)
(* at once, where make() of any other array panics on a negative length.   *)
Optional(g, op) == Then(g, LAMBDA l : Repeat(op, l.v, l.u))

Lookup(c, u) ==
  CASE c.op = "strings" -> Elements("string", 0, u)
    [] c.op = "ints32" -> Elements("int32", 4, u)
    [] c.op = "ints64" -> Elements("int64", 8, u)
    [] c.op = "arraylength" -> ArrayLength(u)
    [] c.op = "counted strings" -> Optional(Fixed(u, 4), "string")
    [] c.op = "optional strings" -> Optional(ArrayLength(u), "string")
    [] OTHER -> Scalar(c.op, u)

(* Run carries out a program on the state s: the decoded fields s.out, the *)
(* first error and the remaining bytes.                                    *)
RECURSIVE Run(_, _)
RECURSIVE Loop(_, _, _, _)
Start(u) == [out |-> <<>>, err |-> "none", u |-> u, stack |-> <<>>]
Field(s, f, g) == IF g.err # "none" THEN [s EXCEPT !.err = g.err, !.u = g.u]
                  ELSE [s EXCEPT !.out = (f :> g.v) @@ @, !.u = g.u]

(* realDecoder.push and pop: a length is compared with the bytes read      *)
(* since, a checksum with what was written there.                          *)
PushOf(kind, u) ==
  CASE kind = "length" -> Then(Fixed(u, 4), LAMBDA l : IF l.v > Size(l.u) THEN Insufficient ELSE l)
    [] kind = "varint" -> ReadVarint(u)
    [] OTHER -> CASE Size(u) < 4 -> Insufficient
                  [] Size(u) >= 4 /\ u[1][2] = kind -> Got(u[1][3], Tail(u))
                  [] OTHER -> Failed("garbled", u)
Agrees(field, read) ==
  IF field.kind \in {"length", "varint"} THEN Size(read) = field.v ELSE read = field.v
BytesSince(field, u) == SubSeq(field.u, 1, Len(field.u) - Len(u))
PopOf(s) ==
  [s EXCEPT !.stack = Front(@),
            !.err = IF Agrees(Last(s.stack), BytesSince(Last(s.stack), s.u)) THEN @ ELSE "invalid"]

(* getRawBytes and getSubset of bytes that hold more than one value. *)
Subset(n, u) == CASE n < 0 -> Failed("invalid", u)
                  [] n > Size(u) -> Insufficient
                  [] OTHER -> Got(Take(u, n), Drop(u, n))
Nested(s) == [v |-> s.out, err |-> s.err, u |-> s.u]
IsMap(c) == c.op \in {"map", "nullable map"}
Loop(c, n, acc, u) ==
  IF n <= 0 THEN Got(acc, u)
  ELSE Then(IF IsMap(c) THEN Scalar(c.key, u) ELSE Got(0, u), LAMBDA key :
         Then(Nested(Run(c.of, Start(key.u))), LAMBDA el :
           Loop(c, n - 1, IF IsMap(c) THEN (key.v :> el.v) @@ acc ELSE Append(acc, el.v), el.u)))
Counted(c, u) ==
  Then(CASE c.op = "counted array" -> Fixed(u, 4)
         [] c.op = "varint array" -> ReadVarint(u)
         [] OTHER -> ArrayLength(u),
       LAMBDA l :
         CASE l.v < 0 /\ c.op = "array" -> Failed("panic", l.u)
           [] c.op = "nullable map" /\ (l.v < 0 \/ (l.v = 0 /\ c.zeroIsNil)) -> Got([nil |-> TRUE, m |-> <<>>], l.u)
           [] OTHER -> Then(Loop(c, l.v, <<>>, l.u), LAMBDA m :
                         IF c.op = "nullable map" THEN Got([nil |-> FALSE, m |-> m.v], m.u) ELSE m))
Pushed(s, kind, l) == [s EXCEPT !.err = l.err, !.u = l.u, !.stack = Append(@, [kind |-> kind, v |-> l.v, u |-> l.u])]
LastWith(a, key, k) == CHOOSE i \in DOMAIN a : a[i][key] = k /\ \A j \in DOMAIN a : a[j][key] = k => j <= i
Indexed(a, key, value) == [k \in {a[i][key] : i \in DOMAIN a} |-> [v |-> a[LastWith(a, key, k)][value]]]
Exec(s, c) ==
  CASE c.op = "set" -> [s EXCEPT !.out = (c.f :> c.v) @@ @]
    [] c.op \in {"array", "counted array", "varint array", "map", "nullable map"} -> Field(s, c.f, Counted(c, s.u))
    [] c.op = "list" -> [s EXCEPT !.out = (c.f :> <<s.out[c.from]>>) @@ @]
    [] c.op = "copy" -> [s EXCEPT !.out = (c.f :> s.out[c.from]) @@ @]
    [] c.op = "forget" ->
         IF s.out[c.f].host = Empty /\ s.out[c.f].port = 0 THEN [s EXCEPT !.out[c.f] = c.nil] ELSE s
    [] c.op = "push" -> Pushed(s, c.f, PushOf(c.f, s.u))
    [] c.op = "pop" -> PopOf(s)
    [] c.op = "if" -> IF s.out[c.f] = c.is THEN Run(c.of, s) ELSE s
    [] c.op = "attributes" -> [s EXCEPT !.out = (c.f :> ((s.out.attributes \div c.mask) % 2 = 1)) @@ @]
    [] c.op = "subset" -> Field(s, c.f, Then(Fixed(s.u, 4), LAMBDA l : Subset(l.v, l.u)))
    [] c.op = "skip" -> [Field(s, "skipped", Fixed(s.u, 4)) EXCEPT !.out = s.out]
    [] c.op = "index" -> [s EXCEPT !.out = (c.f :> Indexed(s.out[c.from], c.key, c.v)) @@ @]
    [] c.op = "struct" -> Field(s, c.f, Nested(Run(c.of, Start(s.u))))
    [] c.op = "quiet" -> [Run(c.of, s) EXCEPT !.err = "none"]
    [] OTHER -> Field(s, c.f, Lookup(c, s.u))
Run(program, s) == IF s.err # "none" \/ program = <<>> THEN s
                   ELSE Run(Tail(program), Exec(s, Head(program)))

(* versionedDecode(): bytes left over are an error. *)
Decode(program, u) ==
  Then(Run(program, Start(u)), LAMBDA s : IF s.u # <<>> THEN [s EXCEPT !.err = "invalid"] ELSE s)
=============================================================================
