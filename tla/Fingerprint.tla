----------------------------- MODULE Fingerprint -----------------------------
(***************************************************************************)
(* Fingerprint of lib/fingerprint.go, one iteration of its loop at a time. *)
(* A rune is a string of one character, and a word that the code compares  *)
(* with is one atom that is as wide as the word.  The loop never looks     *)
(* ahead, so that the statement is chosen while it is scanned; only the    *)
(* size of the buffer depends on its length, and need, the size that the *)
(* writes and reads of the buffer need, is compared with it at the end.    *)
(*                                                                         *)
(* Two statements are scanned side by side.  They are fed the same pieces, *)
(* and once two different values.                                          *)
(***************************************************************************)
EXTENDS Integers, Sequences, SequencesExt, FiniteSets

CONSTANTS Beginnings,  \* what a statement may begin with
          Pieces,    \* what it goes on with
          Values,    \* pairs of values
          MaxPieces  \* bound: pieces of a statement behind its prefix

VARIABLES a, b,      \* the local variables of the two calls
          form,      \* the pieces fed so far, with Hole for the values
          done       \* the statements are complete

vars == <<a, b, form, done>>

-----------------------------------------------------------------------------
WordWidth ==
  [value |-> 5, values |-> 6, in |-> 2, null |-> 4, is |-> 2, not |-> 3, order |-> 5, by |-> 2,
   asc |-> 3, key |-> 3, update |-> 6, call |-> 4, use |-> 3, administrator |-> 13]
Width(x) == IF x \in DOMAIN WordWidth THEN WordWidth[x] ELSE 1

Digits == {"1", "2"}
Quotes == {"'", "dq"}   \* dq, bt, bs: double quote, backtick, backslash
isSpace(r) == r \in {" ", "nl"}
NumberRunes == Digits \cup {"c", "b", "x", ".", "-"}
OtherLetters == {"t", "_"} \cup DOMAIN WordWidth

NewScan ==
  [q |-> <<>>, off |-> <<0>>, f |-> <<>>, fi |-> 0, need |-> 0, prevWord |-> <<>>, pr |-> "none",
   s |-> "unknown", sqlState |-> "unknown", quoteChar |-> "none", cpFrom |-> 0, cpTo |-> 0,
   addSpace |-> FALSE, escape |-> FALSE, parOpen |-> 0, parOpenTotal |-> 0, valueNo |-> 0,
   firstPar |-> 0, returned |-> FALSE, whole |-> FALSE]

(* The offset of the rune that is being scanned; q[from:to]. *)
Qi(L) == L.off[Len(L.q)]
At(L, offset) == CHOOSE i \in DOMAIN L.off : L.off[i] = offset
Slice(L, from, to) == IF from >= to THEN <<>> ELSE SubSeq(L.q, At(L, from), At(L, to) - 1)
Word(L) == Slice(L, L.cpFrom, Qi(L))

(* f[fi] = x, and copy(f[fi:fi+w], xs): the buffer must have the bytes. *)
Need(L, n) == [L EXCEPT !.need = IF n > @ THEN n ELSE @]
Copy(L, xs, w) == [Need(L, L.fi + w) EXCEPT !.f = @ \o xs, !.fi = @ + w]
(* if len(f) > fi { f[fi] = ' ' }; fi++ *)
CopySpace(L) == [L EXCEPT !.f = Append(@, " "), !.fi = @ + 1]
Return(L, xs) == [L EXCEPT !.returned = TRUE, !.f = xs]

-----------------------------------------------------------------------------
(* 1. Skip parts of the query for certain states. *)

InQuote(L, r) ==
  IF r # L.quoteChar THEN [L EXCEPT !.escape = ~@ /\ r = "bs"]
  ELSE IF L.escape THEN [L EXCEPT !.escape = FALSE]
  ELSE IF L.sqlState = "inValues" THEN [L EXCEPT !.cpFrom = Qi(L) + 1, !.s = "inValues"]
  ELSE [Copy(L, <<"?">>, 1) EXCEPT !.cpFrom = Qi(L) + 1, !.s = "unknown"]

InBackticks(L, r) ==
  IF r # "bt" THEN [L EXCEPT !.escape = ~@ /\ r = "bs"]
  ELSE IF L.escape THEN [L EXCEPT !.escape = FALSE]
  ELSE [L EXCEPT !.cpTo = Qi(L) + 1, !.s = "inWord"]

InNumber(L, r) ==
  IF r \in OtherLetters THEN [L EXCEPT !.cpTo = Qi(L), !.s = "inWord"]
  ELSE IF L.sqlState = "inMySQLCode"
       THEN [L EXCEPT !.cpTo = Qi(L), !.s = "inWord", !.sqlState = "unknown"]
  ELSE [Copy(L, <<"?">>, 1) EXCEPT !.cpFrom = Qi(L), !.cpTo = Qi(L), !.s = "unknown"]

ValuesEnd(L, r) ==
  LET n == L.valueNo + 1
      M == IF n > 1 THEN L
           ELSE [ (IF Qi(L) - L.firstPar > 1 THEN Copy(L, <<"(", "?", "+", ")">>, 4)
                   ELSE Copy(L, <<"(", ")">>, 2)) EXCEPT !.firstPar = 0]
  IN  [M EXCEPT !.valueNo = n, !.s = "moreValuesOrUnknown", !.pr = r, !.cpFrom = Qi(L) + 1,
                !.parOpenTotal = 0]

InValues(L, r) ==
  LET open == L.parOpen + (IF r = "(" THEN 1 ELSE IF r = ")" THEN -1 ELSE 0)
      M == [L EXCEPT !.parOpen = open,
                     !.parOpenTotal = IF r = ")" THEN @ + 1 ELSE @,
                     !.firstPar = IF r = "(" /\ open = 1 THEN Qi(L) ELSE @]
  IN  IF r \in Quotes THEN [L EXCEPT !.s = "inQuote", !.quoteChar = r]
      ELSE IF isSpace(r) \/ open > 0 THEN M
      ELSE IF M.parOpenTotal = 0 THEN [M EXCEPT !.s = "inWord"]
      ELSE ValuesEnd(M, r)

InMLC(L, r) ==
  IF L.pr = "*" /\ r = "/" THEN [L EXCEPT !.s = "unknown"] ELSE [L EXCEPT !.pr = r]
InOLC(L, r) == [L EXCEPT !.s = IF r = "nl" THEN "unknown" ELSE @]

-----------------------------------------------------------------------------
(* 2. Change state based on rune and current state. *)

(* A digit behind a comma taken for a part of a word. *)
DigitAfterComma(L) ==
  CASE L.s = "opOrNumber" -> [L EXCEPT !.cpTo = Qi(L) - 1, !.s = "inNumber"]
    [] L.s = "inWord" /\ L.pr # "(" -> L
    [] OTHER -> [L EXCEPT !.cpTo = Qi(L), !.s = "inNumber"]
Digit(L) ==
  CASE L.s = "opOrNumber" -> [L EXCEPT !.cpTo = Qi(L) - 1, !.s = "inNumber"]
    [] L.s = "inWord" /\ L.pr \notin {"(", ","} -> L
    [] OTHER -> [L EXCEPT !.cpTo = Qi(L), !.s = "inNumber"]

WordEnd(L) ==
  LET word == Word(L)
      comma == word # <<>> /\ Last(word) = ","
      M == CASE \/ word = <<"null">> /\ L.prevWord \notin {<<"is">>, <<"not">>}
                \/ word = <<"null", ",">>
                  -> [CopySpace(Copy(L, IF comma THEN <<"?", ",">> ELSE <<"?">>, IF comma THEN 2 ELSE 1))
                        EXCEPT !.cpFrom = Qi(L) + 1]
             [] L.prevWord = <<"order">> /\ word = <<"by">> -> [L EXCEPT !.sqlState = "orderBy"]
             [] L.sqlState = "orderBy" /\ word \in {<<"asc">>, <<"asc", ",">>, <<"asc", " ">>}
                  -> IF comma
                     THEN [Need(L, L.fi + 1) EXCEPT !.cpFrom = Qi(L), !.fi = @ + 1,
                             !.f = Front(@) \o <<",", " ">>]
                     ELSE [L EXCEPT !.cpFrom = Qi(L)]
             [] L.prevWord = <<"key">> /\ word = <<"update">>
                  -> [L EXCEPT !.sqlState = "onDupeKeyUpdate"]
             [] OTHER -> L
  IN  IF word = <<"use">> /\ L.prevWord = <<>> THEN Return(L, <<"use", " ", "?">>)
      ELSE [M EXCEPT !.s = "inSpace", !.cpTo = Qi(L), !.addSpace = TRUE]

(* A space that is added to the fingerprint and copied again. *)
SpaceTwice(L) ==
  CASE L.s = "unknown" -> IF L.fi > 0 /\ ~isSpace(Last(L.f)) THEN CopySpace(Need(L, L.fi)) ELSE Need(L, L.fi)
    [] L.s = "inDash" -> [L EXCEPT !.s = "inOLC", !.cpTo = IF @ > 2 THEN Qi(L) - 2 ELSE @]
    [] L.s = "moreValuesOrUnknown" -> IF L.valueNo = 1 THEN CopySpace(L) ELSE L
    [] OTHER -> WordEnd(L)
Space(L) ==
  CASE L.s = "unknown" ->
         IF L.fi > 0 /\ ~isSpace(Last(L.f))
         THEN [CopySpace(Need(L, L.fi)) EXCEPT !.cpFrom = Qi(L) + 1] ELSE Need(L, L.fi)
    [] L.s = "inDash" -> [L EXCEPT !.s = "inOLC", !.cpTo = IF @ > 2 THEN Qi(L) - 2 ELSE @]
    [] L.s = "moreValuesOrUnknown" -> IF L.valueNo = 1 THEN CopySpace(L) ELSE L
    [] OTHER -> WordEnd(L)

Quote(L, r) ==
  IF L.pr = "bs" THEN L
  ELSE [L EXCEPT !.s = "inQuote", !.quoteChar = r,
                 !.cpTo = IF L.pr \in {"x", "b"} THEN -2 ELSE Qi(L)]

Operator(L) == [L EXCEPT !.cpFrom = IF L.s \in {"inWord", "inOp"} THEN @ ELSE Qi(L), !.s = "inOp"]

ListWords == {<<"value">>, <<"values">>, <<"in">>}
Parenthesis(L) ==
  IF L.prevWord = <<"call">> THEN Return(L, <<"call", " ">> \o Word(L))
  ELSE IF /\ L.sqlState # "onDupeKeyUpdate"
          /\ \/ L.s \in {"inSpace", "moreValuesOrUnknown"} /\ L.prevWord \in ListWords
             \/ Word(L) \in ListWords
       THEN [L EXCEPT !.s = "inValues", !.sqlState = "inValues", !.parOpen = 1, !.firstPar = Qi(L),
                      !.cpTo = IF L.valueNo = 0 THEN Qi(L) ELSE @]
  ELSE IF L.s # "inWord" THEN [L EXCEPT !.valueNo = 0, !.cpFrom = Qi(L), !.s = "inWord"]
  ELSE L

OtherRune(L) ==
  IF L.s \in {"inWord", "inOp"} THEN [L EXCEPT !.s = "inWord"]
  ELSE [L EXCEPT !.valueNo = 0, !.cpFrom = Qi(L), !.s = "inWord",
                 !.sqlState = IF @ = "inValues" THEN "unknown" ELSE @]

Change(L, r) ==
  CASE r \in Digits -> Digit(L)
    [] isSpace(r) -> Space(L)
    [] r \in Quotes -> Quote(L, r)
    [] r = "bt" -> IF L.pr = "bs" THEN L ELSE [L EXCEPT !.s = "inBackticks"]
    [] r \in {"=", "<", ">", "!"} -> Operator(L)
    [] r = "/" -> [L EXCEPT !.s = "divOrMLC"]
    [] r = "*" /\ L.s = "divOrMLC" -> [L EXCEPT !.s = "mlcOrMySQLCode"]
    [] r = "+" \/ (r = "-" /\ L.pr # "-") -> [L EXCEPT !.s = "opOrNumber"]
    [] r = "-" /\ L.pr = "-" -> [L EXCEPT !.s = "inDash"]
    [] r = "." -> IF L.s \in {"inNumber", "inOp"} THEN [L EXCEPT !.s = "inNumber", !.cpTo = Qi(L)] ELSE L
    [] r = "(" -> Parenthesis(L)
    [] r = "," /\ L.s = "moreValuesOrUnknown" -> L
    [] r = ":" /\ L.prevWord = <<"administrator">> -> [L EXCEPT !.returned = TRUE, !.whole = TRUE]
    [] r = "#" -> [L EXCEPT !.addSpace = FALSE, !.s = "inOLC"]
    [] OTHER -> OtherRune(L)

-----------------------------------------------------------------------------
(* 3. Copy a slice of the query into the fingerprint. *)

CopySlice(L) ==
  LET slice == Slice(L, L.cpFrom, L.cpTo)
      M == [Copy(L, slice, L.cpTo - L.cpFrom) EXCEPT !.prevWord = slice, !.cpFrom = L.cpTo]
  IN  IF L.cpTo <= L.cpFrom THEN L
      ELSE IF slice \in ListWords /\ L.sqlState # "onDupeKeyUpdate"
           THEN [M EXCEPT !.addSpace = FALSE, !.s = "inValues", !.sqlState = "inValues"]
      ELSE IF L.addSpace THEN [CopySpace(M) EXCEPT !.cpFrom = @ + 1, !.addSpace = FALSE]
      ELSE M
Rest(L, r) ==
  LET M == Change(L, r) IN IF M.returned THEN M ELSE [CopySlice(M) EXCEPT !.pr = r]

(* One iteration of the loop. *)
Iterate(L, r) ==
  CASE L.s = "inQuote" -> InQuote(L, r)
    [] L.s = "inBackticks" -> InBackticks(L, r)
    [] L.s = "inNumber" -> IF r \in NumberRunes THEN L ELSE Rest(InNumber(L, r), r)
    [] L.s = "inValues" -> InValues(L, r)
    [] L.s = "inMLC" -> InMLC(L, r)
    [] L.s = "mlcOrMySQLCode" ->
         IF r # "!" THEN [L EXCEPT !.pr = r, !.s = "inMLC"]
         ELSE Rest([L EXCEPT !.s = "inWord", !.sqlState = "inMySQLCode"], r)
    [] L.s = "inOLC" -> InOLC(L, r)
    [] OTHER -> IF isSpace(r) /\ isSpace(L.pr) THEN [L EXCEPT !.cpFrom = Qi(L) + 1, !.pr = r]
                ELSE Rest(L, r)

Scan(L, r) ==
  LET M == [L EXCEPT !.q = Append(@, r), !.off = Append(@, Last(@) + Width(r))]
  IN  IF L.returned THEN M ELSE Iterate(M, r)
RECURSIVE ScanAll(_, _)
ScanAll(L, rs) == IF rs = <<>> THEN L ELSE ScanAll(Scan(L, Head(rs)), Tail(rs))

(* The space that was appended, the trailing spaces, and the result. *)
RECURSIVE Trim(_)
Trim(xs) == IF xs # <<>> /\ isSpace(Last(xs)) THEN Trim(Front(xs)) ELSE xs
Finish(L) ==
  LET M == Scan(L, " ")
      cap == Last(M.off)
  IN  [M EXCEPT !.f = IF M.whole THEN L.q ELSE IF M.returned THEN M.f
                      ELSE IF M.fi > cap THEN <<>> ELSE Trim(M.f),
                !.need = IF @ > cap THEN "panic" ELSE IF ~M.returned /\ M.fi > cap THEN "lost" ELSE "fits"]

-----------------------------------------------------------------------------
Hole == <<"hole">>

Init ==
  /\ \E p \in Beginnings : form = <<p>>
  /\ a = ScanAll(NewScan, form[1]) /\ b = a
  /\ done = FALSE

(* A number is not glued to a word atom, whose letters it could swallow. *)
Separate(piece) == Head(piece) \in DOMAIN WordWidth => Last(Last(form)) \in {" ", "nl", "(", ",", "=", "/"}

FeedPiece(piece) ==
  /\ ~done /\ Len(form) <= MaxPieces
  /\ Separate(piece)
  /\ a' = ScanAll(a, piece) /\ b' = ScanAll(b, piece)
  /\ form' = Append(form, piece)
  /\ UNCHANGED done

FeedValues(v) ==
  /\ ~done /\ Len(form) <= MaxPieces
  /\ ~Contains(form, Hole)
  /\ a' = ScanAll(a, v[1]) /\ b' = ScanAll(b, v[2])
  /\ form' = Append(form, Hole)
  /\ UNCHANGED done

End ==
  /\ ~done
  /\ a' = Finish(a) /\ b' = Finish(b)
  /\ done' = TRUE
  /\ UNCHANGED form

Next == End \/ (\E p \in Pieces : FeedPiece(p)) \/ (\E v \in Values : FeedValues(v))
Spec == Init /\ [][Next]_vars

-----------------------------------------------------------------------------
(* A value stands where the grammar has one: not glued to a word, nor      *)
(* behind a closing parenthesis, nor behind a sign, which a number swallows. *)
ValuePlace ==
  \A i \in DOMAIN form : form[i] = Hole =>
     /\ Last(form[i - 1]) \in {" ", "nl", "=", "<", "(", ","}
     /\ i < Len(form) => Head(form[i + 1]) \in {" ", "nl", ")", ","}

(* The word of a list that no list follows: a column called value.         *)
ListWordAlone ==
  \E i \in DOMAIN a.q : <<a.q[i]>> \in ListWords /\
     LET behind == {j \in DOMAIN a.q : j > i /\ ~isSpace(a.q[j])}
     IN  \A j \in behind : (\A k \in behind : j <= k) => a.q[j] # "("

(* ValuesAreReplacedElsewhere: statements that differ in one value only    *)
(* have the same fingerprint (fingerprint.go:65); administrator commands   *)
(* are kept.  Except statements with a column that is called like the word *)
(* of a list: its value stays in the fingerprint (fingerprint.go:697).     *)
ValuesAreReplacedElsewhere ==
  done /\ ValuePlace /\ ~a.whole /\ a.need = "fits" /\ b.need = "fits" => ListWordAlone \/ a.f = b.f

(* ShortLists: the lists of one byte, which are replaced by (?+).          *)
ShortLists(q) == {i \in DOMAIN q : i > 2 /\ q[i] = ")" /\ q[i - 2] = "("}

(* A column called value, and a parenthesis behind it that is taken for    *)
(* the end of its list.                                                    *)
ListWordClosed == ListWordAlone /\ \E i \in DOMAIN a.q : a.q[i] = ")"

(* OverrunByShortLists: the buffer is large enough for the fingerprint, so *)
(* that the call neither panics nor returns an empty string because the    *)
(* fingerprint does not fit (fingerprint.go:76).  Except where (?+) stands *)
(* for something shorter: a list of one byte, as in in(1), or what is      *)
(* between a column called value and a closing parenthesis, as in          *)
(* max( value ) (fingerprint.go:697, :301-304).                            *)
OverrunByShortLists ==
  done /\ a.need # "fits" => ListWordClosed \/ ShortLists(a.q) # {}
=============================================================================
