----------------------------- MODULE MCSqlAgent -----------------------------
(***************************************************************************)
(* SqlAgent for TLC.  Statements m1 to m4 (and m5) share fingerprint f, m3 *)
(* comes from another branch and m4 repeats the text of m1; x cannot be    *)
(* decoded, e is an empty list element, y is nothing but a comment.        *)
(***************************************************************************)
EXTENDS SqlAgent, TLC

CONSTANTS m1, m2, m3, m4, m5, x, e, y, i1, i2, i3, i4, f, b1, b2

MCInfoOf ==
  [m \in Msgs |->
     CASE m \in {m1, m4} -> i1 [] m = m2 -> i2 [] m \in {m3, y} -> i3
       [] m = m5 -> i4 [] OTHER -> NoInfo]
MCFpOf == [m \in Msgs |-> IF m \in {x, e, y} THEN Blank ELSE f]
MCBranchOf == [m \in Msgs |-> IF m = m3 THEN b2 ELSE b1]
MCListOf == [m \in Msgs |-> IF m \in {m2, x} THEN BranchActive ELSE 1]
MCEmptyBodies == Msgs \cap {e}
=============================================================================
