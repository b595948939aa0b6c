------------------------------- MODULE Ledger -------------------------------
(***************************************************************************)
(* What the server promises the readers of table sqlexplain: rows are only *)
(* added, a reported batch is in at most one row, and of the rows of one   *)
(* branch and fingerprint at most one carries flag = 1, new data.          *)
(***************************************************************************)
EXTENDS Naturals, Sequences

CONSTANTS
  Reqs,     \* the reported batches
  BranchOf, \* BranchOf[r]: the branch of batch r
  FpOf      \* FpOf[r]: the fingerprint of batch r

VARIABLE rows \* the rows of the table, in the order of their ids

SameKey(r, s) == BranchOf[r] = BranchOf[s] /\ FpOf[r] = FpOf[s]

\* Row w may join the table.
Admissible(w) ==
  /\ w \in [req : Reqs, flag : {0, 1}]
  /\ \A i \in DOMAIN rows :
       /\ rows[i].req # w.req
       /\ w.flag = 1 /\ rows[i].flag = 1 => ~SameKey(rows[i].req, w.req)

Init == rows = <<>>

Next ==
  /\ Len(rows') = Len(rows) + 1
  /\ rows' = Append(rows, rows'[Len(rows')])
  /\ Admissible(rows'[Len(rows')])

Spec == Init /\ [][Next]_rows
=============================================================================
