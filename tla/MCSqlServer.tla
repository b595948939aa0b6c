---------------------------- MODULE MCSqlServer ----------------------------
(***************************************************************************)
(* SqlServer for TLC.  Bodies r1 and r2 report fingerprint f of one branch; *)
(* w decodes to an empty Arr, e is empty, d makes EXPLAIN a DESCRIBE.       *)
(***************************************************************************)
EXTENDS SqlServer, TLC

CONSTANTS r1, r2, w, e, d, f, b1

MCBranchOf == [r \in Reqs |-> b1]
MCFpOf == [r \in Reqs |-> f]
MCMalformed == Reqs \cap {w, e}
MCEmptyBodies == Reqs \cap {e}
MCDescribed == Reqs \cap {d}

\* At most two bodies are posted; r2 is only there to meet r1.
Posted == {r \in Reqs : at[r] # "outside"}
Pairs == Cardinality(Posted) <= 2 /\ (r2 \in Posted => Posted \subseteq {r1, r2})
MCSpec == Init /\ [][Next /\ Pairs']_vars /\ Fairness
=============================================================================
