--------------------------- MODULE MCJobAuthority ---------------------------
(* Bounds for TLC: the tables are finite because ids are never reused.  Of *)
(* what anyone may do with the protocol two corners are explored: two jobs *)
(* that compete with two runs, and one job that is readmitted with three,  *)
(* of which it is archived with at most two.                               *)
EXTENDS JobAuthorityProperties, TLC

AtMost(n) == Cardinality({r \in Runs : runs[r].state # "absent"}) <= n

Competing ==
  /\ AtMost(2)
  /\ \A j \in Jobs : ~jobs[j].archived /\ bindings[j].provider = NULL
  /\ \A r \in Runs : runs[r].provider = NULL

Alone ==
  /\ Cardinality({j \in Jobs : jobs[j].state # "absent"}) <= 1
  /\ (\E j \in Jobs : jobs[j].archived) => AtMost(2)

OpenSpec == Init /\ [][Next /\ (Competing' \/ Alone')]_vars

Symmetry ==
  Permutations(Jobs) \cup Permutations(Runs) \cup Permutations(Sessions)
    \cup Permutations(Owners)
=============================================================================
