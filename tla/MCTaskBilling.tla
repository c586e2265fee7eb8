---------------------------- MODULE MCTaskBilling ----------------------------
(* Small instances of TaskBilling for TLC. *)
EXTENDS TaskBilling, TLC

CONSTANTS m1, m2, r1, c1, c2

OneTask   == {1}
TwoTasks  == {1, 2}
Prices    == {0, 2}
OnePrice  == {2}
Down      == [t \in Tasks |-> IF t = 1 THEN 1 ELSE 0]
AllOnC1   == [t \in Tasks |-> c1]
Spread    == [t \in Tasks |-> IF t = 1 THEN c1 ELSE c2]

Symmetry  == Permutations(Masters)
=============================================================================
