---------------------------- MODULE MCServeRelay ----------------------------
(* Instances of ServeRelay for TLC.  Rows are strings; the second org owns   *)
(* "t1" and "y1".                                                            *)
EXTENDS ServeRelay, TLC

MCOrgOf == [r \in Rows |-> IF r \in {"t1", "y1"} THEN "o2" ELSE "o1"]
MCMemoryOf == [r \in Rows |-> "m1"]
MCEpochOf == [r \in Rows |-> IF r \in {"s2", "d1"} THEN 2 ELSE 1]
MCServeOf == [d \in Denials |-> IF "s1" \in Serves THEN "s1" ELSE CHOOSE s \in Serves : TRUE]
Symmetry == Permutations(Workers)
=============================================================================
