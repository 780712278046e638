------------------------------- MODULE Filter -------------------------------
(***************************************************************************)
(* Array.prototype.filter, which the dashboard's queues drop entries with: *)
(* the entries to keep, by their indices, in the order they had.  It is    *)
(* SelectSeq, as a function of the set of indices: that one is recursive   *)
(* and takes a predicate, and no prover expands it.                        *)
(***************************************************************************)
EXTENDS Naturals, FiniteSets, Sequences

Place(keep, i) == Cardinality({j \in keep : j <= i})

Kept(q, keep) == [k \in 1..Cardinality(keep) |-> q[CHOOSE i \in keep : Place(keep, i) = k]]
=============================================================================
