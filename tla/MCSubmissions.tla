--------------------------- MODULE MCSubmissions ----------------------------
(* Instances of Submissions for TLC: one contributor wrote every memory.     *)
EXTENDS Submissions, TLC

MCContributorOf == [m \in Memories |-> "c1"]
Symmetry == Permutations(Memories)
=============================================================================
