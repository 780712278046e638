---------------------------- MODULE MCMembership ----------------------------
(* Instances of Membership for TLC: the founder and an applicant.            *)
EXTENDS Membership

CONSTANTS f, a
=============================================================================
