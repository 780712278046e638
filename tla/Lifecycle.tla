----------------------------- MODULE Lifecycle ------------------------------
(***************************************************************************)
(* What the hub promises about a submitted memory, without its requests,   *)
(* its watcher or its search index: a submission waits for keywords, then  *)
(* for the chain; it is committed only if it waited for the chain and the  *)
(* chain approved it; the chain approves nothing that was never verified;  *)
(* a committed or denied submission stays what it is; only one that is     *)
(* still pending can be withdrawn.                                         *)
(***************************************************************************)
CONSTANT Memories

VARIABLES
  status,         \* "absent", "pending_keyword", "pending_chain", "committed", "denied"
  offered,        \* memories whose keywords were verified once
  approved        \* memories the chain has approved
vars == <<status, offered, approved>>

PendingStates == {"pending_keyword", "pending_chain"}

Init ==
  /\ status = [m \in Memories |-> "absent"]
  /\ offered = {} /\ approved = {}

Submit(m) ==
  /\ status[m] = "absent"
  /\ status' = [status EXCEPT ![m] = "pending_keyword"]
  /\ UNCHANGED <<offered, approved>>

Verify(m) ==
  /\ status[m] = "pending_keyword"
  /\ status' = [status EXCEPT ![m] = "pending_chain"]
  /\ offered' = offered \cup {m}
  /\ UNCHANGED approved

Deny(M) ==
  /\ \A m \in M : status[m] \in PendingStates
  /\ status' = [m \in Memories |-> IF m \in M THEN "denied" ELSE status[m]]
  /\ UNCHANGED <<offered, approved>>

Withdraw(m) ==
  /\ status[m] \in PendingStates
  /\ status' = [status EXCEPT ![m] = "absent"]
  /\ UNCHANGED <<offered, approved>>

Approve(M) ==
  /\ M \subseteq offered
  /\ approved' = approved \cup M
  /\ UNCHANGED <<status, offered>>

Commit(m) ==
  /\ status[m] = "pending_chain" /\ m \in approved
  /\ status' = [status EXCEPT ![m] = "committed"]
  /\ UNCHANGED <<offered, approved>>

Next ==
  \/ \E m \in Memories : Submit(m) \/ Verify(m) \/ Withdraw(m) \/ Commit(m)
  \/ \E M \in SUBSET Memories : Deny(M) \/ Approve(M)

Spec == Init /\ [][Next]_vars
=============================================================================
