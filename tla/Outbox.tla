------------------------------- MODULE Outbox -------------------------------
(***************************************************************************)
(* What the hub's event relay promises, without its queue, its workers or  *)
(* the chain's mempool: a recorded row waits until it is settled, only     *)
(* recorded rows are delivered to the chain, and a row is settled only     *)
(* after a row like it was delivered.  "Like it" is the granularity at     *)
(* which the chain watcher recognises rows: same org, memory and kind.     *)
(***************************************************************************)
CONSTANTS Rows, Alike      \* Alike: pairs of rows the watcher cannot tell apart

VARIABLES status, delivered
vars == <<status, delivered>>

Init == status = [r \in Rows |-> "absent"] /\ delivered = {}

Record(r) ==
  /\ status[r] = "absent"
  /\ status' = [status EXCEPT ![r] = "pending"]
  /\ UNCHANGED delivered

\* The chain includes a transaction with the rows R.
Deliver(R) ==
  /\ \A r \in R : status[r] # "absent"
  /\ delivered' = delivered \cup R
  /\ UNCHANGED status

Settle(R) ==
  /\ \A r \in R : status[r] # "absent" /\ \E q \in delivered : <<q, r>> \in Alike
  /\ status' = [r \in Rows |-> IF r \in R THEN "submitted" ELSE status[r]]
  /\ UNCHANGED delivered

Next ==
  \/ \E r \in Rows : Record(r)
  \/ \E R \in SUBSET Rows : Deliver(R) \/ Settle(R)

Spec == Init /\ [][Next]_vars
=============================================================================
