----------------------------- MODULE Broadcast -----------------------------
(***************************************************************************)
(* directBroadcast (lib/chain-client.ts): how a page of the dashboard puts *)
(* a message on the chain with the user's wallet, and what it says about   *)
(* it.  Two calls, of one tab after the other or of two tabs, share the    *)
(* wallet's account and its sequence.  A transaction is a message and the  *)
(* sequence it was signed for: signing is deterministic, so two calls with *)
(* the same message and sequence send the same bytes.                      *)
(***************************************************************************)
EXTENDS Naturals, Sequences, SequencesExt, FiniteSets

CONSTANTS Calls,      \* calls of directBroadcast with this wallet
          Msgs,       \* the messages they carry
          BroadcastFaults,  \* what may go wrong: "reply", "restart"
          MaxBroadcastFaults

VARIABLES
  msg,        \* the message of each call
  phase,      \* where each call is
  tx,         \* the transaction it has signed last
  retried,    \* the calls that have used their second attempt
  doubtful,   \* the calls that failed on a reply that did not come
  mempool,    \* the account's transactions the node holds, in order
  cache,      \* the transactions the node remembers
  sequence,   \* the account's sequence on the chain
  executed,   \* the transactions in blocks that succeeded
  reverted,   \* the transactions in blocks that failed
  broadcastFaults  \* what has gone wrong so far

vars == <<msg, phase, tx, retried, doubtful, mempool, cache, sequence, executed, reverted,
          broadcastFaults>>
node == <<mempool, cache, sequence, executed, reverted>>

Fault(k) == /\ k \in BroadcastFaults /\ broadcastFaults < MaxBroadcastFaults
            /\ broadcastFaults' = broadcastFaults + 1

Init ==
  /\ msg \in [Calls -> Msgs]
  /\ phase = [c \in Calls |-> "idle"]
  /\ tx = [c \in Calls |-> <<msg[c], 0>>]
  /\ retried = {} /\ doubtful = {}
  /\ mempool = <<>> /\ cache = {} /\ sequence = 0 /\ executed = {} /\ reverted = {}
  /\ broadcastFaults = 0

Goto(c, p) == phase' = [phase EXCEPT ![c] = p]

(***************************************************************************)
(* The call.                                                               *)
(***************************************************************************)
\* The client reads the account's sequence from the chain and the wallet signs; it may be
\* another account's wallet, the user may reject, or the node may not answer.
Sign(c) ==
  /\ phase[c] = "idle"
  /\ \/ Goto(c, "signed") /\ tx' = [tx EXCEPT ![c] = <<msg[c], sequence>>]
     \/ Goto(c, "failed") /\ UNCHANGED tx
  /\ UNCHANGED <<msg, retried, doubtful, node, broadcastFaults>>

\* CheckTx: the sequence has to follow the ones the mempool holds.
Expected(t) == t \notin cache /\ t[2] = sequence + Len(mempool)
Mismatch(t) == t \notin cache /\ t[2] # sequence + Len(mempool)
Enter(t) == mempool' = Append(mempool, t) /\ cache' = cache \cup {t}

\* A transaction the node knows counts as accepted.
Accepted(c) ==
  /\ \/ tx[c] \in cache /\ UNCHANGED <<mempool, cache>>
     \/ Expected(tx[c]) /\ Enter(tx[c])
  /\ Goto(c, "polling")
  /\ UNCHANGED <<retried, doubtful, broadcastFaults>>

\* A sequence mismatch is tried once more, with a new signature.
SequenceMismatch(c) ==
  /\ Mismatch(tx[c])
  /\ IF c \in retried THEN Goto(c, "failed") /\ UNCHANGED retried
     ELSE Goto(c, "idle") /\ retried' = retried \cup {c}
  /\ UNCHANGED <<mempool, cache, doubtful, broadcastFaults>>

\* Any other error of the node: fees, gas, a full mempool.
Refused(c) ==
  /\ tx[c] \notin cache /\ Goto(c, "failed")
  /\ UNCHANGED <<mempool, cache, retried, doubtful, broadcastFaults>>

\* The request times out after ten seconds, or its reply is lost: the page reports a
\* failure, and the node may have taken the transaction.
\* Variation: the call is tried again as it is after a mismatch.
RetryLost(c) ==
  /\ Fault("reply")
  /\ \/ Expected(tx[c]) /\ Enter(tx[c])
     \/ UNCHANGED <<mempool, cache>>
  /\ IF c \in retried THEN Goto(c, "failed") /\ doubtful' = doubtful \cup {c} /\ UNCHANGED retried
     ELSE Goto(c, "idle") /\ retried' = retried \cup {c} /\ UNCHANGED doubtful

ReplyLost(c) ==
  /\ Fault("reply")
  /\ \/ Expected(tx[c]) /\ Enter(tx[c])
     \/ UNCHANGED <<mempool, cache>>
  /\ Goto(c, "failed") /\ doubtful' = doubtful \cup {c}
  /\ UNCHANGED retried

DirectBroadcast(c) ==
  /\ phase[c] = "signed"
  /\ Accepted(c) \/ SequenceMismatch(c) \/ Refused(c) \/ ReplyLost(c)
  /\ UNCHANGED <<msg, tx, sequence, executed, reverted>>

\* The call asks for its transaction every second, and after thirty says that it may still
\* land.
PollForInclusion(c) ==
  /\ phase[c] = "polling"
  /\ \/ tx[c] \in executed /\ Goto(c, "done")
     \/ tx[c] \in reverted /\ Goto(c, "failed")
     \/ tx[c] \notin executed \cup reverted /\ Goto(c, "unsure")
  /\ UNCHANGED <<msg, tx, retried, doubtful, node, broadcastFaults>>

(***************************************************************************)
(* The chain.                                                              *)
(***************************************************************************)
Include ==
  /\ mempool # <<>>
  /\ \/ executed' = executed \cup {Head(mempool)} /\ UNCHANGED reverted
     \/ reverted' = reverted \cup {Head(mempool)} /\ UNCHANGED executed
  /\ mempool' = Tail(mempool) /\ sequence' = sequence + 1
  /\ UNCHANGED <<msg, phase, tx, retried, doubtful, cache, broadcastFaults>>

\* The node is restarted, and forgets what is in no block.
Restart ==
  /\ Fault("restart") /\ mempool' = <<>> /\ cache' = {}
  /\ UNCHANGED <<msg, phase, tx, retried, doubtful, sequence, executed, reverted>>

Next ==
  \/ Include \/ Restart
  \/ \E c \in Calls : Sign(c) \/ DirectBroadcast(c) \/ PollForInclusion(c)

Spec == Init /\ [][Next]_vars

(***************************************************************************)
(* Properties.                                                             *)
(***************************************************************************)
Txs == Msgs \X (0..Cardinality(Calls))

TypeOK ==
  /\ msg \in [Calls -> Msgs] /\ tx \in [Calls -> Txs]
  /\ phase \in [Calls -> {"idle", "signed", "polling", "done", "failed", "unsure"}]
  /\ retried \subseteq Calls /\ doubtful \subseteq Calls
  /\ mempool \in Seq(Txs) /\ cache \subseteq Txs /\ sequence \in Nat
  /\ executed \subseteq Txs /\ reverted \subseteq Txs
  /\ broadcastFaults \in 0..MaxBroadcastFaults

MayExecute(c) == phase[c] \in {"signed", "polling", "done", "unsure"} \/ c \in doubtful

\* A message is executed no more often than there are calls for it that have not ended in a
\* plain failure: the second attempt never repeats one that was taken, and two calls that
\* send the same bytes share one execution.  What a call reports done has been executed.
NeverMoreThanAsked ==
  /\ \A m \in Msgs : Cardinality({t \in executed : t[1] = m})
                       <= Cardinality({c \in Calls : msg[c] = m /\ MayExecute(c)})
  /\ \A c \in Calls : phase[c] = "done" => tx[c] \in executed
=============================================================================
