---------------------------- MODULE VerifyQueue ----------------------------
(***************************************************************************)
(* The leader's approval panel and its verification queue, in one browser  *)
(* tab (lib/verify-queue.ts, components/moderation/leader-pipeline-panel). *)
(* The leader approves the memories that wait for keywords; the queue      *)
(* stores their keywords, has the local MCP server embed them and asks the *)
(* hub to verify them, one memory at a time; verified memories are sent to *)
(* the chain in a batch.  The panel works on lists it has read earlier,    *)
(* the hub moves on meanwhile, replies get lost and the page is reloaded.  *)
(* Every handler saves the queue in localStorage before it yields, so what *)
(* a reload finds is what the tab held.                                    *)
(***************************************************************************)
EXTENDS Naturals, FiniteSets, Sequences, SequencesExt, Filter

CONSTANTS Memories,     \* the submissions of the organisation
          Bannable,     \* the sets of memories of a contributor who may be banned
          NoBatch,      \* a memory the queue shows in no batch
          Refreshes,    \* how many refreshes of the panel may be in flight at once
          QueueFaults,  \* what may go wrong: "reply", "list", "mcp", "reload", "reset", "ban"
          MaxQueueFaults

VARIABLES
  status,      \* the hub's row of each memory
  onChain,     \* the memories recorded by the chain
  jobs,        \* the queue: memory and batch; the running job is its head
  step,        \* the request the running job waits for
  reply,       \* its answer on the way back
  batchOf,     \* the batch each memory is shown in
  verified,    \* the memories marked verified in their batch
  failed,      \* the memories with a failure reason
  inputs,      \* the memories whose input is kept for a retry
  review,      \* the panel's list of memories that wait for keywords
  ready,       \* the panel's list of memories that wait for the chain
  load,        \* what each refresh in flight has read
  sending,     \* the batch being sent
  mcp,         \* the tab's view of the MCP server: "connected" or not yet (again)
  queueFaults  \* what has gone wrong so far

vars == <<status, onChain, jobs, step, reply, batchOf, verified, failed, inputs,
          review, ready, load, sending, mcp, queueFaults>>
tabQueue == <<jobs, step, reply, batchOf, verified, failed, inputs>>
lists == <<review, ready, load>>

Pending == {"pending_keyword", "pending_chain"}
BatchIds == 1..(2 * Cardinality(Memories) + 1)

(***************************************************************************)
(* Helpers.                                                                *)
(***************************************************************************)
Shown == {m \in Memories : batchOf[m] # NoBatch}
Batch(b) == {m \in Memories : batchOf[m] = b}
Queued == {jobs[i].memory : i \in DOMAIN jobs}
Current == jobs[1].memory
WithoutMemory(m) == Kept(jobs, {i \in DOMAIN jobs : jobs[i].memory # m})
Rows(s) == {m \in Memories : status[m] = s}
Idle == [keyword |-> {}, chain |-> {}, phase |-> "idle"]
Loading == \E f \in Refreshes : load[f].phase = "marked"
Connected == mcp = "connected"

\* Ids that no batch and no job uses, one for each member of S.
FreshIds(S) ==
  LET used == {batchOf[m] : m \in Shown} \cup {jobs[i].batch : i \in DOMAIN jobs}
  IN  CHOOSE f \in [S -> BatchIds \ used] : IsInjective(f)

\* A batch whose memories are all verified has nothing left to show.
Concluded(of, done) == {m \in Memories : of[m] # NoBatch
                           /\ \A n \in Memories : of[n] = of[m] => n \in done}

Without(of, S) == [m \in Memories |-> IF m \in S THEN NoBatch ELSE of[m]]

\* processNext: the first queued job starts if none runs and the MCP server is there.
ProcessNext(queue, busy) ==
  IF busy # "idle" THEN busy
  ELSE IF queue # <<>> /\ Connected THEN "update" ELSE "idle"

Fault(k) == /\ k \in QueueFaults /\ queueFaults < MaxQueueFaults
            /\ queueFaults' = queueFaults + 1

Init ==
  /\ status = [m \in Memories |-> "pending_keyword"] /\ onChain = {}
  /\ jobs = <<>> /\ step = "idle" /\ reply = "none"
  /\ batchOf = [m \in Memories |-> NoBatch] /\ verified = {} /\ failed = {} /\ inputs = {}
  /\ review = {} /\ ready = {} /\ load = [f \in Refreshes |-> Idle]
  /\ sending = {} /\ mcp = "connecting" /\ queueFaults = 0

(***************************************************************************)
(* What the panel offers.  Without the MCP server it offers nothing.       *)
(***************************************************************************)
Awaiting == review \ (Shown \cup Queued)
Ready == ready \ Shown
CanApprove == Connected /\ ~Loading /\ Awaiting # {}
CanRemove(m) == Connected /\ ~Loading /\ m \in Awaiting
CanRemoveReady(m) == Connected /\ ~Loading /\ m \in Ready
CanBan(S) == Connected /\ ~Loading /\ S \cap (Awaiting \cup Ready) # {}
CanSend == Connected /\ ~Loading /\ sending = {} /\ Ready # {} /\ Shown = {}
CanRetry(m) == Connected /\ m \in failed \cap Shown

(***************************************************************************)
(* The panel.                                                              *)
(***************************************************************************)
\* handleVerifyAll queues every listed memory that is in no batch, as a new batch.
EnqueueVerificationBatch(q) ==
  LET S == Range(q)
      b == FreshIds({0})[0]
      queue == jobs \o [i \in DOMAIN q |-> [memory |-> q[i], batch |-> b]]
  IN  /\ batchOf' = [m \in Memories |-> IF m \in S THEN b ELSE batchOf[m]]
      /\ inputs' = inputs \cup S
      /\ failed' = failed \ S
      /\ jobs' = queue
      /\ step' = ProcessNext(queue, step)

VerifyAll ==
  /\ CanApprove
  /\ EnqueueVerificationBatch(SetToSeq(Awaiting))
  /\ UNCHANGED <<status, onChain, reply, verified, lists, sending, mcp, queueFaults>>

\* The Retry button of a failed memory.
RetryVerification(m) ==
  /\ CanRetry(m)
  /\ failed' = failed \ {m}
  /\ IF m \in Queued \/ m \notin inputs
     THEN UNCHANGED <<jobs, step, verified>>
     ELSE /\ jobs' = Append(jobs, [memory |-> m, batch |-> batchOf[m]])
          /\ step' = ProcessNext(jobs', step)
          /\ verified' = verified \ {m}
  /\ UNCHANGED <<status, onChain, reply, batchOf, inputs, lists, sending, mcp, queueFaults>>

\* The Dismiss button of a failed memory.
RemoveVerification(m) ==
  /\ CanRetry(m)
  /\ jobs' = WithoutMemory(m)
  /\ failed' = failed \ {m} /\ inputs' = inputs \ {m}
  /\ LET of == Without(batchOf, {m})
         gone == {n \in Concluded(of, verified) : of[n] = batchOf[m]}
     IN  /\ batchOf' = Without(of, gone)
         /\ verified' = verified \ (gone \cup {m})
  /\ UNCHANGED <<status, onChain, step, reply, lists, sending, mcp, queueFaults>>

\* loadAll marks the panel as loading and asks the hub for both lists at once; one that cannot
\* be read comes out empty.  Nothing waits for an earlier refresh: the timer and the handlers
\* may begin another one, and they end in any order.
Read(row) == [keyword |-> {m \in Memories : row[m] = "pending_keyword"},
              chain   |-> {m \in Memories : row[m] = "pending_chain"},
              phase   |-> "marked"]

Begin(read) ==
  \E f \in Refreshes : load[f].phase = "idle" /\ load' = [load EXCEPT ![f] = read]

LoadAll ==
  /\ Connected
  /\ \/ Begin(Read(status)) /\ UNCHANGED queueFaults
     \/ /\ Fault("list")
        /\ \/ Begin([Read(status) EXCEPT !.keyword = {}])
           \/ Begin([Read(status) EXCEPT !.chain = {}])
  /\ UNCHANGED <<status, onChain, tabQueue, review, ready, sending, mcp>>

\* Then it has the MCP server decrypt what it has read, drops the batches whose memories all
\* wait for the chain, shows the lists, and takes the mark away, its own or another's.
\* Variation: only a batch that is the whole list is dropped.
ReconcileWholeList(chain) ==
  LET settled == {m \in Shown : Batch(batchOf[m]) = chain}
  IN  /\ batchOf' = Without(batchOf, settled)
      /\ verified' = verified \ settled

ReconcileSettledHashes(chain) ==
  LET settled == {m \in Shown : Batch(batchOf[m]) \subseteq chain}
  IN  /\ batchOf' = Without(batchOf, settled)
      /\ verified' = verified \ settled

Unmarked(r) == IF r.phase = "idle" THEN r ELSE [r EXCEPT !.phase = "unmarked"]

EndOfLoad(f) ==
  /\ load[f].phase # "idle"
  /\ review' = load[f].keyword /\ ready' = load[f].chain
  /\ load' = [g \in Refreshes |-> IF g = f THEN Idle ELSE Unmarked(load[g])]
  /\ ReconcileSettledHashes(load[f].chain)

ShowLists ==
  /\ \E f \in Refreshes : EndOfLoad(f)
  /\ UNCHANGED <<status, onChain, jobs, step, reply, failed, inputs, sending, mcp, queueFaults>>

\* The Remove button of a card that is in no batch: the hub denies a pending row.
DenyFinal(m) ==
  /\ CanRemove(m) \/ CanRemoveReady(m)
  /\ status[m] \in Pending
  /\ status' = [status EXCEPT ![m] = "denied"]
  /\ Begin(Read(status'))
  /\ UNCHANGED <<onChain, tabQueue, review, ready, sending, mcp, queueFaults>>

\* Ban contributor: once the chain has revoked the capability the hub denies every
\* pending row of the contributor, whatever the queue is doing with it.
BanContributor(S) ==
  /\ CanBan(S) /\ Fault("ban")
  /\ \E m \in S : status[m] \in Pending
  /\ status' = [m \in Memories |->
                   IF m \in S /\ status[m] \in Pending THEN "denied" ELSE status[m]]
  /\ Begin(Read(status'))
  /\ UNCHANGED <<onChain, tabQueue, review, ready, sending, mcp>>

\* Send Batch: the hub prepares every row that waits for the chain, listed or not.
PrepareBatchSubmit ==
  /\ CanSend
  /\ Rows("pending_chain") # {}
  /\ sending' = Rows("pending_chain")
  /\ UNCHANGED <<status, onChain, tabQueue, lists, mcp, queueFaults>>

\* The chain takes the batch as a whole, or refuses it for a memory it already has.
BroadcastBatch ==
  /\ sending # {} /\ sending' = {}
  /\ IF sending \cap onChain = {}
     THEN /\ onChain' = onChain \cup sending
          /\ review' = review \ sending /\ ready' = ready \ sending
     ELSE UNCHANGED <<onChain, review, ready>>
  /\ UNCHANGED <<status, tabQueue, load, mcp, queueFaults>>

\* The hub's watcher, later.
Commit(m) ==
  /\ m \in onChain /\ status[m] = "pending_chain"
  /\ status' = [status EXCEPT ![m] = "committed"]
  /\ UNCHANGED <<onChain, tabQueue, lists, sending, mcp, queueFaults>>

(***************************************************************************)
(* The running job: updateKeywords, embed, verifyKeywords.                 *)
(***************************************************************************)
Answer(a) == reply' = a /\ UNCHANGED step
NextStage(s) == step' = s /\ UNCHANGED reply

\* The hub stores keywords for a row in either pending status.
StoreKeywords ==
  /\ step = "update" /\ reply = "none"
  /\ IF status[Current] \in Pending THEN NextStage("embed") ELSE Answer("error")
  /\ UNCHANGED status

\* The MCP server embeds the card, or it, or a request so far, fails.
Embed ==
  /\ step = "embed" /\ reply = "none"
  /\ NextStage("verify") \/ Answer("error")
  /\ UNCHANGED status

\* The hub verifies a row that waits for keywords, and the verification may not pass.
VerifyKeywords ==
  /\ step = "verify" /\ reply = "none"
  /\ \/ /\ status[Current] = "pending_keyword"
        /\ status' = [status EXCEPT ![Current] = "pending_chain"]
        /\ Answer("ok")
     \/ Answer("error") /\ UNCHANGED status

Serve ==
  /\ StoreKeywords \/ Embed \/ VerifyKeywords
  /\ UNCHANGED <<onChain, jobs, batchOf, verified, failed, inputs, lists, sending, mcp,
                 queueFaults>>

\* An answer of the verification that does not come back although the row was verified.
Lose ==
  /\ reply = "ok" /\ Fault("reply") /\ Answer("error")
  /\ UNCHANGED <<status, onChain, jobs, batchOf, verified, failed, inputs, lists, sending, mcp>>

\* runJob's catch and finally blocks, without and with a failure.
\* Variation: any answer of the verification counts as passed.
FinishAnswered(m) ==
  /\ reply # "none"
  /\ failed' = failed \ {m} /\ inputs' = inputs \ {m} /\ verified' = verified \cup {m}
  /\ batchOf' = IF m \in Shown THEN batchOf ELSE [batchOf EXCEPT ![m] = jobs[1].batch]

FinishVerified(m) ==
  /\ reply = "ok"
  /\ failed' = failed \ {m} /\ inputs' = inputs \ {m} /\ verified' = verified \cup {m}
  /\ batchOf' = IF m \in Shown THEN batchOf ELSE [batchOf EXCEPT ![m] = jobs[1].batch]

\* Variation: the failure is not recorded.
FinishFailedSilently(m) ==
  /\ reply = "error"
  /\ inputs' = inputs \cup {m}
  /\ UNCHANGED <<failed, batchOf, verified>>

FinishFailed(m) ==
  /\ reply = "error"
  /\ failed' = failed \cup {m} /\ inputs' = inputs \cup {m}
  /\ UNCHANGED <<batchOf, verified>>

FinishJob ==
  /\ \/ step = "verify" /\ FinishVerified(Current)
     \/ step # "idle" /\ FinishFailed(Current)
  /\ jobs' = WithoutMemory(Current)
  /\ reply' = "none" /\ step' = ProcessNext(jobs', "idle")
  /\ UNCHANGED <<status, onChain, lists, sending, mcp, queueFaults>>

RunJob == Serve \/ FinishJob

(***************************************************************************)
(* The health poll, and the effect that resumes the queue on a connection. *)
(***************************************************************************)
Connect ==
  /\ ~Connected /\ mcp' = "connected"
  /\ step' = IF step = "idle" /\ jobs # <<>> THEN "update" ELSE step
  /\ UNCHANGED <<status, onChain, jobs, reply, batchOf, verified, failed, inputs, lists,
                 sending, queueFaults>>

Disconnect ==
  /\ Connected /\ Fault("mcp") /\ mcp' = "connecting"
  /\ UNCHANGED <<status, onChain, tabQueue, lists, sending>>

\* The page is reloaded: loadPersistedState queues the jobs again, drops the concluded
\* batches and gives each failure a batch.  A request on its way may still be served.
LoadPersistedState ==
  LET kept == Without(batchOf, Concluded(batchOf, verified))
      lost == {m \in failed : kept[m] = NoBatch}
      own  == FreshIds(lost)
  IN  /\ batchOf' = [m \in Memories |->
                       CASE m \in lost -> own[m]
                         [] kept[m] = NoBatch /\ m \in Queued ->
                              (CHOOSE j \in Range(jobs) : j.memory = m).batch
                         [] OTHER -> kept[m]]
      /\ verified' = {m \in verified : kept[m] # NoBatch}
      /\ inputs' = inputs \cup Queued
      /\ UNCHANGED <<jobs, failed>>

\* Another hub instance than the one the queue was saved under: nothing is restored.
ClearPersistedQueueState ==
  /\ jobs' = <<>> /\ batchOf' = [m \in Memories |-> NoBatch]
  /\ verified' = {} /\ failed' = {} /\ inputs' = {}

Reload ==
  /\ \/ Fault("reload") /\ LoadPersistedState
     \/ Fault("reset") /\ ClearPersistedQueueState
  /\ step' = "idle" /\ reply' = "none" /\ mcp' = "connecting"
  /\ review' = {} /\ ready' = {} /\ load' = [f \in Refreshes |-> Idle]
  /\ \/ UNCHANGED status
     \/ /\ step = "verify" /\ reply = "none" /\ status[Current] = "pending_keyword"
        /\ status' = [status EXCEPT ![Current] = "pending_chain"]
  /\ sending' = {} /\ UNCHANGED onChain

Panel ==
  \/ VerifyAll \/ LoadAll \/ ShowLists \/ PrepareBatchSubmit \/ BroadcastBatch
  \/ \E m \in Memories : RetryVerification(m) \/ RemoveVerification(m) \/ DenyFinal(m)
  \/ \E S \in Bannable : BanContributor(S)

Next ==
  \/ Panel \/ RunJob \/ Lose \/ Connect \/ Disconnect \/ Reload
  \/ \E m \in Memories : Commit(m)

Spec == Init /\ [][Next]_vars

(***************************************************************************)
(* The queue's requests are answered in the end, the panel refreshes every *)
(* five seconds, and the health poll finds the MCP server again.           *)
(***************************************************************************)
Refresh == LoadAll \/ ShowLists

FairSpec == Spec /\ WF_vars(RunJob) /\ WF_vars(Refresh) /\ WF_vars(Connect)

(***************************************************************************)
(* Properties.                                                             *)
(***************************************************************************)
JobSet == [memory : Memories, batch : BatchIds]

TypeOK ==
  /\ status \in [Memories -> Pending \cup {"committed", "denied"}]
  /\ onChain \subseteq Memories
  /\ jobs \in Seq(JobSet) /\ step \in {"idle", "update", "embed", "verify"}
  /\ reply \in {"none", "ok", "error"}
  /\ batchOf \in [Memories -> BatchIds \cup {NoBatch}]
  /\ verified \subseteq Memories /\ failed \subseteq Memories /\ inputs \subseteq Memories
  /\ review \subseteq Memories /\ ready \subseteq Memories /\ sending \subseteq Memories
  /\ \A f \in Refreshes : load[f].phase \in {"idle", "marked", "unmarked"}
  /\ mcp \in {"connecting", "connected"} /\ queueFaults \in 0..MaxQueueFaults

\* No memory of a batch just sits there, although a batch on screen is what keeps Send
\* Batch disabled: it has a job, a verification behind it, or a failure with the input a
\* retry needs; and a queued job is not left waiting once the MCP server is connected.
NothingHangs ==
  /\ Shown \subseteq Queued \cup verified \cup (failed \cap inputs)
  /\ Connected /\ jobs # <<>> => step # "idle"

\* What the queue calls verified the hub has taken for the chain, or has seen denied since:
\* a lost answer, a reload or a stale list never turns a pending row into a verified item.
VerifiedIsVerified == \A m \in verified : status[m] # "pending_keyword"

\* No batch is on screen, or one that reconcileSettledHashes cannot take away: it never finds
\* the whole batch waiting for the chain when a memory on it has failed (and waits for Retry
\* or Dismiss) or has left the pending rows behind the panel's back.
Cleared == Shown = {} \/ \E m \in Shown : m \in failed \/ status[m] \notin Pending

\* The batches leave the screen, which enables Send Batch, or are of the second kind.
BatchesClear == Shown # {} ~> Cleared
=============================================================================
