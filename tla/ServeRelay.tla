----------------------------- MODULE ServeRelay -----------------------------
(***************************************************************************)
(* How recall events leave the hub.  Consumers report serves, denials and  *)
(* outcomes; the hub stores each report as a row with status 'pending',    *)
(* keeps serves and denials on hold for relayHoldHours, and hands the org  *)
(* to a pool of relay workers.  A worker drains the org: it loads the      *)
(* pending rows with three separate queries, folds them by epoch into      *)
(* transactions, broadcasts each one, waits for its inclusion in a block   *)
(* and marks its rows 'submitted'.  Concurrently the chain watcher sees    *)
(* the included transactions and marks rows on its own.                    *)
(*                                                                         *)
(* Sources: internal/api/handlers/serves.go, internal/serves/serves.go,    *)
(* internal/chain/submit.go, internal/chain/broadcast.go,                  *)
(* internal/chain/watcher_serve.go, cmd/wevibe-hub/main.go.                *)
(*                                                                         *)
(* A row is named by its natural key, so recording the same key twice hits *)
(* the ON CONFLICT clause.  Bytes, signatures and request validation are   *)
(* left out: a row of this model is one that passed validation.  A report  *)
(* names its org, memory and epoch itself; the hub does not compare those  *)
(* of a denial with its serve's, nor ask whether that serve was recorded.  *)
(***************************************************************************)
EXTENDS Naturals, Sequences, FiniteSets

CONSTANTS
  Orgs, NoOrg,    \* organisations, and none
  Workers,        \* the goroutines running serveRelayWorker
  Serves,         \* rows of serve_events with event_type 'serve'
  Denials,        \* rows of serve_events with event_type 'denial'
  Outcomes,       \* rows of outcome_events
  OrgOf,          \* row -> org_id
  MemoryOf,       \* row -> memory_content_hash
  EpochOf,        \* row -> epoch_id
  ServeOf,        \* denial -> the serve its serve_fingerprint names
  Orphans,        \* serves whose contributor_id has no row in members
  Refused,        \* outcomes the chain rejects one by one at commit
  Exempt,         \* orgs with a relay hold of 0 hours
  QueueSize,      \* capacity of serveRelayCh
  FetchLimit,     \* serveRelayFetchLimit
  MaxMsgs,        \* maxRelayMsgsPerTx
  FaultKinds,     \* which faults happen: "report", "pass", "check", "drop", "miss", "crash"
  MaxFaults,      \* bound: how many faults happen
  MaxReRecords,   \* bound: reports of a key that is already stored
  MaxFiling       \* bound: rows whose handlers are still to enqueue, at a time

Rows == Serves \cup Denials \cup Outcomes

ASSUME RowsAssumption ==
  /\ NoOrg \notin Orgs
  /\ Serves \cap Denials = {} /\ Serves \cap Outcomes = {} /\ Denials \cap Outcomes = {}
  /\ OrgOf \in [Rows -> Orgs]
  /\ EpochOf \in [Rows -> Nat]
  /\ ServeOf \in [Denials -> Serves]
  /\ Orphans \subseteq Serves /\ Refused \subseteq Outcomes /\ Exempt \subseteq Orgs

ASSUME BoundsAssumption ==
  /\ QueueSize \in Nat \ {0} /\ FetchLimit \in Nat \ {0} /\ MaxMsgs \in Nat \ {0}
  /\ MaxFaults \in Nat /\ MaxReRecords \in Nat /\ MaxFiling \in Nat

VARIABLES
  status,         \* row -> "absent", "pending" or "submitted"
  txOf,           \* row -> tx_hash, 0 for NULL
  held,           \* pending serves and denials still within the relay hold
  older,          \* created_at order of the held rows
  filing,         \* row -> its handlers between the insert and the enqueue
  queued,         \* serveRelayQueued
  sending,        \* orgs on their way into serveRelayCh
  chan,           \* serveRelayCh
  pc, org,        \* per worker: where it is, and the org it works for
  todo,           \* per worker: loaded rows of the pass not yet submitted
  batch, tx,      \* per worker: rows and hash of the transaction in hand
  mempool,        \* org -> transaction of its serving key awaiting inclusion
  chain,          \* the included transactions, in order
  watched,        \* how many of them the watcher has gone past
  txs,            \* how many transactions were made: the last one's hash
  faults,         \* history: the faults so far
  rerecords       \* reports of stored keys so far

rowVars == <<status, txOf, held, older, filing, rerecords>>
queueVars == <<queued, sending, chan>>
workerVars == <<pc, org, todo, batch, tx>>
chainVars == <<mempool, chain, txs>>
vars == <<rowVars, queueVars, workerVars, chainVars, watched, faults>>

Tx == [id : Nat, rows : SUBSET Rows]
NoTx == [id |-> 0, rows |-> {}]

InPass == {"serves", "denials", "outcomes", "submit", "await",
           "markServes", "markDenials", "markOutcomes"}

TypeOK ==
  /\ status \in [Rows -> {"absent", "pending", "submitted"}]
  /\ txOf \in [Rows -> Nat]
  /\ held \subseteq Rows /\ older \subseteq Rows \X Rows /\ filing \in [Rows -> Nat]
  /\ queued \subseteq Orgs /\ sending \subseteq Orgs /\ chan \in Seq(Orgs)
  /\ pc \in [Workers -> InPass \cup {"idle", "release", "check"}]
  /\ org \in [Workers -> Orgs \cup {NoOrg}]
  /\ todo \in [Workers -> SUBSET Rows] /\ batch \in [Workers -> SUBSET Rows]
  /\ tx \in [Workers -> Nat]
  /\ mempool \in [Orgs -> Tx] /\ chain \in Seq(Tx) /\ watched \in Nat
  /\ txs \in Nat /\ faults \in Seq(FaultKinds) /\ rerecords \in Nat

Init ==
  /\ status = [r \in Rows |-> "absent"] /\ txOf = [r \in Rows |-> 0]
  /\ held = {} /\ older = {} /\ filing = [r \in Rows |-> 0]
  /\ queued = {} /\ sending = {} /\ chan = <<>>
  /\ pc = [w \in Workers |-> "idle"] /\ org = [w \in Workers |-> NoOrg]
  /\ todo = [w \in Workers |-> {}] /\ batch = [w \in Workers |-> {}]
  /\ tx = [w \in Workers |-> 0]
  /\ mempool = [o \in Orgs |-> NoTx] /\ chain = <<>> /\ watched = 0
  /\ txs = 0 /\ faults = <<>> /\ rerecords = 0

(***************************************************************************)
(* Rows and queries.                                                       *)
(***************************************************************************)
Kind(r) == CASE r \in Serves -> 1 [] r \in Denials -> 2 [] OTHER -> 3

\* The rows the watcher's UPDATE cannot tell apart.
Alike == {p \in Rows \X Rows : /\ OrgOf[p[1]] = OrgOf[p[2]] /\ Kind(p[1]) = Kind(p[2])
                               /\ MemoryOf[p[1]] = MemoryOf[p[2]]}

Pending(o) == {r \in Rows : OrgOf[r] = o /\ status[r] = "pending"}
Ripe(o) == Pending(o) \ held

\* GetPendingServes joins members, GetPendingDenials does not, and
\* PendingOutcomeEvents has no hold.
PendingServes(o) == (Ripe(o) \cap Serves) \ Orphans
PendingDenials(o) == Ripe(o) \cap Denials
PendingOutcomes(o) == Pending(o) \cap Outcomes

\* ORDER BY created_at LIMIT FetchLimit; which rows make the cut is left open
\* when there are more.
Fetched(R) ==
  IF Cardinality(R) <= FetchLimit THEN {R}
  ELSE {S \in SUBSET R : Cardinality(S) = FetchLimit}

\* Variation: the check after a pass forgets outcome_events.
HasPendingNoOutcomes(o) == Ripe(o) \cap (Serves \cup Denials) # {}

\* HasPendingEvents, without the join on members, or PendingOutcomeEvents.
HasPending(o) == (Ripe(o) \cap (Serves \cup Denials)) \cup PendingOutcomes(o) # {}

(***************************************************************************)
(* The relay queue.                                                        *)
(***************************************************************************)
Enqueue(O) ==
  /\ queued' = queued \cup O
  /\ sending' = sending \cup (O \ queued)
  /\ UNCHANGED chan

\* The send in enqueueServeRelay and, when the channel is full, the goroutine
\* left blocked on it.
ChanSend(o) ==
  /\ o \in sending /\ Len(chan) < QueueSize
  /\ chan' = Append(chan, o) /\ sending' = sending \ {o}
  /\ UNCHANGED <<rowVars, queued, workerVars, chainVars, watched, faults>>

\* Variation: the scan joins members and looks for serves alone.
TickerServesOnly ==
  LET eligible == {o \in Orgs : PendingServes(o) # {}} IN
  /\ ~ (eligible \subseteq queued)
  /\ Enqueue(eligible)
  /\ UNCHANGED <<rowVars, workerVars, chainVars, watched, faults>>

\* EnqueueEligibleRelays scans serve_events only, every 15 minutes.
Ticker ==
  LET eligible == {o \in Orgs : Ripe(o) \cap (Serves \cup Denials) # {}} IN
  /\ ~ (eligible \subseteq queued)
  /\ Enqueue(eligible)
  /\ UNCHANGED <<rowVars, workerVars, chainVars, watched, faults>>

(***************************************************************************)
(* The three record handlers.  Each one stores its row, those of serves    *)
(* and denials read it back, and then it enqueues the org: between the two *)
(* the row can be seen by a pass, and the handler can fail.                *)
(***************************************************************************)
Fault(kind) ==
  /\ kind \in FaultKinds /\ Len(faults) < MaxFaults
  /\ faults' = Append(faults, kind)
Happened(kind) == \E i \in 1..Len(faults) : faults[i] = kind

\* created_at is set on insert and again by ON CONFLICT DO UPDATE, so a new
\* report of a pending row sends it back to the end of the hold.
PutOnHold(r) ==
  IF OrgOf[r] \in Exempt \/ status'[r] # "pending"
  THEN UNCHANGED <<held, older>>
  ELSE /\ held' = held \cup {r}
       /\ older' = {p \in older : r \notin {p[1], p[2]}} \cup ((held \ {r}) \X {r})

\* The handler goes on to its enqueue after the insert.  A report is counted
\* against the bound when the key is already stored.
Report(r) ==
  /\ Cardinality({q \in Rows \ {r} : filing[q] > 0}) < MaxFiling
  /\ filing' = [filing EXCEPT ![r] = @ + 1]
  /\ status[r] # "absent" => rerecords < MaxReRecords
  /\ rerecords' = IF status[r] = "absent" THEN rerecords ELSE rerecords + 1

\* INSERT ... ON CONFLICT: status is only set by the insert.
Upsert(r) ==
  /\ Report(r)
  /\ status' = IF status[r] = "absent" THEN [status EXCEPT ![r] = "pending"] ELSE status
  /\ PutOnHold(r)
  /\ UNCHANGED <<txOf, queueVars, workerVars, chainVars, watched, faults>>

RecordServe(r) == r \in Serves /\ Upsert(r)
RecordDenial(r) == r \in Denials /\ Upsert(r)

\* ON CONFLICT (fingerprint) DO NOTHING; outcomes are never held.
RecordOutcome(r) ==
  /\ r \in Outcomes
  /\ Report(r)
  /\ status' = IF status[r] = "absent" THEN [status EXCEPT ![r] = "pending"] ELSE status
  /\ UNCHANGED <<txOf, held, older, queueVars, workerVars, chainVars, watched, faults>>

HandlerGoesOn(r) == filing[r] > 0 /\ filing' = [filing EXCEPT ![r] = @ - 1]

\* The end of the handler: enqueueServeRelay.
EnqueueReported(r) ==
  /\ HandlerGoesOn(r)
  /\ Enqueue({OrgOf[r]})
  /\ UNCHANGED <<status, txOf, held, older, rerecords, workerVars, chainVars, watched, faults>>

\* The insert's answer is lost, or a serve or denial cannot be read back: the
\* handler answers with an error and does not enqueue, although the row is stored.
HandlerFails(r) ==
  /\ HandlerGoesOn(r) /\ Fault("report")
  /\ UNCHANGED <<status, txOf, held, older, rerecords, queueVars, workerVars, chainVars,
                 watched>>

\* created_at <= NOW() - hold becomes true, oldest row first.
HoldElapses(r) ==
  /\ r \in held /\ \A q \in held : <<q, r>> \notin older
  /\ held' = held \ {r} /\ older' = {p \in older : r \notin {p[1], p[2]}}
  /\ UNCHANGED <<status, txOf, filing, rerecords, queueVars, workerVars, chainVars, watched,
                 faults>>

(***************************************************************************)
(* serveRelayWorker and relayPendingEventsByOrgWithDeps.                   *)
(***************************************************************************)
Goto(w, l) == pc[w] # l /\ pc' = [pc EXCEPT ![w] = l]

\* Variation: the org leaves serveRelayQueued when a worker takes it.
TakeUnqueued(w) ==
  /\ pc[w] = "idle" /\ chan # <<>>
  /\ chan' = Tail(chan) /\ org' = [org EXCEPT ![w] = Head(chan)]
  /\ queued' = queued \ {Head(chan)}
  /\ Goto(w, "serves")
  /\ UNCHANGED <<rowVars, sending, todo, batch, tx, chainVars, watched, faults>>

Take(w) ==
  /\ pc[w] = "idle" /\ chan # <<>>
  /\ chan' = Tail(chan) /\ org' = [org EXCEPT ![w] = Head(chan)]
  /\ Goto(w, "serves")
  /\ UNCHANGED <<rowVars, queued, sending, todo, batch, tx, chainVars, watched, faults>>

Load(w, at, R, next) ==
  /\ pc[w] = at
  /\ \E F \in Fetched(R) : todo' = [todo EXCEPT ![w] = @ \cup F]
  /\ Goto(w, next)
  /\ UNCHANGED <<rowVars, queueVars, org, batch, tx, chainVars, watched, faults>>

LoadServes(w) == Load(w, "serves", PendingServes(org[w]), "denials")
LoadDenials(w) == Load(w, "denials", PendingDenials(org[w]), "outcomes")
LoadOutcomes(w) ==
  Load(w, "outcomes", PendingOutcomes(org[w]),
       IF todo'[w] = {} THEN "release" ELSE "submit")

\* One message per epoch and kind; whole epochs, oldest first, while they fit
\* into maxRelayMsgsPerTx.  The first epoch goes in whatever its size.
MsgCount(R) == Cardinality({<<EpochOf[r], Kind(r)>> : r \in R})
UpTo(R, e) == {r \in R : EpochOf[r] <= e}
FirstEpoch(R) == {r \in R : \A q \in R : EpochOf[r] <= EpochOf[q]}

\* Variation: epochs newest first.
NextBatchNewestFirst(R) == {r \in R : \A q \in R : EpochOf[q] <= EpochOf[r]}

NextBatch(R) ==
  FirstEpoch(R) \cup
  UNION {UpTo(R, EpochOf[r]) : r \in {q \in R : MsgCount(UpTo(R, EpochOf[q])) <= MaxMsgs}}

\* SubmitRelayBatch: the serving key's sequence number lets one transaction
\* of an org into the mempool at a time.
Submit(w) ==
  /\ pc[w] = "submit" /\ mempool[org[w]] = NoTx
  /\ batch' = [batch EXCEPT ![w] = NextBatch(todo[w])]
  /\ txs' = txs + 1 /\ tx' = [tx EXCEPT ![w] = txs']
  /\ mempool' = [mempool EXCEPT ![org[w]] = [id |-> txs', rows |-> NextBatch(todo[w])]]
  /\ Goto(w, "await")
  /\ UNCHANGED <<rowVars, queueVars, org, todo, chain, watched, faults>>

OnChain(id) == \E i \in 1..Len(chain) : chain[i].id = id
InMempool(id) == \E o \in Orgs : mempool[o].id = id

\* Variation: broadcast_tx_sync, answered by the mempool.
CommittedSync(w) ==
  /\ pc[w] = "await" /\ (OnChain(tx[w]) \/ InMempool(tx[w]))
  /\ Goto(w, "markServes")
  /\ UNCHANGED <<rowVars, queueVars, org, todo, batch, tx, chainVars, watched, faults>>

\* broadcast_tx_commit answers with code 0 once the block holds the tx.
Committed(w) ==
  /\ pc[w] = "await" /\ OnChain(tx[w])
  /\ Goto(w, "markServes")
  /\ UNCHANGED <<rowVars, queueVars, org, todo, batch, tx, chainVars, watched, faults>>

Mark(R, id) ==
  /\ status' = [r \in Rows |-> IF r \in R THEN "submitted" ELSE status[r]]
  /\ txOf' = [r \in Rows |-> IF r \in R THEN id ELSE txOf[r]]
  /\ held' = held \ R /\ older' = {p \in older : {p[1], p[2]} \cap R = {}}
  /\ UNCHANGED <<filing, rerecords>>

MarkServes(w) ==
  /\ pc[w] = "markServes" /\ Mark(batch[w] \cap Serves, tx[w]) /\ Goto(w, "markDenials")
  /\ UNCHANGED <<queueVars, org, todo, batch, tx, chainVars, watched, faults>>

MarkDenials(w) ==
  /\ pc[w] = "markDenials" /\ Mark(batch[w] \cap Denials, tx[w]) /\ Goto(w, "markOutcomes")
  /\ UNCHANGED <<queueVars, org, todo, batch, tx, chainVars, watched, faults>>

\* The last mark ends the flush: on to the next batch of the pass, or to
\* another pass over the org.
MarkOutcomes(w) ==
  /\ pc[w] = "markOutcomes" /\ Mark(batch[w] \cap Outcomes, tx[w])
  /\ todo' = [todo EXCEPT ![w] = @ \ batch[w]]
  /\ batch' = [batch EXCEPT ![w] = {}] /\ tx' = [tx EXCEPT ![w] = 0]
  /\ Goto(w, IF todo'[w] = {} THEN "serves" ELSE "submit")
  /\ UNCHANGED <<queueVars, org, chainVars, watched, faults>>

\* The pass returns an error; its loaded rows are dropped, not its effects.
Abandon(w) ==
  /\ Goto(w, "release")
  /\ todo' = [todo EXCEPT ![w] = {}] /\ batch' = [batch EXCEPT ![w] = {}]
  /\ tx' = [tx EXCEPT ![w] = 0]
  /\ UNCHANGED <<rowVars, queueVars, org, chainVars, watched>>

\* Sequence mismatch, also after the reload: the org's previous transaction
\* is still in the mempool.
SubmitRejected(w) ==
  /\ pc[w] = "submit" /\ mempool[org[w]] # NoTx
  /\ Abandon(w) /\ UNCHANGED faults

\* The chain dropped the transaction: check_tx or deliver_tx code, eviction.
NotIncluded(w) ==
  /\ pc[w] = "await" /\ ~ OnChain(tx[w]) /\ ~ InMempool(tx[w])
  /\ Abandon(w) /\ UNCHANGED faults

\* A query, a broadcast or an UPDATE fails, the answer is lost, or the pass
\* runs into serveRelayTimeout.
PassFails(w) == pc[w] \in InPass /\ Abandon(w) /\ Fault("pass")

\* Variation: the org stays in serveRelayQueued.
ReleaseKeepsQueued(w) ==
  /\ pc[w] = "release" /\ Goto(w, "check")
  /\ UNCHANGED <<rowVars, queueVars, org, todo, batch, tx, chainVars, watched, faults>>

Release(w) ==
  /\ pc[w] = "release" /\ Goto(w, "check")
  /\ queued' = queued \ {org[w]}
  /\ UNCHANGED <<rowVars, sending, chan, org, todo, batch, tx, chainVars, watched, faults>>

\* Variation: the org variable is cleared before the re-enqueue.
CheckCleared(w) ==
  /\ pc[w] = "check" /\ Goto(w, "idle") /\ org' = [org EXCEPT ![w] = NoOrg]
  /\ IF HasPending(org[w]) THEN Enqueue({org'[w]}) ELSE UNCHANGED queueVars
  /\ UNCHANGED <<rowVars, todo, batch, tx, chainVars, watched, faults>>

Check(w) ==
  /\ pc[w] = "check" /\ Goto(w, "idle") /\ org' = [org EXCEPT ![w] = NoOrg]
  /\ IF HasPending(org[w]) THEN Enqueue({org[w]}) ELSE UNCHANGED queueVars
  /\ UNCHANGED <<rowVars, todo, batch, tx, chainVars, watched, faults>>

\* hasPendingRelayEvents returns an error: the worker moves on.
CheckFails(w) ==
  /\ pc[w] = "check" /\ Goto(w, "idle") /\ org' = [org EXCEPT ![w] = NoOrg]
  /\ Fault("check")
  /\ UNCHANGED <<rowVars, queueVars, todo, batch, tx, chainVars, watched>>

(***************************************************************************)
(* The chain and its watcher.                                              *)
(***************************************************************************)
Include(o) ==
  /\ mempool[o] # NoTx
  /\ chain' = Append(chain, mempool[o])
  /\ mempool' = [mempool EXCEPT ![o] = NoTx]
  /\ UNCHANGED <<rowVars, queueVars, workerVars, txs, watched, faults>>

Drop(o) ==
  /\ mempool[o] # NoTx /\ Fault("drop")
  /\ mempool' = [mempool EXCEPT ![o] = NoTx]
  /\ UNCHANGED <<rowVars, queueVars, workerVars, chain, txs, watched>>

\* Variation: the UPDATE forgets memory_content_hash.
SettledWholeOrg(R) ==
  {r \in Serves \cup Denials : status[r] = "pending" /\ \E q \in R : OrgOf[q] = OrgOf[r]}
  \cup ((R \cap Outcomes) \ Refused)

\* processServeBatchBookkeeping and processDenialBatchBookkeeping update every
\* pending row of the entry's org, memory and type; processEventBatchBookkeeping
\* updates the rows whose fingerprint the chain accepted.
Settled(R) ==
  {r \in Serves \cup Denials : status[r] = "pending" /\ \E q \in R : <<q, r>> \in Alike}
  \cup ((R \cap Outcomes) \ Refused)

Watch ==
  /\ watched < Len(chain)
  /\ watched' = watched + 1
  /\ Mark(Settled(chain[watched + 1].rows), chain[watched + 1].id)
  /\ UNCHANGED <<queueVars, workerVars, chainVars, faults>>

\* The block was committed while the watcher was not subscribed, or its
\* bookkeeping failed: the cursor moves on all the same.
WatchMiss ==
  /\ watched < Len(chain) /\ Fault("miss")
  /\ watched' = watched + 1
  /\ UNCHANGED <<rowVars, queueVars, workerVars, chainVars>>

\* The process dies: the handlers, the queue, the workers and their batches are lost.
Crash ==
  /\ Fault("crash")
  /\ queued' = {} /\ sending' = {} /\ chan' = <<>>
  /\ pc' = [w \in Workers |-> "idle"] /\ org' = [w \in Workers |-> NoOrg]
  /\ todo' = [w \in Workers |-> {}] /\ batch' = [w \in Workers |-> {}]
  /\ tx' = [w \in Workers |-> 0] /\ filing' = [r \in Rows |-> 0]
  /\ UNCHANGED <<status, txOf, held, older, rerecords, chainVars, watched>>

-----------------------------------------------------------------------------
WorkerStep(w) ==
  \/ Take(w) \/ LoadServes(w) \/ LoadDenials(w) \/ LoadOutcomes(w)
  \/ Submit(w) \/ SubmitRejected(w) \/ Committed(w) \/ NotIncluded(w)
  \/ MarkServes(w) \/ MarkDenials(w) \/ MarkOutcomes(w)
  \/ Release(w) \/ Check(w)

RowStep(r) ==
  \/ RecordServe(r) \/ RecordDenial(r) \/ RecordOutcome(r)
  \/ EnqueueReported(r) \/ HandlerFails(r) \/ HoldElapses(r)

Next ==
  \/ \E r \in Rows : RowStep(r)
  \/ \E w \in Workers : WorkerStep(w) \/ PassFails(w) \/ CheckFails(w)
  \/ \E o \in Orgs : ChanSend(o) \/ Include(o) \/ Drop(o)
  \/ Ticker \/ Watch \/ WatchMiss \/ Crash

\* Every goroutine keeps running, time passes, the 15-minute ticker ticks and
\* the chain keeps making blocks.  A full channel serves its blocked senders in
\* turn, so a send that is possible again and again happens.  Nothing is
\* assumed of the reporters, of the watcher or of the faults.
Fairness ==
  /\ \A w \in Workers : WF_vars(WorkerStep(w))
  /\ \A o \in Orgs : SF_vars(ChanSend(o)) /\ WF_vars(Include(o))
  /\ WF_vars(\E r \in Rows : EnqueueReported(r)) /\ WF_vars(\E r \in Rows : HoldElapses(r))
  /\ WF_vars(Ticker)

Spec == Init /\ [][Next]_vars
FairSpec == Spec /\ Fairness

-----------------------------------------------------------------------------
(***************************************************************************)
(* Properties.                                                             *)
(***************************************************************************)
Working(w) == pc[w] \in InPass \cup {"release"}

\* "only one relay pass runs at a time for a given orgID" (handlers/serves.go,
\* above the pass loop): no two workers are ever inside a pass of one org.
SingleFlight ==
  \A v, w \in Workers : v # w /\ Working(v) /\ Working(w) => org[v] # org[w]

\* An org marked as queued is somewhere on its way: in a pending send, in the
\* channel or with a worker.  Otherwise enqueueServeRelay would refuse the org
\* for the rest of the process's life.
NoStrandedOrg ==
  \A o \in queued : \/ o \in sending
                    \/ \E i \in 1..Len(chan) : chan[i] = o
                    \/ \E w \in Workers : Working(w) /\ org[w] = o

\* A row that needs no hold is never left behind with nobody about to look at
\* its org, although enqueueServeRelay ignores an org whose pass is already
\* past its queries: the worker unqueues first and checks afterwards.  Only a
\* handler that fails after its insert, a failed check or a crash loses the wake-up.
NoLostWakeup ==
  ~ Happened("report") /\ ~ Happened("check") /\ ~ Happened("crash") =>
    \A r \in Rows : status[r] = "pending" /\ (r \in Outcomes \/ OrgOf[r] \in Exempt) =>
      \/ OrgOf[r] \in queued \/ filing[r] > 0
      \/ \E w \in Workers : pc[w] = "check" /\ org[w] = OrgOf[r]

\* A submitted row carries the hash of an included transaction that holds an
\* entry of the same org, kind and memory, whoever marked the row and
\* whatever failed or crashed in between.
SubmittedIsBacked ==
  \A r \in Rows : status[r] = "submitted" =>
    \E i \in 1..Len(chain) :
      /\ chain[i].id = txOf[r]
      /\ \E q \in chain[i].rows : <<q, r>> \in Alike

\* Unless a pass fails or the process dies between broadcast and mark, no row
\* is put into two included transactions, by one worker or by several.
IncludedOnce ==
  ~ Happened("pass") /\ ~ Happened("crash") =>
    \A i, j \in 1..Len(chain) : i # j => chain[i].rows \cap chain[j].rows = {}

\* Within a pass no transaction carries a denial while its serve is left for a
\* later transaction of the pass, if the denial was not reported for an earlier
\* epoch than the serve: the hub takes the epoch from the report, and a denial
\* of an earlier epoch does go first.
ServeFirstInPass ==
  \A w \in Workers : \A d \in batch[w] \cap Denials :
    ServeOf[d] \in todo[w] /\ EpochOf[ServeOf[d]] <= EpochOf[d] => ServeOf[d] \in batch[w]

\* The relay implements Outbox: crashes, lost answers, repeated broadcasts and
\* the watcher never settle a row without a delivery of its kind, memory and
\* org, and never deliver what was not recorded.
Delivered == UNION {chain[i].rows : i \in 1..Len(chain)}
Ledger == INSTANCE Outbox WITH delivered <- Delivered
ImplementsOutbox == Ledger!Spec

\* Every pending serve with a known contributor and every pending denial is
\* submitted in the end, whatever failed or crashed: the ticker finds them.
ServesLeave ==
  \A r \in (Serves \ Orphans) \cup Denials :
    status[r] = "pending" ~> status[r] = "submitted"

\* So is every pending outcome, unless its handler or a check fails or the
\* process dies: the ticker does not look for outcomes.
OutcomesLeave ==
  \A r \in Outcomes :
    status[r] = "pending" ~>
      \/ status[r] = "submitted"
      \/ Happened("report") \/ Happened("check") \/ Happened("crash")

\* handlers/serves.go, ConfirmServeEvent: "The confirmed-on-chain state is
\* derived by the caller from status == 'submitted' AND tx_hash IS NOT NULL."
ConfirmedIsOnChain ==
  \A r \in Serves : status[r] = "submitted" /\ txOf[r] # 0 =>
    \E i \in 1..Len(chain) : r \in chain[i].rows
=============================================================================
