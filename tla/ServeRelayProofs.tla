--------------------------- MODULE ServeRelayProofs ---------------------------
(***************************************************************************)
(* Theorems about ServeRelay, for every set of orgs, workers and rows and  *)
(* for every capacity and fault budget: its variables keep their types;    *)
(* relay passes are single-flight per org and no org is stranded in        *)
(* serveRelayQueued; within a pass no denial is sent ahead of its serve,   *)
(* unless it names an earlier epoch; and no report that comes in during a  *)
(* pass is forgotten.                                                      *)
(*                                                                         *)
(* An org is held by at most one of the pending sends, the channel and the *)
(* workers inside a pass, and it is queued exactly when it is held: this   *)
(* is the inductive invariant, QueueInv. A row that a pass has missed has  *)
(* its org queued, its handler about to enqueue it, or a worker about to   *)
(* check it (WakeInv).                                                     *)
(***************************************************************************)
EXTENDS ServeRelay, TLAPS

-----------------------------------------------------------------------------
(***************************************************************************)
(* Facts about the operators of the model.                                 *)
(***************************************************************************)

\* A query returns some of the rows that satisfy it.
LEMMA FetchedIsSubset ==
  ASSUME NEW R, NEW F \in Fetched(R)
  PROVE  F \subseteq R
BY DEF Fetched

\* A transaction of a pass is built from the loaded rows.
LEMMA NextBatchIsSubset ==
  ASSUME NEW R
  PROVE  NextBatch(R) \subseteq R
BY DEF NextBatch, FirstEpoch, UpTo

\* Rows of the watcher's UPDATE are rows.
LEMMA SettledIsSubset ==
  ASSUME NEW R \in SUBSET Rows
  PROVE  Settled(R) \subseteq Rows
BY DEF Settled, Rows

\* A worker that is not idle works for an org.
WorkerOrg == \A w \in Workers : pc[w] # "idle" => org[w] \in Orgs

TypeInv == TypeOK /\ WorkerOrg

\* The relay starts with its types.
LEMMA InitType == Init => TypeInv
BY RowsAssumption DEF Init, TypeInv, TypeOK, WorkerOrg, Tx, NoTx, InPass

\* The steps that touch neither the workers nor the chain.
LEMMA RecordType ==
  ASSUME TypeInv, NEW r \in Rows, RowStep(r)
  PROVE  TypeInv'
<1> USE DEF TypeInv, TypeOK, WorkerOrg, Report, HandlerGoesOn, Enqueue, Fault, queueVars,
            workerVars, chainVars
<1>1. OrgOf[r] \in Orgs
  BY RowsAssumption
<1>2. CASE RecordServe(r) \/ RecordDenial(r)
  <2>1. Upsert(r)
    BY <1>2 DEF RecordServe, RecordDenial
  <2>2. held' \subseteq Rows /\ older' \subseteq Rows \X Rows
    BY <2>1 DEF Upsert, PutOnHold
  <2> QED
    BY <2>1, <2>2 DEF Upsert
<1>3. CASE RecordOutcome(r)
  BY <1>3 DEF RecordOutcome
<1>4. CASE EnqueueReported(r)
  BY <1>1, <1>4 DEF EnqueueReported
<1>5. CASE HandlerFails(r)
  BY <1>5 DEF HandlerFails
<1>6. CASE HoldElapses(r)
  BY <1>6 DEF HoldElapses
<1> QED
  BY <1>2, <1>3, <1>4, <1>5, <1>6 DEF RowStep

\* A mark keeps the types.
LEMMA MarkType ==
  ASSUME TypeOK, NEW R \in SUBSET Rows, NEW id \in Nat, Mark(R, id)
  PROVE  /\ status' \in [Rows -> {"absent", "pending", "submitted"}]
         /\ txOf' \in [Rows -> Nat]
         /\ held' \subseteq Rows /\ older' \subseteq Rows \X Rows
         /\ rerecords' \in Nat /\ filing' \in [Rows -> Nat]
BY DEF TypeOK, Mark

\* A query keeps the types.
LEMMA LoadType ==
  ASSUME TypeInv, NEW w \in Workers, NEW at, NEW R \in SUBSET Rows, NEW next \in InPass \cup {"release"},
         at \in InPass, Load(w, at, R, next)
  PROVE  TypeInv'
<1> USE DEF TypeInv, TypeOK, WorkerOrg, rowVars, queueVars, chainVars, InPass
<1>1. PICK F \in Fetched(R) : todo' = [todo EXCEPT ![w] = @ \cup F]
  BY DEF Load
<1>2. F \subseteq Rows
  BY FetchedIsSubset
<1> QED
  BY <1>1, <1>2 DEF Load, Goto

\* Every step of a worker keeps the types.
LEMMA WorkerType ==
  ASSUME TypeInv, NEW w \in Workers, WorkerStep(w)
  PROVE  TypeInv'
<1> USE DEF TypeInv, TypeOK, WorkerOrg, rowVars, queueVars, workerVars, chainVars, InPass, Goto
<1>1. CASE Take(w)
  <2>1. Head(chan) \in Orgs /\ Tail(chan) \in Seq(Orgs)
    BY <1>1 DEF Take
  <2> QED
    BY <1>1, <2>1 DEF Take
<1>2. CASE LoadServes(w)
  BY <1>2, LoadType DEF LoadServes, PendingServes, Ripe, Pending
<1>3. CASE LoadDenials(w)
  BY <1>3, LoadType DEF LoadDenials, PendingDenials, Ripe, Pending
<1>4. CASE LoadOutcomes(w)
  BY <1>4, LoadType DEF LoadOutcomes, PendingOutcomes, Pending
<1>5. CASE Submit(w)
  <2>1. NextBatch(todo[w]) \subseteq Rows
    BY NextBatchIsSubset
  <2>2. [id |-> txs', rows |-> NextBatch(todo[w])] \in Tx
    BY <1>5, <2>1 DEF Submit, Tx
  <2> QED
    BY <1>5, <2>1, <2>2 DEF Submit
<1>6. CASE SubmitRejected(w)
  BY <1>6 DEF SubmitRejected, Abandon
<1>7. CASE Committed(w)
  BY <1>7 DEF Committed
<1>8. CASE NotIncluded(w)
  BY <1>8 DEF NotIncluded, Abandon
<1>9. CASE MarkServes(w)
  <2>1. Mark(batch[w] \cap Serves, tx[w]) /\ batch[w] \cap Serves \in SUBSET Rows
    BY <1>9 DEF MarkServes
  <2> QED
    BY <1>9, <2>1, MarkType DEF MarkServes
<1>10. CASE MarkDenials(w)
  <2>1. Mark(batch[w] \cap Denials, tx[w]) /\ batch[w] \cap Denials \in SUBSET Rows
    BY <1>10 DEF MarkDenials
  <2> QED
    BY <1>10, <2>1, MarkType DEF MarkDenials
<1>11. CASE MarkOutcomes(w)
  <2>1. Mark(batch[w] \cap Outcomes, tx[w]) /\ batch[w] \cap Outcomes \in SUBSET Rows
    BY <1>11 DEF MarkOutcomes
  <2> QED
    BY <1>11, <2>1, MarkType DEF MarkOutcomes
<1>12. CASE Release(w)
  BY <1>12 DEF Release
<1>13. CASE Check(w)
  BY <1>13 DEF Check, Enqueue
<1> QED
  BY <1>1, <1>2, <1>3, <1>4, <1>5, <1>6, <1>7, <1>8, <1>9, <1>10, <1>11, <1>12, <1>13
     DEF WorkerStep

\* Every step keeps the types.
LEMMA StepType ==
  ASSUME TypeInv, [Next]_vars
  PROVE  TypeInv'
<1> USE DEF TypeInv, TypeOK, WorkerOrg, rowVars, queueVars, workerVars, chainVars, Fault
<1>1. CASE \E r \in Rows : RowStep(r)
  BY <1>1, RecordType
<1>2. CASE \E w \in Workers : WorkerStep(w)
  BY <1>2, WorkerType
<1>3. ASSUME NEW w \in Workers, PassFails(w) \/ CheckFails(w)
      PROVE  TypeInv'
  <2>1. CASE PassFails(w)
    BY <2>1 DEF PassFails, Abandon, Goto, InPass
  <2>2. CASE CheckFails(w)
    BY <2>2 DEF CheckFails, Goto, InPass
  <2> QED
    BY <1>3, <2>1, <2>2
<1>4. ASSUME NEW o \in Orgs, ChanSend(o) \/ Include(o) \/ Drop(o)
      PROVE  TypeInv'
  <2>1. CASE ChanSend(o)
    BY <2>1 DEF ChanSend
  <2>2. CASE Include(o)
    BY <2>2 DEF Include, Tx, NoTx
  <2>3. CASE Drop(o)
    BY <2>3 DEF Drop, Tx, NoTx
  <2> QED
    BY <1>4, <2>1, <2>2, <2>3
<1>5. CASE Ticker
  BY <1>5 DEF Ticker, Enqueue
<1>6. CASE Watch
  <2>1. chain[watched + 1] \in Tx
    BY <1>6 DEF Watch
  <2>2. /\ Settled(chain[watched + 1].rows) \in SUBSET Rows
        /\ chain[watched + 1].id \in Nat
    BY <2>1, SettledIsSubset DEF Tx
  <2>3. /\ status' \in [Rows -> {"absent", "pending", "submitted"}]
        /\ txOf' \in [Rows -> Nat] /\ rerecords' \in Nat /\ filing' \in [Rows -> Nat]
        /\ held' \subseteq Rows /\ older' \subseteq Rows \X Rows
    BY <1>6, <2>2, MarkType DEF Watch
  <2> QED
    BY <1>6, <2>3 DEF Watch
<1>7. CASE WatchMiss
  BY <1>7 DEF WatchMiss
<1>8. CASE Crash
  BY <1>8 DEF Crash
<1>9. CASE UNCHANGED vars
  BY <1>9 DEF vars
<1> QED
  BY <1>1, <1>2, <1>3, <1>4, <1>5, <1>6, <1>7, <1>8, <1>9 DEF Next

\* Every variable of the relay keeps its type, whatever fails.
THEOREM TypeCorrect == Spec => []TypeOK
<1>1. Spec => []TypeInv
  BY InitType, StepType, PTL DEF Spec
<1> QED
  BY <1>1, PTL DEF TypeInv

-----------------------------------------------------------------------------
(***************************************************************************)
(* The relay queue.                                                        *)
(***************************************************************************)
InChan(o) == \E i \in 1..Len(chan) : chan[i] = o
AtWorker(o) == \E w \in Workers : Working(w) /\ org[w] = o

\* Each queued org is in one place, and each org in a place is queued.
QueueInv ==
  /\ \A i, j \in 1..Len(chan) : i # j => chan[i] # chan[j]
  /\ \A o \in sending : ~ InChan(o) /\ ~ AtWorker(o)
  /\ \A i \in 1..Len(chan) : ~ AtWorker(chan[i])
  /\ SingleFlight
  /\ sending \subseteq queued
  /\ \A i \in 1..Len(chan) : chan[i] \in queued
  /\ \A w \in Workers : Working(w) => org[w] \in queued
  /\ NoStrandedOrg

\* No org is queued or held at first.
LEMMA InitQueue == Init => QueueInv
BY DEF Init, QueueInv, InChan, AtWorker, SingleFlight, NoStrandedOrg, Working, InPass

\* enqueueServeRelay hands over no org that is already queued.
LEMMA EnqueueQueue ==
  ASSUME TypeInv, QueueInv, NEW O \in SUBSET Orgs, Enqueue(O),
         \A w \in Workers : Working(w)' <=> Working(w),
         \A w \in Workers : Working(w) => org'[w] = org[w]
  PROVE  QueueInv'
<1>1. \A o : (InChan(o)' <=> InChan(o)) /\ (AtWorker(o)' <=> AtWorker(o))
  BY DEF Enqueue, InChan, AtWorker
<1>2. NoStrandedOrg'
  BY <1>1 DEF QueueInv, Enqueue, NoStrandedOrg, InChan, AtWorker
<1>3. \A o \in sending' : ~ InChan(o)' /\ ~ AtWorker(o)'
  BY <1>1 DEF QueueInv, Enqueue, NoStrandedOrg, InChan, AtWorker
<1>4. \A i \in 1..Len(chan') : \A o : o = chan'[i] => ~ AtWorker(o)'
  BY <1>1 DEF QueueInv, Enqueue
<1>5. SingleFlight'
  BY DEF QueueInv, SingleFlight
<1> QED
  BY <1>2, <1>3, <1>4, <1>5 DEF QueueInv, Enqueue

\* A worker moves on inside its pass, or not at all.
LEMMA KeepQueue ==
  ASSUME QueueInv, UNCHANGED <<queued, sending, chan>>,
         \A w \in Workers : Working(w)' <=> Working(w),
         \A w \in Workers : Working(w) => org'[w] = org[w]
  PROVE  QueueInv'
BY DEF QueueInv, InChan, AtWorker, SingleFlight, NoStrandedOrg

\* An org that moves from a pending send into the channel stays held once.
LEMMA ChanSendQueue ==
  ASSUME TypeInv, QueueInv, NEW o \in Orgs, ChanSend(o)
  PROVE  QueueInv'
<1> USE DEF TypeInv, TypeOK, ChanSend, workerVars
<1>1. /\ Len(chan') = Len(chan) + 1 /\ chan'[Len(chan) + 1] = o
      /\ \A i \in 1..Len(chan) : chan'[i] = chan[i]
  OBVIOUS
<1>2. Len(chan) \in Nat
  OBVIOUS
<1>3. \A p : InChan(p)' <=> InChan(p) \/ p = o
  BY <1>1, <1>2 DEF InChan
<1>4. \A p : AtWorker(p)' <=> AtWorker(p)
  BY DEF AtWorker, Working
<1>5. \A i, j \in 1..Len(chan') : i # j => chan'[i] # chan'[j]
  BY <1>1, <1>2 DEF QueueInv, InChan
<1>6. \A i \in 1..Len(chan') : ~ AtWorker(chan'[i]) /\ chan'[i] \in queued
  BY <1>1, <1>2 DEF QueueInv
<1>7. NoStrandedOrg'
  BY <1>3, <1>4 DEF QueueInv, NoStrandedOrg, InChan, AtWorker
<1> QED
  BY <1>3, <1>4, <1>5, <1>6, <1>7 DEF QueueInv, SingleFlight, Working

\* An org that moves from the channel to a worker stays held once.
LEMMA TakeQueue ==
  ASSUME TypeInv, QueueInv, NEW w \in Workers, Take(w)
  PROVE  QueueInv'
<1> USE DEF TypeInv, TypeOK, Take, Goto
<1>1. /\ Len(chan) \in Nat \ {0} /\ Len(chan') = Len(chan) - 1
      /\ \A i \in 1..Len(chan') : chan'[i] = chan[i + 1]
      /\ Head(chan) = chan[1] /\ Head(chan) \in Orgs
  OBVIOUS
<1>2. /\ ~ Working(w) /\ Working(w)' /\ org'[w] = chan[1]
      /\ \A v \in Workers \ {w} : (Working(v)' <=> Working(v)) /\ org'[v] = org[v]
  BY <1>1 DEF Working, InPass
<1>3. \A p : AtWorker(p)' <=> AtWorker(p) \/ p = chan[1]
  BY <1>2 DEF AtWorker
<1>4. \A p : InChan(p) <=> InChan(p)' \/ p = chan[1]
  <2> TAKE p
  <2>1. ASSUME InChan(p), p # chan[1] PROVE InChan(p)'
    <3>1. PICK i \in 1..Len(chan) : chan[i] = p
      BY <2>1 DEF InChan
    <3>2. i - 1 \in 1..Len(chan') /\ chan'[i - 1] = p
      BY <1>1, <2>1, <3>1
    <3> QED
      BY <3>2 DEF InChan
  <2>2. ASSUME InChan(p)' PROVE InChan(p)
    <3>1. PICK i \in 1..Len(chan') : chan'[i] = p
      BY <2>2 DEF InChan
    <3>2. i + 1 \in 1..Len(chan) /\ chan[i + 1] = p
      BY <1>1, <3>1
    <3> QED
      BY <3>2 DEF InChan
  <2>3. InChan(chan[1])
    BY <1>1 DEF InChan
  <2> QED
    BY <2>1, <2>2, <2>3
<1>5. \A p : p = chan[1] => ~ InChan(p)'
  BY <1>1 DEF InChan, QueueInv
<1>6. \A i, j \in 1..Len(chan') : i # j => chan'[i] # chan'[j]
  BY <1>1 DEF QueueInv
<1>7. \A i \in 1..Len(chan') : \A p :
        p = chan'[i] => ~ AtWorker(p)' /\ p \in queued
  BY <1>1, <1>3, <1>5 DEF QueueInv, InChan
<1>8. \A o \in sending : ~ InChan(o)' /\ ~ AtWorker(o)'
  BY <1>1, <1>3, <1>4 DEF QueueInv, InChan
<1>9. SingleFlight'
  BY <1>1, <1>2 DEF QueueInv, SingleFlight, AtWorker
<1>10. \A v \in Workers : Working(v)' => org'[v] \in queued
  BY <1>1, <1>2 DEF QueueInv
<1>11. NoStrandedOrg'
  BY <1>3, <1>4 DEF QueueInv, NoStrandedOrg, InChan, AtWorker
<1> QED
  BY <1>6, <1>7, <1>8, <1>9, <1>10, <1>11 DEF QueueInv

\* Unlocking and leaving the pass are one step: the org is in no other place.
LEMMA ReleaseQueue ==
  ASSUME TypeInv, QueueInv, NEW w \in Workers, Release(w)
  PROVE  QueueInv'
<1> USE DEF TypeInv, TypeOK, Release, Goto
<1>1. /\ Working(w) /\ ~ Working(w)'
      /\ \A v \in Workers \ {w} : (Working(v)' <=> Working(v))
  BY DEF Working, InPass
<1>2. \A p : AtWorker(p)' => AtWorker(p) /\ p # org[w]
  BY <1>1 DEF AtWorker, QueueInv, SingleFlight
<1>3. \A p : AtWorker(p) /\ p # org[w] => AtWorker(p)'
  BY <1>1 DEF AtWorker
<1>4. org[w] \notin sending /\ ~ InChan(org[w])
  BY <1>1 DEF QueueInv, InChan, AtWorker
<1>5. NoStrandedOrg'
  BY <1>3 DEF QueueInv, NoStrandedOrg, AtWorker
<1> QED
  BY <1>1, <1>2, <1>4, <1>5 DEF QueueInv, InChan, SingleFlight, AtWorker

\* A worker holds its org until it releases it.
LEMMA WorkerQueue ==
  ASSUME TypeInv, QueueInv, NEW w \in Workers, WorkerStep(w)
  PROVE  QueueInv'
<1> USE DEF TypeInv, TypeOK, queueVars, workerVars, Working, InPass, Goto
<1>1. CASE Take(w)
  BY <1>1, TakeQueue
<1>2. CASE LoadServes(w) \/ LoadDenials(w) \/ LoadOutcomes(w)
  BY <1>2, KeepQueue DEF LoadServes, LoadDenials, LoadOutcomes, Load
<1>3. CASE Submit(w) \/ Committed(w)
  BY <1>3, KeepQueue DEF Submit, Committed
<1>4. CASE SubmitRejected(w) \/ NotIncluded(w)
  BY <1>4, KeepQueue DEF SubmitRejected, NotIncluded, Abandon
<1>5. CASE MarkServes(w) \/ MarkDenials(w) \/ MarkOutcomes(w)
  BY <1>5, KeepQueue DEF MarkServes, MarkDenials, MarkOutcomes
<1>6. CASE Release(w)
  BY <1>6, ReleaseQueue
<1>7. CASE Check(w)
  <2>1. /\ \A v \in Workers : Working(v)' <=> Working(v)
        /\ \A v \in Workers : Working(v) => org'[v] = org[v]
        /\ org[w] \in Orgs
    BY <1>7 DEF Check, WorkerOrg
  <2>2. CASE HasPending(org[w])
    <3>1. Enqueue({org[w]})
      BY <1>7, <2>2 DEF Check
    <3> QED
      BY <2>1, <3>1, EnqueueQueue
  <2>3. CASE ~ HasPending(org[w])
    <3>1. UNCHANGED queueVars
      BY <1>7, <2>3 DEF Check
    <3> QED
      BY <2>1, <3>1, KeepQueue
  <2> QED
    BY <2>2, <2>3
<1> QED
  BY <1>1, <1>2, <1>3, <1>4, <1>5, <1>6, <1>7 DEF WorkerStep

\* Every step keeps an org held once, and queued exactly when held.
LEMMA StepQueue ==
  ASSUME TypeInv, QueueInv, [Next]_vars
  PROVE  QueueInv'
<1> USE DEF queueVars, workerVars
<1>1. ASSUME NEW r \in Rows, RowStep(r)
      PROVE  QueueInv'
  <2>1. CASE EnqueueReported(r)
    <3>1. {OrgOf[r]} \in SUBSET Orgs
      BY RowsAssumption
    <3> QED
      BY <2>1, <3>1, EnqueueQueue DEF EnqueueReported, Working
  <2>2. CASE RecordServe(r) \/ RecordDenial(r) \/ RecordOutcome(r)
    BY <2>2, KeepQueue DEF RecordServe, RecordDenial, RecordOutcome, Upsert, Working
  <2>3. CASE HandlerFails(r) \/ HoldElapses(r)
    BY <2>3, KeepQueue DEF HandlerFails, HoldElapses, Working
  <2> QED
    BY <1>1, <2>1, <2>2, <2>3 DEF RowStep
<1>2. CASE \E w \in Workers : WorkerStep(w)
  BY <1>2, WorkerQueue
<1>3. ASSUME NEW w \in Workers, PassFails(w)
      PROVE  QueueInv'
  BY <1>3, KeepQueue DEF PassFails, Abandon, Goto, Working, InPass, TypeInv, TypeOK
<1>4. ASSUME NEW w \in Workers, CheckFails(w)
      PROVE  QueueInv'
  <2>1. /\ \A v \in Workers : Working(v)' <=> Working(v)
        /\ \A v \in Workers : Working(v) => org'[v] = org[v]
    BY <1>4 DEF CheckFails, Goto, Working, InPass, TypeInv, TypeOK
  <2> QED
    BY <1>4, <2>1, KeepQueue DEF CheckFails
<1>5. ASSUME NEW o \in Orgs, ChanSend(o) \/ Include(o) \/ Drop(o)
      PROVE  QueueInv'
  BY <1>5, ChanSendQueue, KeepQueue DEF Include, Drop, Working
<1>6. CASE Ticker
  BY <1>6, EnqueueQueue DEF Ticker, Working
<1>7. CASE Watch \/ WatchMiss
  BY <1>7, KeepQueue DEF Watch, WatchMiss, Working
<1>8. CASE Crash
  BY <1>8 DEF Crash, QueueInv, InChan, AtWorker, SingleFlight, NoStrandedOrg, Working, InPass
<1>9. CASE UNCHANGED vars
  BY <1>9, KeepQueue DEF vars, Working
<1> QED
  BY <1>1, <1>2, <1>3, <1>4, <1>5, <1>6, <1>7, <1>8, <1>9 DEF Next

\* The invariant of the queue holds in every state.
LEMMA QueueAlways == Spec => [](TypeInv /\ QueueInv)
BY InitType, StepType, InitQueue, StepQueue, PTL DEF Spec

\* Two workers never run a pass of the same org.
THEOREM RelayIsSingleFlight == Spec => []SingleFlight
BY QueueAlways, PTL DEF QueueInv

\* An org in serveRelayQueued is in a send, in the channel or with a worker:
\* the flag that keeps enqueueServeRelay away from it will be cleared.
THEOREM NoOrgIsStranded == Spec => []NoStrandedOrg
BY QueueAlways, PTL DEF QueueInv

-----------------------------------------------------------------------------
(***************************************************************************)
(* The order within a pass.                                                *)
(***************************************************************************)

\* Rows are in hand only between the broadcast and the last mark.
BatchInHand ==
  \A w \in Workers :
    pc[w] \notin {"await", "markServes", "markDenials", "markOutcomes"} => batch[w] = {}

PassInv == BatchInHand /\ ServeFirstInPass

\* A transaction is closed under earlier epochs of the loaded rows.
LEMMA BatchTakesServes ==
  ASSUME NEW R \in SUBSET Rows, NEW d \in Denials, d \in NextBatch(R), ServeOf[d] \in R,
         EpochOf[ServeOf[d]] <= EpochOf[d]
  PROVE  ServeOf[d] \in NextBatch(R)
<1>2. /\ \A r \in R : EpochOf[r] \in Nat
      /\ d \in R
  BY RowsAssumption, NextBatchIsSubset
<1>3. CASE d \in FirstEpoch(R)
  <2>1. ServeOf[d] \in FirstEpoch(R)
    BY <1>2, <1>3 DEF FirstEpoch
  <2> QED
    BY <2>1 DEF NextBatch
<1>4. ASSUME NEW r \in R, MsgCount(UpTo(R, EpochOf[r])) <= MaxMsgs, d \in UpTo(R, EpochOf[r])
      PROVE  ServeOf[d] \in NextBatch(R)
  <2>1. ServeOf[d] \in UpTo(R, EpochOf[r])
    BY <1>2, <1>4 DEF UpTo
  <2> QED
    BY <1>4, <2>1 DEF NextBatch
<1> QED
  BY <1>3, <1>4 DEF NextBatch

\* Steps that leave the batch alone or give it up.
LEMMA KeepPass ==
  ASSUME PassInv,
         \A w \in Workers : \/ batch'[w] = {}
                           \/ /\ batch'[w] = batch[w] /\ todo'[w] = todo[w]
                              /\ \/ pc'[w] = pc[w]
                                 \/ pc'[w] \in {"await", "markServes", "markDenials", "markOutcomes"}
  PROVE  PassInv'
BY DEF PassInv, BatchInHand, ServeFirstInPass

\* Every step keeps a batch in hand that puts serves first.
LEMMA StepPass ==
  ASSUME TypeInv, PassInv, [Next]_vars
  PROVE  PassInv'
<1> USE DEF workerVars
<1>0. /\ pc \in [Workers -> InPass \cup {"idle", "release", "check"}]
      /\ todo \in [Workers -> SUBSET Rows] /\ batch \in [Workers -> SUBSET Rows]
  BY DEF TypeInv, TypeOK
<1>1. ASSUME NEW r \in Rows, RowStep(r)
      PROVE  PassInv'
  BY <1>1, KeepPass DEF RowStep, RecordServe, RecordDenial, RecordOutcome, EnqueueReported,
                       HandlerFails, HoldElapses, Upsert
<1>2. ASSUME NEW w \in Workers, Submit(w)
      PROVE  PassInv'
  <2>1. /\ todo' = todo /\ pc'[w] = "await" /\ batch'[w] = NextBatch(todo[w])
        /\ \A v \in Workers \ {w} : pc'[v] = pc[v] /\ batch'[v] = batch[v]
    BY <1>0, <1>2 DEF Submit, Goto
  <2>2. \A d \in NextBatch(todo[w]) \cap Denials :
          ServeOf[d] \in todo[w] /\ EpochOf[ServeOf[d]] <= EpochOf[d]
            => ServeOf[d] \in NextBatch(todo[w])
    BY <1>0, BatchTakesServes
  <2> QED
    BY <2>1, <2>2 DEF PassInv, BatchInHand, ServeFirstInPass
<1>3. ASSUME NEW w \in Workers,
             Take(w) \/ LoadServes(w) \/ LoadDenials(w) \/ LoadOutcomes(w)
                     \/ Release(w) \/ Check(w) \/ CheckFails(w)
      PROVE  PassInv'
  <2>1. batch[w] = {}
    BY <1>3 DEF Take, LoadServes, LoadDenials, LoadOutcomes, Load, Release, Check, CheckFails,
                PassInv, BatchInHand
  <2>2. /\ batch' = batch
        /\ \A v \in Workers \ {w} : pc'[v] = pc[v] /\ todo'[v] = todo[v]
    BY <1>0, <1>3 DEF Take, LoadServes, LoadDenials, LoadOutcomes, Load, Release, Check,
                      CheckFails, Goto
  <2> QED
    BY <2>1, <2>2, KeepPass
<1>4. ASSUME NEW w \in Workers, Committed(w) \/ MarkServes(w) \/ MarkDenials(w)
      PROVE  PassInv'
  BY <1>0, <1>4, KeepPass DEF Committed, MarkServes, MarkDenials, Goto
<1>5. ASSUME NEW w \in Workers,
             MarkOutcomes(w) \/ SubmitRejected(w) \/ NotIncluded(w) \/ PassFails(w)
      PROVE  PassInv'
  BY <1>0, <1>5, KeepPass DEF MarkOutcomes, SubmitRejected, NotIncluded, PassFails, Abandon, Goto
<1>6. ASSUME NEW o \in Orgs, ChanSend(o) \/ Include(o) \/ Drop(o)
      PROVE  PassInv'
  BY <1>6, KeepPass DEF ChanSend, Include, Drop
<1>7. CASE Ticker \/ Watch \/ WatchMiss
  BY <1>7, KeepPass DEF Ticker, Watch, WatchMiss
<1>8. CASE Crash
  BY <1>8, KeepPass DEF Crash
<1>9. CASE UNCHANGED vars
  BY <1>9, KeepPass DEF vars
<1> QED
  BY <1>1, <1>2, <1>3, <1>4, <1>5, <1>6, <1>7, <1>8, <1>9 DEF Next, WorkerStep

\* No worker has a batch at first.
LEMMA InitPass == Init => PassInv
BY DEF Init, PassInv, BatchInHand, ServeFirstInPass

\* No transaction of a pass carries a denial ahead of its loaded serve, unless
\* the denial was reported for an epoch before the serve's.
THEOREM ServesGoFirstInPass == Spec => []ServeFirstInPass
<1>1. Init => PassInv
  BY InitPass
<1>2. Spec => []TypeInv
  BY InitType, StepType, PTL DEF Spec
<1>3. TypeInv /\ PassInv /\ [Next]_vars => PassInv'
  BY StepPass
<1> QED
  BY <1>1, <1>2, <1>3, PTL DEF Spec, PassInv
-----------------------------------------------------------------------------
(***************************************************************************)
(* No lost wake-up.                                                        *)
(***************************************************************************)

\* Rows that wait for no hold: outcomes, and whatever belongs to an org whose
\* relay hold is 0 hours.
Unheld(r) == r \in Outcomes \/ OrgOf[r] \in Exempt

\* No such row is ever put on hold, so a query never overlooks it.
HoldInv == \A r \in held : ~ Unheld(r)

\* Faults are only ever added to the record.
FaultsGrow == \A kind : Happened(kind) => Happened(kind)'

WakeInv == HoldInv /\ NoLostWakeup

\* A step that queues no less, holds no more and leaves the checks alone wakes all it must.
LEMMA FaultIsRecorded ==
  ASSUME faults \in Seq(FaultKinds), NEW kind, Fault(kind)
  PROVE  FaultsGrow /\ Happened(kind)'
<1>1. /\ Len(faults) \in Nat /\ Len(faults') = Len(faults) + 1
      /\ \A i \in 1..Len(faults) : faults'[i] = faults[i]
      /\ faults'[Len(faults) + 1] = kind
  BY DEF Fault
<1>2. Happened(kind)'
  BY <1>1 DEF Happened
<1>3. FaultsGrow
  BY <1>1 DEF FaultsGrow, Happened
<1> QED
  BY <1>2, <1>3

\* Steps that add no pending row, take no org out of the queue and let no
\* worker pass its check.
LEMMA KeepWake ==
  ASSUME WakeInv, FaultsGrow, held' \subseteq held, queued \subseteq queued',
         \A r \in Rows : status'[r] = "pending" => status[r] = "pending",
         \A r \in Rows : filing[r] > 0 => filing'[r] > 0,
         \A w \in Workers : pc[w] = "check" => pc'[w] = "check" /\ org'[w] = org[w]
  PROVE  WakeInv'
<1>1. HoldInv'
  BY DEF WakeInv, HoldInv, Unheld
<1>2. NoLostWakeup'
  BY DEF WakeInv, NoLostWakeup, FaultsGrow
<1> QED
  BY <1>1, <1>2 DEF WakeInv

\* A row that has just been stored has its handler about to enqueue its org.
LEMMA RecordWake ==
  ASSUME TypeInv, WakeInv, NEW r \in Rows, RecordServe(r) \/ RecordDenial(r) \/ RecordOutcome(r)
  PROVE  WakeInv'
<1>1. /\ UNCHANGED <<queued, pc, org, faults>> /\ filing' = [filing EXCEPT ![r] = @ + 1]
      /\ \A q \in Rows : q # r => status'[q] = status[q]
  BY DEF RecordServe, RecordDenial, RecordOutcome, Upsert, Report, queueVars, workerVars,
         TypeInv, TypeOK
<1>a. filing'[r] > 0 /\ \A q \in Rows : filing[q] > 0 => filing'[q] > 0
  BY <1>1 DEF TypeInv, TypeOK
<1>2. HoldInv'
  <2>1. CASE RecordOutcome(r)
    BY <2>1 DEF RecordOutcome, WakeInv, HoldInv, Unheld
  <2>2. CASE r \notin Outcomes /\ Upsert(r)
    BY <2>2 DEF Upsert, PutOnHold, WakeInv, HoldInv, Unheld
  <2> QED
    BY <2>1, <2>2, RowsAssumption DEF RecordServe, RecordDenial
<1>3. NoLostWakeup'
  BY <1>1, <1>a DEF WakeInv, NoLostWakeup, Happened
<1> QED
  BY <1>2, <1>3 DEF WakeInv

\* A handler that is done leaves its org queued.
LEMMA EnqueueWake ==
  ASSUME TypeInv, WakeInv, NEW r \in Rows, EnqueueReported(r)
  PROVE  WakeInv'
<1>1. /\ queued' = queued \cup {OrgOf[r]} /\ UNCHANGED <<status, held, pc, org, faults>>
      /\ \A q \in Rows : q # r => filing'[q] = filing[q]
  BY DEF EnqueueReported, HandlerGoesOn, Enqueue, workerVars, TypeInv, TypeOK
<1>2. HoldInv'
  BY <1>1 DEF WakeInv, HoldInv, Unheld
<1>3. NoLostWakeup'
  BY <1>1 DEF WakeInv, NoLostWakeup, Happened
<1> QED
  BY <1>2, <1>3 DEF WakeInv

\* Unqueueing leaves the worker at its check of the org.
LEMMA ReleaseWake ==
  ASSUME TypeInv, WakeInv, NEW w \in Workers, Release(w)
  PROVE  WakeInv'
<1>1. /\ queued' = queued \ {org[w]} /\ pc'[w] = "check" /\ org' = org
      /\ \A v \in Workers : v # w => pc'[v] = pc[v]
      /\ UNCHANGED <<status, held, filing, faults>> /\ pc[w] # "check"
  BY DEF Release, Goto, rowVars, TypeInv, TypeOK
<1>2. HoldInv'
  BY <1>1 DEF WakeInv, HoldInv, Unheld
<1>3. NoLostWakeup'
  BY <1>1 DEF WakeInv, NoLostWakeup, Happened
<1> QED
  BY <1>2, <1>3 DEF WakeInv

\* The check finds every pending row that needs no hold.
LEMMA CheckWake ==
  ASSUME TypeInv, WakeInv, NEW w \in Workers, Check(w)
  PROVE  WakeInv'
<1>1. /\ UNCHANGED <<status, held, filing, faults>>
      /\ \A v \in Workers : v # w => pc'[v] = pc[v] /\ org'[v] = org[v]
  BY DEF Check, Goto, rowVars, TypeInv, TypeOK
<1>2. queued \subseteq queued' /\ (HasPending(org[w]) => org[w] \in queued')
  BY DEF Check, Enqueue, queueVars
<1>3. ASSUME NEW r \in Rows, status[r] = "pending", Unheld(r), OrgOf[r] = org[w]
      PROVE  HasPending(org[w])
  <2>1. r \in Pending(org[w]) /\ r \notin held
    BY <1>3 DEF Pending, WakeInv, HoldInv
  <2> QED
    BY <1>3, <2>1 DEF HasPending, PendingOutcomes, Ripe, Rows
<1>4. HoldInv'
  BY <1>1 DEF WakeInv, HoldInv, Unheld
<1>5. NoLostWakeup'
  <2> SUFFICES ASSUME ~ Happened("report"), ~ Happened("check"), ~ Happened("crash"),
                      NEW r \in Rows, status[r] = "pending", Unheld(r)
               PROVE  \/ OrgOf[r] \in queued' \/ filing[r] > 0
                      \/ \E v \in Workers : pc'[v] = "check" /\ org'[v] = OrgOf[r]
    BY <1>1 DEF NoLostWakeup, Happened, Unheld
  <2>1. \/ OrgOf[r] \in queued \/ filing[r] > 0
        \/ \E v \in Workers : pc[v] = "check" /\ org[v] = OrgOf[r]
    BY DEF WakeInv, NoLostWakeup, Unheld
  <2>2. CASE OrgOf[r] = org[w]
    BY <1>2, <1>3, <2>2
  <2>3. CASE OrgOf[r] # org[w]
    BY <1>1, <1>2, <2>1, <2>3
  <2> QED
    BY <2>2, <2>3
<1> QED
  BY <1>4, <1>5 DEF WakeInv

\* Every step of a worker leaves a pending row with somebody about to look.
LEMMA WorkerWake ==
  ASSUME TypeInv, WakeInv, NEW w \in Workers, WorkerStep(w)
  PROVE  WakeInv'
<1> USE DEF rowVars, queueVars, workerVars, Goto
<1>0. pc \in [Workers -> InPass \cup {"idle", "release", "check"}]
  BY DEF TypeInv, TypeOK
<1>1. ASSUME UNCHANGED faults PROVE FaultsGrow
  BY <1>1 DEF FaultsGrow, Happened
<1>2. CASE Take(w) \/ LoadServes(w) \/ LoadDenials(w) \/ LoadOutcomes(w)
  BY <1>0, <1>1, <1>2, KeepWake DEF Take, LoadServes, LoadDenials, LoadOutcomes, Load,
     TypeInv, TypeOK
<1>3. CASE Submit(w) \/ SubmitRejected(w) \/ Committed(w) \/ NotIncluded(w)
  BY <1>0, <1>1, <1>3, KeepWake DEF Submit, SubmitRejected, Committed, NotIncluded, Abandon
<1>4. CASE MarkServes(w) \/ MarkDenials(w) \/ MarkOutcomes(w)
  BY <1>0, <1>1, <1>4, KeepWake DEF MarkServes, MarkDenials, MarkOutcomes, Mark
<1> QED
  BY <1>2, <1>3, <1>4, ReleaseWake, CheckWake DEF WorkerStep

\* Every step leaves a pending row with somebody about to look.
LEMMA StepWake ==
  ASSUME TypeInv, WakeInv, [Next]_vars
  PROVE  WakeInv'
<1> USE DEF rowVars, queueVars, workerVars
<1>0. /\ pc \in [Workers -> InPass \cup {"idle", "release", "check"}]
      /\ faults \in Seq(FaultKinds)
  BY DEF TypeInv, TypeOK
<1>1. ASSUME UNCHANGED faults PROVE FaultsGrow
  BY <1>1 DEF FaultsGrow, Happened
<1>2. ASSUME NEW r \in Rows, HoldElapses(r)
      PROVE  WakeInv'
  BY <1>1, <1>2, KeepWake DEF HoldElapses
<1>11. ASSUME NEW r \in Rows, HandlerFails(r)
       PROVE  WakeInv'
  <2>1. Happened("report")' /\ UNCHANGED held
    BY <1>0, <1>11, FaultIsRecorded DEF HandlerFails
  <2> QED
    BY <2>1 DEF WakeInv, HoldInv, Unheld, NoLostWakeup
<1>3. ASSUME NEW w \in Workers, PassFails(w)
      PROVE  WakeInv'
  BY <1>0, <1>3, FaultIsRecorded, KeepWake DEF PassFails, Abandon, Goto, InPass
<1>4. ASSUME NEW w \in Workers, CheckFails(w)
      PROVE  WakeInv'
  <2>1. Happened("check")' /\ UNCHANGED held
    BY <1>0, <1>4, FaultIsRecorded DEF CheckFails
  <2> QED
    BY <2>1 DEF WakeInv, HoldInv, Unheld, NoLostWakeup
<1>5. ASSUME NEW o \in Orgs, ChanSend(o) \/ Include(o) \/ Drop(o)
      PROVE  WakeInv'
  BY <1>0, <1>1, <1>5, FaultIsRecorded, KeepWake DEF ChanSend, Include, Drop
<1>6. CASE Ticker
  BY <1>1, <1>6, KeepWake DEF Ticker, Enqueue
<1>7. CASE Watch
  BY <1>1, <1>7, KeepWake DEF Watch, Mark
<1>8. CASE WatchMiss
  BY <1>0, <1>8, FaultIsRecorded, KeepWake DEF WatchMiss
<1>9. CASE Crash
  <2>1. Happened("crash")' /\ UNCHANGED held
    BY <1>0, <1>9, FaultIsRecorded DEF Crash
  <2> QED
    BY <2>1 DEF WakeInv, HoldInv, Unheld, NoLostWakeup
<1>10. CASE UNCHANGED vars
  BY <1>1, <1>10, KeepWake DEF vars
<1> QED
  BY <1>2, <1>3, <1>4, <1>5, <1>6, <1>7, <1>8, <1>9, <1>10, <1>11, RecordWake, EnqueueWake,
     WorkerWake DEF Next, RowStep

\* A report that comes in while a pass of its org is past its queries is not
\* lost: unless a handler fails after its insert, a check fails or the process
\* dies, the org of every pending row without a hold is queued, about to be
\* enqueued by the handler, or about to be checked.
THEOREM NoWakeupIsLost == Spec => []NoLostWakeup
<1>1. Init => WakeInv
  BY DEF Init, WakeInv, HoldInv, NoLostWakeup
<1>2. Spec => []TypeInv
  BY InitType, StepType, PTL DEF Spec
<1>3. TypeInv /\ WakeInv /\ [Next]_vars => WakeInv'
  BY StepWake
<1> QED
  BY <1>1, <1>2, <1>3, PTL DEF Spec, WakeInv
=============================================================================
