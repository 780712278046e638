-------------------------- MODULE ServeLedgerProofs --------------------------
(***************************************************************************)
(* Theorems about what ServeRelay settles, for every value of its          *)
(* constants: a submitted row is backed by an included transaction; the    *)
(* relay with its queue, workers, mempool, watcher, faults and crashes     *)
(* implements Outbox; and while no pass fails nothing is included twice.   *)
(*                                                                         *)
(* The inductive invariant says that a transaction hash determines its     *)
(* rows: what a worker awaits, and what it marks, is the batch it built,   *)
(* in the mempool as well as on the chain (LedgerInv). That rows are sent  *)
(* once also needs where each row is between its query and its mark        *)
(* (OnceInv).                                                              *)
(***************************************************************************)
EXTENDS ServeRelayProofs

Marking == {"markServes", "markDenials", "markOutcomes"}

\* Hashes are handed out in increasing order.
HashesBounded ==
  /\ \A o \in Orgs : mempool[o].id <= txs
  /\ \A i \in 1..Len(chain) : chain[i].id <= txs
  /\ \A w \in Workers : tx[w] <= txs

\* The hash in a worker's hand stands for the worker's batch.
HashIsBatch ==
  \A w \in Workers : pc[w] \in Marking \cup {"await"} =>
    /\ tx[w] # 0
    /\ \A o \in Orgs : mempool[o].id = tx[w] => mempool[o].rows = batch[w]
    /\ \A i \in 1..Len(chain) : chain[i].id = tx[w] => chain[i].rows = batch[w]

MarkingIsIncluded == \A w \in Workers : pc[w] \in Marking => OnChain(tx[w])

HashInv == HashesBounded /\ HashIsBatch /\ MarkingIsIncluded

\* Rows that left the store were stored.
RowsRecorded ==
  /\ \A w \in Workers : \A r \in todo[w] \cup batch[w] : status[r] # "absent"
  /\ \A o \in Orgs : \A r \in mempool[o].rows : status[r] # "absent"
  /\ \A i \in 1..Len(chain) : \A r \in chain[i].rows : status[r] # "absent"

LedgerInv == HashInv /\ RowsRecorded /\ SubmittedIsBacked

-----------------------------------------------------------------------------
\* The ledger invariant holds of an empty ledger.
LEMMA InitLedger == Init => LedgerInv
BY DEF Init, LedgerInv, HashInv, HashesBounded, HashIsBatch, MarkingIsIncluded, RowsRecorded,
       SubmittedIsBacked, Marking, NoTx

\* A row is like itself.
LEMMA AlikeReflexive ==
  ASSUME NEW r \in Rows
  PROVE  <<r, r>> \in Alike
BY DEF Alike

\* What appending adds to a sequence, and what it leaves.
LEMMA AppendFacts ==
  ASSUME NEW S, NEW s \in Seq(S), NEW e \in S
  PROVE  /\ Len(s) \in Nat /\ Len(Append(s, e)) = Len(s) + 1
         /\ \A i \in 1..Len(s) : Append(s, e)[i] = s[i]
         /\ Append(s, e)[Len(s) + 1] = e
OBVIOUS

-----------------------------------------------------------------------------
(***************************************************************************)
(* HashInv.                                                                *)
(***************************************************************************)
LEMMA KeepHash ==
  ASSUME HashInv, UNCHANGED chainVars,
         \A w \in Workers : pc[w]' \in Marking \cup {"await"} =>
            /\ UNCHANGED <<batch[w], tx[w]>>
            /\ \/ pc[w] \in Marking
               \/ (pc[w] = "await" /\ (pc'[w] = "await" \/ OnChain(tx[w]))),
         \A w \in Workers : tx'[w] \in {tx[w], 0}, \A w \in Workers : tx[w] \in Nat, txs \in Nat
  PROVE  HashInv'
<1> USE DEF HashInv, chainVars
<1>1. HashesBounded'
  BY DEF HashesBounded
<1>2. HashIsBatch'
  BY DEF HashIsBatch, Marking
<1>3. MarkingIsIncluded'
  BY DEF MarkingIsIncluded, OnChain, Marking
<1> QED
  BY <1>1, <1>2, <1>3

\* What a worker does keeps hashes fresh and in step with their rows.
LEMMA WorkerHash ==
  ASSUME TypeInv, HashInv, NEW w \in Workers, WorkerStep(w)
  PROVE  HashInv'
<1> USE DEF TypeInv, TypeOK, rowVars, queueVars, workerVars, InPass, Goto, Marking
<1>1. CASE Take(w)
  BY <1>1, KeepHash DEF Take
<1>2. CASE LoadServes(w) \/ LoadDenials(w) \/ LoadOutcomes(w)
  BY <1>2, KeepHash DEF LoadServes, LoadDenials, LoadOutcomes, Load
<1>3. CASE Submit(w)
  <2> DEFINE new == [id |-> txs + 1, rows |-> NextBatch(todo[w])]
  <2>1. /\ txs' = txs + 1 /\ txs \in Nat /\ chain' = chain
        /\ org[w] \in Orgs
        /\ tx' = [tx EXCEPT ![w] = txs + 1] /\ batch' = [batch EXCEPT ![w] = new.rows]
        /\ pc' = [pc EXCEPT ![w] = "await"] /\ mempool' = [mempool EXCEPT ![org[w]] = new]
    BY <1>3 DEF Submit, WorkerOrg
  <2>2. /\ pc'[w] = "await" /\ tx'[w] = txs + 1 /\ batch'[w] = new.rows /\ new.id = txs + 1
        /\ \A v \in Workers \ {w} : tx'[v] = tx[v] /\ batch'[v] = batch[v] /\ pc'[v] = pc[v]
        /\ \A o \in Orgs : mempool'[o] = IF o = org[w] THEN new ELSE mempool[o]
    BY <2>1
  <2>3. /\ \A o \in Orgs : mempool[o].id \in Nat
        /\ \A i \in 1..Len(chain) : chain[i].id \in Nat
        /\ \A v \in Workers : tx[v] \in Nat
    <3>1. /\ \A o \in Orgs : mempool[o] \in Tx
          /\ \A i \in 1..Len(chain) : chain[i] \in Tx
      OBVIOUS
    <3> QED
      BY <3>1 DEF Tx
  <2> HIDE DEF TypeInv, TypeOK, new
  <2>4. HashesBounded'
    BY <2>1, <2>2, <2>3 DEF HashInv, HashesBounded
  <2>5. HashIsBatch'
    <3> SUFFICES ASSUME NEW v \in Workers, pc'[v] \in Marking \cup {"await"}
                 PROVE  /\ tx'[v] # 0
                        /\ \A o \in Orgs : mempool'[o].id = tx'[v] => mempool'[o].rows = batch'[v]
                        /\ \A i \in 1..Len(chain') :
                              chain'[i].id = tx'[v] => chain'[i].rows = batch'[v]
      BY DEF HashIsBatch
    <3>1. CASE v = w
      BY <3>1, <2>1, <2>2, <2>3 DEF HashInv, HashesBounded
    <3>2. CASE v # w
      BY <3>2, <2>1, <2>2, <2>3 DEF HashInv, HashesBounded, HashIsBatch
    <3> QED
      BY <3>1, <3>2
  <2>6. MarkingIsIncluded'
    BY <2>1, <2>2 DEF HashInv, MarkingIsIncluded, OnChain
  <2> QED
    BY <2>4, <2>5, <2>6 DEF HashInv
<1>4. CASE SubmitRejected(w) \/ NotIncluded(w)
  BY <1>4, KeepHash DEF SubmitRejected, NotIncluded, Abandon
<1>5. CASE Committed(w)
  BY <1>5, KeepHash DEF Committed
<1>6. CASE MarkServes(w) \/ MarkDenials(w)
  BY <1>6, KeepHash DEF MarkServes, MarkDenials
<1>7. CASE MarkOutcomes(w)
  BY <1>7, KeepHash DEF MarkOutcomes
<1>8. CASE Release(w)
  BY <1>8, KeepHash DEF Release
<1>9. CASE Check(w)
  BY <1>9, KeepHash DEF Check
<1> QED
  BY <1>1, <1>2, <1>3, <1>4, <1>5, <1>6, <1>7, <1>8, <1>9 DEF WorkerStep

\* Every step keeps hashes fresh and in step with their rows.
LEMMA StepHash ==
  ASSUME TypeInv, HashInv, [Next]_vars
  PROVE  HashInv'
<1> USE DEF TypeInv, TypeOK, workerVars, chainVars, Marking
<1>1. ASSUME NEW r \in Rows, RowStep(r)
      PROVE  HashInv'
  BY <1>1, KeepHash DEF RowStep, RecordServe, RecordDenial, RecordOutcome,
       EnqueueReported, HandlerFails,
       HoldElapses, Upsert
<1>2. CASE \E w \in Workers : WorkerStep(w)
  BY <1>2, WorkerHash
<1>3. ASSUME NEW w \in Workers, PassFails(w) \/ CheckFails(w)
      PROVE  HashInv'
  BY <1>3, KeepHash DEF PassFails, CheckFails, Abandon, Goto
<1>4. ASSUME NEW o \in Orgs, ChanSend(o)
      PROVE  HashInv'
  BY <1>4, KeepHash DEF ChanSend
<1>5. ASSUME NEW o \in Orgs, Include(o)
      PROVE  HashInv'
  <2>1. /\ mempool[o] \in Tx /\ chain \in Seq(Tx) /\ chain' = Append(chain, mempool[o])
        /\ \A p \in Orgs : mempool'[p] = IF p = o THEN NoTx ELSE mempool[p]
        /\ txs \in Nat /\ UNCHANGED <<txs, workerVars>>
    BY <1>5 DEF Include
  <2>2. /\ Len(chain) \in Nat /\ Len(chain') = Len(chain) + 1
        /\ \A i \in 1..Len(chain) : chain'[i] = chain[i]
        /\ chain'[Len(chain) + 1] = mempool[o]
    BY <2>1, AppendFacts
  <2> HIDE DEF TypeInv, TypeOK
  <2>3. HashesBounded'
    BY <2>1, <2>2 DEF HashInv, HashesBounded, NoTx
  <2>4. HashIsBatch'
    BY <2>1, <2>2 DEF HashInv, HashIsBatch, NoTx
  <2>5. MarkingIsIncluded'
    BY <2>1, <2>2 DEF HashInv, MarkingIsIncluded, OnChain
  <2> QED
    BY <2>3, <2>4, <2>5 DEF HashInv
<1>6. ASSUME NEW o \in Orgs, Drop(o)
      PROVE  HashInv'
  <2>1. /\ \A p \in Orgs : mempool'[p] = IF p = o THEN NoTx ELSE mempool[p]
        /\ txs \in Nat /\ UNCHANGED <<chain, txs, workerVars>>
    BY <1>6 DEF Drop
  <2> HIDE DEF TypeInv, TypeOK
  <2>2. HashesBounded'
    BY <2>1 DEF HashInv, HashesBounded, NoTx
  <2>3. HashIsBatch' /\ MarkingIsIncluded'
    BY <2>1 DEF HashInv, HashIsBatch, MarkingIsIncluded, OnChain, NoTx
  <2> QED
    BY <2>2, <2>3 DEF HashInv
<1>7. CASE Ticker \/ Watch \/ WatchMiss
  BY <1>7, KeepHash DEF Ticker, Watch, WatchMiss
<1>8. CASE Crash
  BY <1>8, KeepHash DEF Crash
<1>9. CASE UNCHANGED vars
  BY <1>9, KeepHash DEF vars
<1> QED
  BY <1>1, <1>2, <1>3, <1>4, <1>5, <1>6, <1>7, <1>8, <1>9 DEF Next

-----------------------------------------------------------------------------
(***************************************************************************)
(* RowsRecorded.                                                           *)
(***************************************************************************)

\* No step takes a row out of the store.
StoredStays == \A r \in Rows : status[r] # "absent" => status'[r] # "absent"

\* No step deletes a row.
LEMMA StepStored ==
  ASSUME TypeOK, [Next]_vars
  PROVE  StoredStays
<1> USE DEF TypeOK, StoredStays
<1>1. ASSUME NEW R, NEW id, Mark(R, id) PROVE StoredStays
  BY <1>1 DEF Mark
<1>2. ASSUME NEW r \in Rows, RowStep(r)
      PROVE  StoredStays
  BY <1>2 DEF RowStep, RecordServe, RecordDenial, RecordOutcome, EnqueueReported, HandlerFails,
       HoldElapses, Upsert
<1>3. ASSUME NEW w \in Workers, MarkServes(w) \/ MarkDenials(w) \/ MarkOutcomes(w)
      PROVE  StoredStays
  BY <1>1, <1>3 DEF MarkServes, MarkDenials, MarkOutcomes
<1>4. CASE Watch
  BY <1>1, <1>4 DEF Watch
<1>5. ASSUME NEW w \in Workers,
             WorkerStep(w) \/ PassFails(w) \/ CheckFails(w),
             ~ (MarkServes(w) \/ MarkDenials(w) \/ MarkOutcomes(w))
      PROVE  StoredStays
  BY <1>5 DEF WorkerStep, PassFails, CheckFails, Abandon, Take, LoadServes, LoadDenials,
              LoadOutcomes, Load, Submit, SubmitRejected, Committed, NotIncluded, Release,
              Check, rowVars
<1>6. ASSUME NEW o \in Orgs, ChanSend(o) \/ Include(o) \/ Drop(o) PROVE StoredStays
  BY <1>6 DEF ChanSend, Include, Drop, rowVars
<1>7. CASE Ticker \/ WatchMiss \/ Crash
  BY <1>7 DEF Ticker, WatchMiss, Crash, rowVars
<1>8. CASE UNCHANGED vars
  BY <1>8 DEF vars, rowVars
<1> QED
  BY <1>2, <1>3, <1>4, <1>5, <1>6, <1>7, <1>8 DEF Next

\* A worker's rows come from its old rows or from a query.
LEMMA KeepRecorded ==
  ASSUME TypeOK, RowsRecorded, StoredStays, UNCHANGED <<mempool, chain>>,
         \A w \in Workers : \A r \in todo'[w] \cup batch'[w] :
            r \in todo[w] \cup batch[w] \/ (r \in Rows /\ status[r] = "pending")
  PROVE  RowsRecorded'
<1>1. \A w \in Workers : \A r \in todo'[w] \cup batch'[w] : status'[r] # "absent"
  BY DEF RowsRecorded, StoredStays, TypeOK
<1>2. /\ \A o \in Orgs : mempool[o].rows \subseteq Rows
      /\ \A i \in 1..Len(chain) : chain[i].rows \subseteq Rows
  <2>1. /\ \A o \in Orgs : mempool[o] \in Tx
        /\ \A i \in 1..Len(chain) : chain[i] \in Tx
    BY DEF TypeOK
  <2> QED
    BY <2>1 DEF Tx
<1> QED
  BY <1>1, <1>2 DEF RowsRecorded, StoredStays

\* A worker handles rows that were recorded.
LEMMA WorkerRecorded ==
  ASSUME TypeInv, RowsRecorded, StoredStays, NEW w \in Workers, WorkerStep(w)
  PROVE  RowsRecorded'
<1> USE DEF TypeInv, chainVars, workerVars
<1>0. todo \in [Workers -> SUBSET Rows] /\ batch \in [Workers -> SUBSET Rows]
  BY DEF TypeOK
<1>1. CASE Take(w)
  BY <1>1, KeepRecorded DEF Take
<1>2. ASSUME NEW at, NEW next, NEW R, Load(w, at, R, next),
             \A r \in R : r \in Rows /\ status[r] = "pending"
      PROVE  RowsRecorded'
  <2>1. PICK F \in Fetched(R) : todo' = [todo EXCEPT ![w] = @ \cup F]
    BY <1>2 DEF Load
  <2>2. F \subseteq R
    BY FetchedIsSubset
  <2> QED
    BY <1>0, <1>2, <2>1, <2>2, KeepRecorded DEF Load
<1>3. CASE LoadServes(w)
  BY <1>2, <1>3 DEF LoadServes, PendingServes, Ripe, Pending
<1>4. CASE LoadDenials(w)
  BY <1>2, <1>4 DEF LoadDenials, PendingDenials, Ripe, Pending
<1>5. CASE LoadOutcomes(w)
  BY <1>2, <1>5 DEF LoadOutcomes, PendingOutcomes, Pending
<1>6. CASE Submit(w)
  <2>1. NextBatch(todo[w]) \subseteq todo[w] /\ todo[w] \subseteq Rows
    BY <1>0, NextBatchIsSubset
  <2>2. /\ todo' = todo /\ chain' = chain /\ status' = status
        /\ \A v \in Workers : batch'[v] = IF v = w THEN NextBatch(todo[w]) ELSE batch[v]
        /\ \A o \in Orgs : mempool'[o].rows = mempool[o].rows
                           \/ mempool'[o].rows = NextBatch(todo[w])
    BY <1>0, <1>6 DEF Submit, rowVars, TypeOK
  <2> QED
    BY <2>1, <2>2 DEF RowsRecorded
<1>7. CASE SubmitRejected(w) \/ NotIncluded(w)
  BY <1>0, <1>7, KeepRecorded DEF SubmitRejected, NotIncluded, Abandon
<1>8. CASE Committed(w) \/ MarkServes(w) \/ MarkDenials(w) \/ Release(w) \/ Check(w)
  BY <1>8, KeepRecorded DEF Committed, MarkServes, MarkDenials, Release, Check
<1>9. CASE MarkOutcomes(w)
  BY <1>0, <1>9, KeepRecorded DEF MarkOutcomes
<1> QED
  BY <1>1, <1>3, <1>4, <1>5, <1>6, <1>7, <1>8, <1>9 DEF WorkerStep

\* What is loaded, sent or included was recorded.
LEMMA StepRecorded ==
  ASSUME TypeInv, RowsRecorded, [Next]_vars
  PROVE  RowsRecorded'
<1> USE DEF workerVars, chainVars
<1>1. StoredStays
  BY StepStored DEF TypeInv
<1>2. ASSUME NEW r \in Rows, RowStep(r)
      PROVE  RowsRecorded'
  BY <1>1, <1>2, KeepRecorded
     DEF TypeInv, RowStep, RecordServe, RecordDenial, RecordOutcome, EnqueueReported,
         HandlerFails, HoldElapses, Upsert
<1>3. CASE \E w \in Workers : WorkerStep(w)
  BY <1>1, <1>3, WorkerRecorded
<1>4. ASSUME NEW w \in Workers, PassFails(w) \/ CheckFails(w)
      PROVE  RowsRecorded'
  <2>1. todo \in [Workers -> SUBSET Rows] /\ batch \in [Workers -> SUBSET Rows]
    BY DEF TypeInv, TypeOK
  <2>2. CASE PassFails(w)
    BY <1>1, <2>1, <2>2, KeepRecorded DEF TypeInv, PassFails, Abandon
  <2>3. CASE CheckFails(w)
    BY <1>1, <2>3, KeepRecorded DEF TypeInv, CheckFails
  <2> QED
    BY <1>4, <2>2, <2>3
<1>5. ASSUME NEW o \in Orgs, Include(o)
      PROVE  RowsRecorded'
  <2>1. /\ mempool[o] \in Tx /\ chain \in Seq(Tx) /\ chain' = Append(chain, mempool[o])
        /\ \A p \in Orgs : mempool'[p] = IF p = o THEN NoTx ELSE mempool[p]
        /\ UNCHANGED <<status, todo, batch>>
    BY <1>5 DEF Include, TypeInv, TypeOK, rowVars
  <2>2. /\ Len(chain) \in Nat /\ Len(chain') = Len(chain) + 1
        /\ \A i \in 1..Len(chain) : chain'[i] = chain[i]
        /\ chain'[Len(chain) + 1] = mempool[o]
    BY <2>1, AppendFacts
  <2> QED
    BY <2>1, <2>2 DEF RowsRecorded, NoTx
<1>6. ASSUME NEW o \in Orgs, Drop(o)
      PROVE  RowsRecorded'
  BY <1>6 DEF Drop, TypeInv, TypeOK, rowVars, RowsRecorded, NoTx
<1>7. ASSUME NEW o \in Orgs, ChanSend(o)
      PROVE  RowsRecorded'
  BY <1>1, <1>7, KeepRecorded DEF ChanSend, TypeInv
<1>8. CASE Ticker \/ Watch \/ WatchMiss
  BY <1>1, <1>8, KeepRecorded DEF Ticker, Watch, WatchMiss, TypeInv
<1>9. CASE Crash
  BY <1>1, <1>9, KeepRecorded DEF Crash, TypeInv
<1>10. CASE UNCHANGED vars
  BY <1>1, <1>10, KeepRecorded DEF vars, TypeInv
<1> QED
  BY <1>2, <1>3, <1>4, <1>5, <1>6, <1>7, <1>8, <1>9, <1>10 DEF Next

-----------------------------------------------------------------------------
(***************************************************************************)
(* SubmittedIsBacked.                                                      *)
(***************************************************************************)

\* The included transaction id backs every row of R.
Backs(id, R) ==
  \E i \in 1..Len(chain) :
    /\ chain[i].id = id
    /\ \A r \in R : \E q \in chain[i].rows : <<q, r>> \in Alike

\* What a worker marks is backed by the transaction it waited for.
LEMMA MarkedIsBacked ==
  ASSUME TypeOK, HashInv, NEW w \in Workers, pc[w] \in Marking, NEW R \in SUBSET batch[w]
  PROVE  Backs(tx[w], R)
<1>1. PICK i \in 1..Len(chain) : chain[i].id = tx[w]
  BY DEF HashInv, MarkingIsIncluded, OnChain
<1>2. chain[i].rows = batch[w]
  BY <1>1 DEF HashInv, HashIsBatch
<1>3. batch[w] \subseteq Rows
  BY DEF TypeOK
<1> QED
  BY <1>1, <1>2, <1>3, AlikeReflexive DEF Backs

\* What the watcher marks is backed by the transaction it has just read.
LEMMA SettledIsBacked ==
  ASSUME TypeOK, watched < Len(chain)
  PROVE  Backs(chain[watched + 1].id, Settled(chain[watched + 1].rows))
<1>1. watched + 1 \in 1..Len(chain)
  BY DEF TypeOK
<1>2. chain[watched + 1].rows \subseteq Rows
  <2>1. chain[watched + 1] \in Tx
    BY <1>1 DEF TypeOK
  <2> QED
    BY <2>1 DEF Tx
<1>3. \A r \in Settled(chain[watched + 1].rows) :
        \E q \in chain[watched + 1].rows : <<q, r>> \in Alike
  BY <1>2, AlikeReflexive DEF Settled
<1> QED
  BY <1>1, <1>3 DEF Backs

\* A mark is backed by the included transaction it names.
LEMMA MarkBacked ==
  ASSUME SubmittedIsBacked, NEW id, NEW R, Mark(R, id), Backs(id, R), UNCHANGED chain
  PROVE  SubmittedIsBacked'
BY DEF SubmittedIsBacked, Mark, Backs

\* Steps that submit no row, on a chain that only grows.
LEMMA KeepBacked ==
  ASSUME SubmittedIsBacked, UNCHANGED <<txOf, chain>>,
         \A r \in Rows : status'[r] = "submitted" => status[r] = "submitted"
  PROVE  SubmittedIsBacked'
BY DEF SubmittedIsBacked

\* Every step leaves submitted rows backed.
LEMMA StepBacked ==
  ASSUME TypeInv, HashInv, SubmittedIsBacked, [Next]_vars
  PROVE  SubmittedIsBacked'
<1> USE DEF rowVars, chainVars, workerVars
<1>1. ASSUME NEW r \in Rows, RowStep(r)
      PROVE  SubmittedIsBacked'
  <2>1. status \in [Rows -> {"absent", "pending", "submitted"}]
    BY DEF TypeInv, TypeOK
  <2> QED
    BY <1>1, <2>1, KeepBacked DEF RowStep, RecordServe, RecordDenial, RecordOutcome,
         EnqueueReported, HandlerFails,
       HoldElapses, Upsert
<1>2. ASSUME NEW w \in Workers, MarkServes(w) \/ MarkDenials(w) \/ MarkOutcomes(w)
      PROVE  SubmittedIsBacked'
  <2>1. PICK R \in SUBSET batch[w] : Mark(R, tx[w])
    BY <1>2 DEF MarkServes, MarkDenials, MarkOutcomes
  <2>2. pc[w] \in Marking /\ UNCHANGED chain
    BY <1>2 DEF MarkServes, MarkDenials, MarkOutcomes, Marking
  <2> QED
    BY <2>1, <2>2, MarkedIsBacked, MarkBacked DEF TypeInv
<1>3. ASSUME NEW w \in Workers,
             WorkerStep(w) \/ PassFails(w) \/ CheckFails(w),
             ~ (MarkServes(w) \/ MarkDenials(w) \/ MarkOutcomes(w))
      PROVE  SubmittedIsBacked'
  BY <1>3, KeepBacked
     DEF WorkerStep, PassFails, CheckFails, Abandon, Take, LoadServes, LoadDenials, LoadOutcomes,
         Load, Submit, SubmitRejected, Committed, NotIncluded, Release, Check
<1>4. ASSUME NEW o \in Orgs, Include(o)
      PROVE  SubmittedIsBacked'
  <2>1. /\ mempool[o] \in Tx /\ chain \in Seq(Tx) /\ chain' = Append(chain, mempool[o])
        /\ UNCHANGED <<status, txOf>>
    BY <1>4 DEF Include, TypeInv, TypeOK
  <2>2. /\ Len(chain) \in Nat /\ Len(chain') = Len(chain) + 1
        /\ \A i \in 1..Len(chain) : chain'[i] = chain[i]
    BY <2>1, AppendFacts
  <2> SUFFICES ASSUME NEW r \in Rows, status[r] = "submitted"
               PROVE  \E i \in 1..Len(chain') :
                        /\ chain'[i].id = txOf[r]
                        /\ \E q \in chain'[i].rows : <<q, r>> \in Alike
    BY <2>1 DEF SubmittedIsBacked
  <2>3. PICK i \in 1..Len(chain) : /\ chain[i].id = txOf[r]
                                   /\ \E q \in chain[i].rows : <<q, r>> \in Alike
    BY DEF SubmittedIsBacked
  <2>4. i \in 1..Len(chain') /\ chain'[i] = chain[i]
    BY <2>2
  <2> QED
    BY <2>3, <2>4
<1>5. ASSUME NEW o \in Orgs, ChanSend(o) \/ Drop(o)
      PROVE  SubmittedIsBacked'
  BY <1>5, KeepBacked DEF ChanSend, Drop
<1>6. CASE Watch
  BY <1>6, SettledIsBacked, MarkBacked DEF Watch, TypeInv
<1>7. CASE Ticker \/ WatchMiss \/ Crash
  BY <1>7, KeepBacked DEF Ticker, WatchMiss, Crash
<1>8. CASE UNCHANGED vars
  BY <1>8, KeepBacked DEF vars
<1> QED
  BY <1>1, <1>2, <1>3, <1>4, <1>5, <1>6, <1>7, <1>8 DEF Next

\* The ledger invariant holds in every state.
LEMMA LedgerAlways == Spec => [](TypeInv /\ LedgerInv)
<1>1. Init => TypeInv /\ LedgerInv
  BY InitType, InitLedger
<1>2. TypeInv /\ LedgerInv /\ [Next]_vars => (TypeInv /\ LedgerInv)'
  BY StepType, StepHash, StepRecorded, StepBacked DEF LedgerInv
<1> QED
  BY <1>1, <1>2, PTL DEF Spec

\* Whoever marked a row submitted, the chain holds a transaction with the
\* row's hash and an entry of its org, kind and memory.
THEOREM SubmittedRowsAreBacked == Spec => []SubmittedIsBacked
BY LedgerAlways, PTL DEF LedgerInv

-----------------------------------------------------------------------------
(***************************************************************************)
(* ServeRelay implements Outbox.                                           *)
(***************************************************************************)
AbstractVars == <<status, Delivered>>

\* Marking recorded and backed rows is the abstract Settle.
LEMMA MarkSettles ==
  ASSUME NEW R \in SUBSET Rows, NEW id, Mark(R, id), Backs(id, R), UNCHANGED chain,
         \A r \in R : status[r] # "absent"
  PROVE  Ledger!Settle(R)
<1>1. Delivered' = Delivered
  BY DEF Delivered
<1>2. \A r \in R : \E q \in Delivered : <<q, r>> \in Alike
  BY DEF Backs, Delivered
<1> QED
  BY <1>1, <1>2 DEF Mark, Ledger!Settle

\* Every step of the relay is one of Outbox or leaves its state.
LEMMA StepImplements ==
  ASSUME TypeInv, LedgerInv, [Next]_vars
  PROVE  [Ledger!Next]_AbstractVars
<1> USE DEF rowVars, chainVars, workerVars
<1>1. ASSUME UNCHANGED <<status, chain>>
      PROVE  UNCHANGED AbstractVars
  BY <1>1 DEF AbstractVars, Delivered
<1>2. ASSUME NEW r \in Rows, RowStep(r)
      PROVE  [Ledger!Next]_AbstractVars
  <2>1. UNCHANGED chain
    BY <1>2 DEF RowStep, RecordServe, RecordDenial, RecordOutcome, EnqueueReported, HandlerFails,
       HoldElapses, Upsert
  <2>2. \/ UNCHANGED status
        \/ (status[r] = "absent" /\ status' = [status EXCEPT ![r] = "pending"])
    BY <1>2 DEF RowStep, RecordServe, RecordDenial, RecordOutcome, EnqueueReported, HandlerFails,
       HoldElapses, Upsert
  <2>3. CASE UNCHANGED status
    BY <1>1, <2>1, <2>3
  <2>4. CASE status[r] = "absent" /\ status' = [status EXCEPT ![r] = "pending"]
    BY <2>1, <2>4 DEF Ledger!Next, Ledger!Record, Delivered
  <2> QED
    BY <2>2, <2>3, <2>4
<1>3. ASSUME NEW w \in Workers, MarkServes(w) \/ MarkDenials(w) \/ MarkOutcomes(w)
      PROVE  [Ledger!Next]_AbstractVars
  <2>1. PICK R \in SUBSET batch[w] : Mark(R, tx[w])
    BY <1>3 DEF MarkServes, MarkDenials, MarkOutcomes
  <2>2. pc[w] \in Marking /\ UNCHANGED chain
    BY <1>3 DEF MarkServes, MarkDenials, MarkOutcomes, Marking
  <2>3. R \in SUBSET Rows /\ \A r \in R : status[r] # "absent"
    BY <2>1 DEF TypeInv, TypeOK, LedgerInv, RowsRecorded
  <2>4. Ledger!Settle(R)
    BY <2>1, <2>2, <2>3, MarkedIsBacked, MarkSettles DEF TypeInv, LedgerInv
  <2> QED
    BY <2>3, <2>4 DEF Ledger!Next
<1>4. ASSUME NEW w \in Workers,
             WorkerStep(w) \/ PassFails(w) \/ CheckFails(w),
             ~ (MarkServes(w) \/ MarkDenials(w) \/ MarkOutcomes(w))
      PROVE  [Ledger!Next]_AbstractVars
  BY <1>1, <1>4
     DEF WorkerStep, PassFails, CheckFails, Abandon, Take, LoadServes, LoadDenials, LoadOutcomes,
         Load, Submit, SubmitRejected, Committed, NotIncluded, Release, Check
<1>5. ASSUME NEW o \in Orgs, Include(o)
      PROVE  [Ledger!Next]_AbstractVars
  <2>1. /\ mempool[o] \in Tx /\ chain \in Seq(Tx) /\ chain' = Append(chain, mempool[o])
        /\ UNCHANGED status
    BY <1>5 DEF Include, TypeInv, TypeOK
  <2>2. /\ Len(chain) \in Nat /\ Len(chain') = Len(chain) + 1
        /\ \A i \in 1..Len(chain) : chain'[i] = chain[i]
        /\ chain'[Len(chain) + 1] = mempool[o]
    BY <2>1, AppendFacts
  <2>3. Delivered' = Delivered \cup mempool[o].rows
    BY <2>2 DEF Delivered
  <2>4. mempool[o].rows \in SUBSET Rows /\ \A r \in mempool[o].rows : status[r] # "absent"
    BY <2>1 DEF Tx, LedgerInv, RowsRecorded
  <2> QED
    BY <2>1, <2>3, <2>4 DEF Ledger!Next, Ledger!Deliver
<1>6. ASSUME NEW o \in Orgs, ChanSend(o) \/ Drop(o)
      PROVE  [Ledger!Next]_AbstractVars
  BY <1>1, <1>6 DEF ChanSend, Drop
<1>7. CASE Watch
  <2> DEFINE entry == chain[watched + 1]
  <2>1. /\ Mark(Settled(entry.rows), entry.id) /\ UNCHANGED chain
        /\ watched < Len(chain)
    BY <1>7 DEF Watch
  <2>2. watched + 1 \in 1..Len(chain) /\ entry.rows \in SUBSET Rows
    <3>1. watched + 1 \in 1..Len(chain) /\ entry \in Tx
      BY <2>1 DEF TypeInv, TypeOK
    <3> QED
      BY <3>1 DEF Tx
  <2>3. Settled(entry.rows) \in SUBSET Rows
    BY <2>2, SettledIsSubset
  <2>4. \A r \in Settled(entry.rows) : status[r] # "absent"
    BY <2>2 DEF Settled, LedgerInv, RowsRecorded
  <2>5. Ledger!Settle(Settled(entry.rows))
    BY <2>1, <2>3, <2>4, SettledIsBacked, MarkSettles DEF TypeInv
  <2> QED
    BY <2>3, <2>5 DEF Ledger!Next
<1>8. CASE Ticker \/ WatchMiss \/ Crash
  BY <1>1, <1>8 DEF Ticker, WatchMiss, Crash
<1>9. CASE UNCHANGED vars
  BY <1>1, <1>9 DEF vars
<1> QED
  BY <1>2, <1>3, <1>4, <1>5, <1>6, <1>7, <1>8, <1>9 DEF Next

\* The relay starts as Outbox does.
LEMMA InitImplements == Init => Ledger!Init
BY DEF Init, Ledger!Init, Delivered

\* Every behaviour of the relay, with its faults and crashes, is one of Outbox.
THEOREM RelayImplementsOutbox == Spec => ImplementsOutbox
<1>1. TypeInv /\ LedgerInv /\ [Next]_vars => [Ledger!Next]_(Ledger!vars)
  BY StepImplements DEF AbstractVars, Ledger!vars
<1> QED
  BY <1>1, InitImplements, LedgerAlways, PTL DEF Spec, ImplementsOutbox, Ledger!Spec
-----------------------------------------------------------------------------
(***************************************************************************)
(* IncludedOnce.                                                           *)
(*                                                                         *)
(* While no pass fails and the process does not die, a row goes to the     *)
(* chain only in the transaction its worker is waiting for, and the worker *)
(* forgets it only after marking it: it is never loaded again.             *)
(***************************************************************************)
InHand == Marking \cup {"await"}

Calm == ~ Happened("pass") /\ ~ Happened("crash")

\* A worker's loaded rows are of its org; its batch is taken from them.
TodoInv == \A w \in Workers :
  /\ batch[w] \subseteq todo[w]
  /\ \A r \in todo[w] : OrgOf[r] = org[w]
  /\ todo[w] # {} => pc[w] \in InPass

\* The three marks of a flush come one after the other.
MarkedInOrder == \A w \in Workers :
  /\ pc[w] \in {"markDenials", "markOutcomes"} =>
       \A r \in batch[w] \cap Serves : status[r] = "submitted"
  /\ pc[w] = "markOutcomes" => \A r \in batch[w] \cap Denials : status[r] = "submitted"

\* A transaction is in one place: the mempool under one key, or the chain.
TxInOnePlace ==
  /\ \A o \in Orgs : mempool[o] # NoTx => mempool[o].id # 0 /\ ~ OnChain(mempool[o].id)
  /\ \A o, p \in Orgs : o # p /\ mempool[o].id = mempool[p].id => mempool[o].id = 0

\* Every transaction in the mempool has the worker that waits for it.
IsAwaited ==
  \A o \in Orgs : mempool[o] # NoTx =>
    \E w \in Workers : pc[w] = "await" /\ org[w] = o /\ tx[w] = mempool[o].id

\* A row on the chain is submitted, or a worker is about to mark it.
SentIsSettled ==
  \A i \in 1..Len(chain) : \A r \in chain[i].rows :
    status[r] = "submitted" \/ \E w \in Workers : r \in batch[w]

\* Only the transaction in hand shares rows with the loaded ones.
TodoIsUnsent ==
  \A w \in Workers : \A i \in 1..Len(chain) :
    chain[i].rows \cap todo[w] # {} => pc[w] \in InHand /\ chain[i].id = tx[w]

Disjoint == \A i, j \in 1..Len(chain) : i # j => chain[i].rows \cap chain[j].rows = {}

SentInv == IsAwaited /\ SentIsSettled /\ TodoIsUnsent /\ Disjoint

\* What the earlier sections proved, and what this one adds.
Base == TypeInv /\ QueueInv /\ PassInv /\ HashInv

OnceInv == TodoInv /\ MarkedInOrder /\ TxInOnePlace /\ (Calm => SentInv)

\* The invariant holds before anything is sent.
LEMMA InitOnce == Init => OnceInv
BY DEF Init, OnceInv, TodoInv, MarkedInOrder, TxInOnePlace, SentInv, IsAwaited, SentIsSettled,
       TodoIsUnsent, Disjoint, NoTx

\* A step that moves at most one worker and loads nothing.
LEMMA KeepTodo ==
  ASSUME TodoInv,
         \A w \in Workers : \/ batch'[w] = {} /\ todo'[w] = {}
                            \/ /\ batch'[w] \in {batch[w], {}} /\ todo'[w] \subseteq todo[w]
                               /\ batch'[w] \subseteq todo'[w]
                               /\ org'[w] = org[w]
                               /\ pc'[w] \in InPass \/ pc'[w] = pc[w] \/ todo'[w] = {}
  PROVE  TodoInv'
BY DEF TodoInv

\* Every step keeps a worker's rows of its org, and its batch among them.
LEMMA StepTodo ==
  ASSUME TypeInv, PassInv, TodoInv, [Next]_vars
  PROVE  TodoInv'
<1> USE DEF workerVars
<1>0. /\ pc \in [Workers -> InPass \cup {"idle", "release", "check"}]
      /\ org \in [Workers -> Orgs \cup {NoOrg}]
      /\ todo \in [Workers -> SUBSET Rows] /\ batch \in [Workers -> SUBSET Rows]
  BY DEF TypeInv, TypeOK
<1>1. ASSUME UNCHANGED workerVars PROVE TodoInv'
  BY <1>1 DEF TodoInv
<1>2. ASSUME NEW r \in Rows, RowStep(r)
      PROVE  TodoInv'
  BY <1>1, <1>2 DEF RowStep, RecordServe, RecordDenial, RecordOutcome, EnqueueReported,
       HandlerFails,
       HoldElapses, Upsert
<1>3. ASSUME NEW w \in Workers, Take(w) \/ Release(w) \/ Check(w) \/ CheckFails(w)
      PROVE  TodoInv'
  <2>1. todo[w] = {} /\ batch[w] = {} /\ UNCHANGED <<todo, batch>>
    BY <1>0, <1>3 DEF TodoInv, Take, Release, Check, CheckFails, InPass
  <2>2. \A v \in Workers \ {w} : pc'[v] = pc[v] /\ org'[v] = org[v]
    BY <1>0, <1>3 DEF Take, Release, Check, CheckFails, Goto
  <2> QED
    BY <2>1, <2>2, KeepTodo DEF TodoInv
<1>4. ASSUME NEW w \in Workers, NEW at \in {"serves", "denials", "outcomes"}, NEW next, NEW R,
             Load(w, at, R, next), R \subseteq Pending(org[w]),
             next \in InPass \/ todo'[w] = {}
      PROVE  TodoInv'
  <2>1. PICK F \in Fetched(R) : todo' = [todo EXCEPT ![w] = @ \cup F]
    BY <1>4 DEF Load
  <2>2. F \subseteq Pending(org[w])
    BY <1>4, <2>1, FetchedIsSubset
  <2>3. /\ batch[w] = {} /\ UNCHANGED <<org, batch>> /\ pc'[w] = next
        /\ \A v \in Workers \ {w} : pc'[v] = pc[v]
    BY <1>0, <1>4 DEF Load, Goto, PassInv, BatchInHand
  <2> QED
    BY <1>0, <1>4, <2>1, <2>2, <2>3 DEF TodoInv, Pending
<1>5. ASSUME NEW w \in Workers, LoadServes(w)
      PROVE  TodoInv'
  BY <1>4, <1>5 DEF LoadServes, PendingServes, Ripe, InPass
<1>6. ASSUME NEW w \in Workers, LoadDenials(w)
      PROVE  TodoInv'
  BY <1>4, <1>6 DEF LoadDenials, PendingDenials, Ripe, InPass
<1>7. ASSUME NEW w \in Workers, LoadOutcomes(w)
      PROVE  TodoInv'
  BY <1>4, <1>7 DEF LoadOutcomes, PendingOutcomes, InPass
<1>8. ASSUME NEW w \in Workers, Submit(w)
      PROVE  TodoInv'
  <2>1. NextBatch(todo[w]) \subseteq todo[w]
    BY NextBatchIsSubset
  <2> QED
    BY <1>0, <1>8, <2>1 DEF Submit, Goto, TodoInv, InPass
<1>9. ASSUME NEW w \in Workers,
             Committed(w) \/ MarkServes(w) \/ MarkDenials(w)
      PROVE  TodoInv'
  BY <1>0, <1>9 DEF Committed, MarkServes, MarkDenials, Goto, InPass, TodoInv
<1>10. ASSUME NEW w \in Workers, MarkOutcomes(w)
       PROVE  TodoInv'
  BY <1>0, <1>10, KeepTodo DEF MarkOutcomes, Goto, InPass, TodoInv
<1>11. ASSUME NEW w \in Workers, SubmitRejected(w) \/ NotIncluded(w) \/ PassFails(w)
       PROVE  TodoInv'
  BY <1>0, <1>11, KeepTodo DEF SubmitRejected, NotIncluded, PassFails, Abandon, Goto, TodoInv
<1>12. ASSUME NEW o \in Orgs, ChanSend(o) \/ Include(o) \/ Drop(o)
       PROVE  TodoInv'
  BY <1>1, <1>12 DEF ChanSend, Include, Drop
<1>13. CASE Ticker \/ Watch \/ WatchMiss
  BY <1>1, <1>13 DEF Ticker, Watch, WatchMiss
<1>14. CASE Crash
  BY <1>14, KeepTodo DEF Crash
<1>15. CASE UNCHANGED vars
  BY <1>1, <1>15 DEF vars
<1> QED
  BY <1>2, <1>3, <1>5, <1>6, <1>7, <1>8, <1>9, <1>10, <1>11, <1>12, <1>13, <1>14, <1>15
     DEF Next, WorkerStep

\* A submitted row stays submitted.
SubmittedStays == \A r \in Rows : status[r] = "submitted" => status'[r] = "submitted"

LEMMA StepSubmitted ==
  ASSUME TypeOK, [Next]_vars
  PROVE  SubmittedStays
<1> USE DEF TypeOK, SubmittedStays
<1>1. ASSUME NEW R, NEW id, Mark(R, id) PROVE SubmittedStays
  BY <1>1 DEF Mark
<1>2. ASSUME NEW r \in Rows, RowStep(r)
      PROVE  SubmittedStays
  BY <1>2 DEF RowStep, RecordServe, RecordDenial, RecordOutcome, EnqueueReported, HandlerFails,
       HoldElapses, Upsert
<1>3. ASSUME NEW w \in Workers, MarkServes(w) \/ MarkDenials(w) \/ MarkOutcomes(w)
      PROVE  SubmittedStays
  BY <1>1, <1>3 DEF MarkServes, MarkDenials, MarkOutcomes
<1>4. CASE Watch
  BY <1>1, <1>4 DEF Watch
<1>5. ASSUME NEW w \in Workers,
             WorkerStep(w) \/ PassFails(w) \/ CheckFails(w),
             ~ (MarkServes(w) \/ MarkDenials(w) \/ MarkOutcomes(w))
      PROVE  SubmittedStays
  BY <1>5 DEF WorkerStep, PassFails, CheckFails, Abandon, Take, LoadServes, LoadDenials,
              LoadOutcomes, Load, Submit, SubmitRejected, Committed, NotIncluded, Release,
              Check, rowVars
<1>6. ASSUME NEW o \in Orgs, ChanSend(o) \/ Include(o) \/ Drop(o) PROVE SubmittedStays
  BY <1>6 DEF ChanSend, Include, Drop, rowVars
<1>7. CASE Ticker \/ WatchMiss \/ Crash
  BY <1>7 DEF Ticker, WatchMiss, Crash, rowVars
<1>8. CASE UNCHANGED vars
  BY <1>8 DEF vars, rowVars
<1> QED
  BY <1>2, <1>3, <1>4, <1>5, <1>6, <1>7, <1>8 DEF Next

\* No step but a mark enters the later marking stages, and none of them
\* changes the batch without leaving.
LEMMA KeepMarked ==
  ASSUME TypeOK, MarkedInOrder, SubmittedStays,
         \A w \in Workers : pc'[w] \in {"markDenials", "markOutcomes"} =>
           pc'[w] = pc[w] /\ batch'[w] = batch[w]
  PROVE  MarkedInOrder'
<1>1. \A w \in Workers : batch[w] \subseteq Rows
  BY DEF TypeOK
<1> QED
  BY <1>1 DEF MarkedInOrder, SubmittedStays

\* Every step keeps the order of the marks.
LEMMA StepMarked ==
  ASSUME TypeInv, MarkedInOrder, [Next]_vars
  PROVE  MarkedInOrder'
<1> USE DEF workerVars
<1>0. /\ pc \in [Workers -> InPass \cup {"idle", "release", "check"}]
      /\ batch \in [Workers -> SUBSET Rows]
      /\ status \in [Rows -> {"absent", "pending", "submitted"}]
  BY DEF TypeInv, TypeOK
<1>a. TypeOK /\ SubmittedStays
  BY StepSubmitted DEF TypeInv
<1>1. ASSUME NEW r \in Rows, RowStep(r)
      PROVE  MarkedInOrder'
  BY <1>a, <1>1, KeepMarked DEF RowStep, RecordServe, RecordDenial, RecordOutcome,
       EnqueueReported, HandlerFails,
       HoldElapses, Upsert
<1>2. ASSUME NEW w \in Workers, MarkServes(w)
      PROVE  MarkedInOrder'
  <2>1. /\ pc'[w] = "markDenials" /\ \A v \in Workers \ {w} : pc'[v] = pc[v]
        /\ batch' = batch
        /\ \A r \in batch[w] \cap Serves : status'[r] = "submitted"
    BY <1>0, <1>2 DEF MarkServes, Mark, Goto
  <2> QED
    BY <1>a, <1>0, <2>1 DEF MarkedInOrder, SubmittedStays
<1>3. ASSUME NEW w \in Workers, MarkDenials(w)
      PROVE  MarkedInOrder'
  <2>1. /\ pc'[w] = "markOutcomes" /\ \A v \in Workers \ {w} : pc'[v] = pc[v]
        /\ batch' = batch /\ pc[w] = "markDenials"
        /\ \A r \in batch[w] \cap Denials : status'[r] = "submitted"
    BY <1>0, <1>3 DEF MarkDenials, Mark, Goto
  <2> QED
    BY <1>a, <1>0, <2>1 DEF MarkedInOrder, SubmittedStays
<1>4. ASSUME NEW w \in Workers,
             Take(w) \/ LoadServes(w) \/ LoadDenials(w) \/ LoadOutcomes(w) \/ Submit(w)
               \/ Committed(w) \/ MarkOutcomes(w)
      PROVE  MarkedInOrder'
  BY <1>a, <1>0, <1>4, KeepMarked DEF Take, LoadServes, LoadDenials, LoadOutcomes, Load, Submit,
     Committed, MarkOutcomes, Goto
<1>5. ASSUME NEW w \in Workers,
             SubmitRejected(w) \/ NotIncluded(w) \/ PassFails(w) \/ CheckFails(w)
               \/ Release(w) \/ Check(w)
      PROVE  MarkedInOrder'
  BY <1>a, <1>0, <1>5, KeepMarked DEF SubmitRejected, NotIncluded, PassFails, Abandon, CheckFails,
     Release, Check, Goto
<1>6. ASSUME NEW o \in Orgs, ChanSend(o) \/ Include(o) \/ Drop(o)
      PROVE  MarkedInOrder'
  BY <1>a, <1>6, KeepMarked DEF ChanSend, Include, Drop
<1>7. CASE Ticker \/ Watch \/ WatchMiss
  BY <1>a, <1>7, KeepMarked DEF Ticker, Watch, WatchMiss
<1>8. CASE Crash
  BY <1>a, <1>8, KeepMarked DEF Crash
<1>9. CASE UNCHANGED vars
  BY <1>a, <1>9, KeepMarked DEF vars
<1> QED
  BY <1>1, <1>2, <1>3, <1>4, <1>5, <1>6, <1>7, <1>8, <1>9 DEF Next, WorkerStep

\* A fresh hash is neither in the mempool nor on the chain.
LEMMA StepOnePlace ==
  ASSUME TypeInv, HashInv, TxInOnePlace, [Next]_vars
  PROVE  TxInOnePlace'
<1> USE DEF chainVars
<1>0. /\ mempool \in [Orgs -> Tx] /\ chain \in Seq(Tx) /\ txs \in Nat /\ NoTx.id = 0
      /\ NoTx \in Tx /\ \A o \in Orgs : mempool[o].id \in Nat
  BY DEF TypeInv, TypeOK, Tx, NoTx
<1>1. ASSUME UNCHANGED <<mempool, chain>> PROVE TxInOnePlace'
  BY <1>1 DEF TxInOnePlace, OnChain
<1>2. ASSUME NEW w \in Workers, Submit(w)
      PROVE  TxInOnePlace'
  <2> DEFINE new == [id |-> txs + 1, rows |-> NextBatch(todo[w])]
  <2>1. /\ org[w] \in Orgs /\ UNCHANGED chain /\ new.id = txs + 1
        /\ \A o \in Orgs : mempool'[o] = IF o = org[w] THEN new ELSE mempool[o]
    BY <1>0, <1>2 DEF Submit, TypeInv, WorkerOrg
  <2>2. ~ OnChain(txs + 1) /\ \A o \in Orgs : mempool[o].id # txs + 1
    <3>1. \A i \in 1..Len(chain) : chain[i].id \in Nat
      <4>1. \A i \in 1..Len(chain) : chain[i] \in Tx
        BY <1>0
      <4> QED
        BY <4>1 DEF Tx
    <3> QED
      BY <1>0, <3>1 DEF HashInv, HashesBounded, OnChain
  <2> HIDE DEF new
  <2> QED
    BY <1>0, <2>1, <2>2 DEF TxInOnePlace, OnChain
<1>3. ASSUME NEW o \in Orgs, Include(o)
      PROVE  TxInOnePlace'
  <2>1. /\ mempool[o] # NoTx /\ chain' = Append(chain, mempool[o])
        /\ \A p \in Orgs : mempool'[p] = IF p = o THEN NoTx ELSE mempool[p]
    BY <1>0, <1>3 DEF Include
  <2>2. \A id : OnChain(id)' => OnChain(id) \/ id = mempool[o].id
    <3>1. /\ Len(chain) \in Nat /\ Len(chain') = Len(chain) + 1
          /\ \A i \in 1..Len(chain) : chain'[i] = chain[i]
          /\ chain'[Len(chain) + 1] = mempool[o]
      BY <1>0, <2>1, AppendFacts
    <3> QED
      BY <3>1 DEF OnChain
  <2> QED
    BY <1>0, <2>1, <2>2 DEF TxInOnePlace
<1>4. ASSUME NEW o \in Orgs, Drop(o)
      PROVE  TxInOnePlace'
  BY <1>0, <1>4 DEF Drop, TxInOnePlace, OnChain
<1>5. ASSUME NEW r \in Rows, RowStep(r)
      PROVE  TxInOnePlace'
  BY <1>1, <1>5 DEF RowStep, RecordServe, RecordDenial, RecordOutcome, EnqueueReported,
       HandlerFails,
       HoldElapses, Upsert
<1>6. ASSUME NEW w \in Workers, WorkerStep(w) \/ PassFails(w) \/ CheckFails(w), ~ Submit(w)
      PROVE  TxInOnePlace'
  BY <1>1, <1>6 DEF WorkerStep, PassFails, CheckFails, Abandon, Take, LoadServes, LoadDenials,
     LoadOutcomes, Load, SubmitRejected, Committed, NotIncluded, MarkServes, MarkDenials,
     MarkOutcomes, Release, Check
<1>7. ASSUME NEW o \in Orgs, ChanSend(o) PROVE TxInOnePlace'
  BY <1>1, <1>7 DEF ChanSend
<1>8. CASE Ticker \/ Watch \/ WatchMiss \/ Crash
  BY <1>1, <1>8 DEF Ticker, Watch, WatchMiss, Crash
<1>9. CASE UNCHANGED vars
  BY <1>1, <1>9 DEF vars
<1> QED
  BY <1>2, <1>3, <1>4, <1>5, <1>6, <1>7, <1>8, <1>9 DEF Next

\* A calm record stays calm only through calm steps.
LEMMA CalmBefore ==
  ASSUME TypeInv, [Next]_vars, Calm'
  PROVE  Calm
<1>1. faults \in Seq(FaultKinds)
  BY DEF TypeInv, TypeOK
<1>2. UNCHANGED faults \/ \E kind \in FaultKinds : Fault(kind)
  <2>1. ASSUME NEW r \in Rows, RowStep(r)
        PROVE  UNCHANGED faults \/ \E kind \in FaultKinds : Fault(kind)
    BY <2>1 DEF RowStep, RecordServe, RecordDenial, RecordOutcome, EnqueueReported, HandlerFails,
       HoldElapses, Upsert, Fault
  <2>2. ASSUME NEW w \in Workers, WorkerStep(w)
        PROVE  UNCHANGED faults
    BY <2>2 DEF WorkerStep, Take, LoadServes, LoadDenials, LoadOutcomes, Load, Submit,
       SubmitRejected, Committed, NotIncluded, MarkServes, MarkDenials, MarkOutcomes,
            Release, Check
  <2>3. ASSUME NEW w \in Workers, PassFails(w) \/ CheckFails(w)
        PROVE  \E kind \in FaultKinds : Fault(kind)
    BY <2>3 DEF PassFails, CheckFails, Fault
  <2>4. ASSUME NEW o \in Orgs, ChanSend(o) \/ Include(o) \/ Drop(o)
        PROVE  UNCHANGED faults \/ \E kind \in FaultKinds : Fault(kind)
    BY <2>4 DEF ChanSend, Include, Drop, Fault
  <2>5. CASE Ticker \/ Watch \/ WatchMiss \/ Crash
    BY <2>5 DEF Ticker, Watch, WatchMiss, Crash, Fault
  <2>6. CASE UNCHANGED vars
    BY <2>6 DEF vars
  <2> QED
    BY <2>1, <2>2, <2>3, <2>4, <2>5, <2>6 DEF Next
<1>3. FaultsGrow
  BY <1>1, <1>2, FaultIsRecorded DEF FaultsGrow, Happened
<1> QED
  BY <1>3 DEF Calm, FaultsGrow

\* A failed pass and a crash are recorded.
LEMMA CalmExcludes ==
  ASSUME TypeInv
  PROVE  /\ Crash => ~ Calm'
         /\ \A w \in Workers : PassFails(w) => ~ Calm'
<1>1. faults \in Seq(FaultKinds)
  BY DEF TypeInv, TypeOK
<1> QED
  BY <1>1, FaultIsRecorded DEF Crash, PassFails, Calm

\* Steps that keep the mempool, the chain and what is in hand.
LEMMA KeepSent ==
  ASSUME TypeOK, SentInv, SubmittedStays, UNCHANGED <<chain, batch, tx>>,
         \A o \in Orgs : mempool'[o] \in {mempool[o], NoTx},
         \A w \in Workers : pc[w] = "await" => pc'[w] = "await" /\ org'[w] = org[w],
         \A w \in Workers : pc[w] \in InHand => pc'[w] \in InHand,
         \A w \in Workers : todo'[w] = todo[w]
  PROVE  SentInv'
<1>1. IsAwaited'
  BY DEF SentInv, IsAwaited
<1>2. SentIsSettled'
  <2>1. \A i \in 1..Len(chain) : chain[i].rows \subseteq Rows
    <3>1. \A i \in 1..Len(chain) : chain[i] \in Tx
      BY DEF TypeOK
    <3> QED
      BY <3>1 DEF Tx
  <2> QED
    BY <2>1 DEF SentInv, SentIsSettled, SubmittedStays
<1>3. TodoIsUnsent' /\ Disjoint'
  BY DEF SentInv, TodoIsUnsent, Disjoint
<1> QED
  BY <1>1, <1>2, <1>3 DEF SentInv

\* A pending row on the chain is in the hand of the one worker of its org:
\* a query of another step of that worker's pass cannot return it.
LEMMA LoadSent ==
  ASSUME Base, TodoInv, SentInv, NEW w \in Workers, NEW at \in {"serves", "denials", "outcomes"},
         NEW next, NEW R \in SUBSET Pending(org[w]), Load(w, at, R, next)
  PROVE  SentInv'
<1>0. /\ pc \in [Workers -> InPass \cup {"idle", "release", "check"}]
      /\ todo \in [Workers -> SUBSET Rows] /\ batch \in [Workers -> SUBSET Rows]
  BY DEF Base, TypeInv, TypeOK
<1>1. PICK F \in Fetched(R) : todo' = [todo EXCEPT ![w] = @ \cup F]
  BY DEF Load
<1>2. F \subseteq Pending(org[w])
  BY <1>1, FetchedIsSubset
<1>3. /\ pc[w] = at /\ \A v \in Workers \ {w} : pc'[v] = pc[v]
      /\ UNCHANGED <<status, org, batch, tx, mempool, chain>>
  BY <1>0 DEF Load, Goto, rowVars, chainVars
<1>4. \A i \in 1..Len(chain) : chain[i].rows \cap Pending(org[w]) = {}
  <2> SUFFICES ASSUME NEW i \in 1..Len(chain), NEW r \in chain[i].rows, r \in Pending(org[w])
               PROVE  FALSE
    OBVIOUS
  <2>1. PICK v \in Workers : r \in batch[v]
    BY DEF SentInv, SentIsSettled, Pending
  <2>2. r \in todo[v] /\ OrgOf[r] = org[v] /\ OrgOf[r] = org[w] /\ pc[v] \in InHand
    BY <2>1 DEF TodoInv, Pending, Base, PassInv, BatchInHand, InHand, Marking
  <2>3. Working(v) /\ Working(w) /\ v # w
    BY <1>3, <2>2 DEF Working, InPass, InHand, Marking
  <2> QED
    BY <2>2, <2>3 DEF Base, QueueInv, SingleFlight
<1>5. IsAwaited' /\ SentIsSettled' /\ Disjoint'
  BY <1>3 DEF SentInv, IsAwaited, SentIsSettled, Disjoint
<1>6. TodoIsUnsent'
  BY <1>0, <1>1, <1>2, <1>3, <1>4 DEF SentInv, TodoIsUnsent, InHand, Marking
<1> QED
  BY <1>5, <1>6 DEF SentInv

\* A broadcast puts rows into the mempool that are nowhere else.
LEMMA SubmitSent ==
  ASSUME Base, SentInv, NEW w \in Workers, Submit(w)
  PROVE  SentInv'
<1>1. /\ pc[w] = "submit" /\ pc'[w] = "await" /\ org[w] \in Orgs
      /\ \A v \in Workers \ {w} : pc'[v] = pc[v] /\ batch'[v] = batch[v] /\ tx'[v] = tx[v]
      /\ UNCHANGED <<status, org, todo, chain>> /\ tx'[w] = txs'
      /\ \A o \in Orgs \ {org[w]} : mempool'[o] = mempool[o]
      /\ mempool'[org[w]].id = txs'
  BY DEF Base, TypeInv, TypeOK, WorkerOrg, Submit, Goto, rowVars
<1>2. IsAwaited'
  BY <1>1 DEF SentInv, IsAwaited
<1>3. batch[w] = {}
  BY <1>1 DEF Base, PassInv, BatchInHand
<1>4. SentIsSettled'
  BY <1>1, <1>3 DEF SentInv, SentIsSettled
<1>5. TodoIsUnsent' /\ Disjoint'
  BY <1>1 DEF SentInv, TodoIsUnsent, Disjoint, InHand, Marking
<1> QED
  BY <1>2, <1>4, <1>5 DEF SentInv

\* The worker moves on from its wait, and the transaction has left the mempool.
LEMMA CommittedSent ==
  ASSUME Base, TxInOnePlace, SentInv, NEW w \in Workers, Committed(w)
  PROVE  SentInv'
<1>1. /\ pc[w] = "await" /\ pc'[w] = "markServes" /\ OnChain(tx[w])
      /\ \A v \in Workers \ {w} : pc'[v] = pc[v]
      /\ UNCHANGED <<status, org, todo, batch, tx, chain, mempool>>
  BY DEF Base, TypeInv, TypeOK, Committed, Goto, rowVars, chainVars
<1>2. IsAwaited'
  BY <1>1 DEF SentInv, IsAwaited, TxInOnePlace
<1>3. SentIsSettled' /\ TodoIsUnsent' /\ Disjoint'
  BY <1>1 DEF SentInv, SentIsSettled, TodoIsUnsent, Disjoint, InHand, Marking
<1> QED
  BY <1>2, <1>3 DEF SentInv

\* After the last mark every row of the batch is submitted.
LEMMA MarkOutcomesSent ==
  ASSUME Base, TodoInv, MarkedInOrder, SentInv, SubmittedStays,
         NEW w \in Workers, MarkOutcomes(w)
  PROVE  SentInv'
<1>0. /\ pc \in [Workers -> InPass \cup {"idle", "release", "check"}]
      /\ todo \in [Workers -> SUBSET Rows] /\ batch \in [Workers -> SUBSET Rows]
      /\ tx \in [Workers -> Nat]
      /\ status \in [Rows -> {"absent", "pending", "submitted"}]
  BY DEF Base, TypeInv, TypeOK
<1>1. /\ pc[w] = "markOutcomes"
      /\ \A v \in Workers \ {w} : /\ pc'[v] = pc[v] /\ todo'[v] = todo[v]
                                  /\ batch'[v] = batch[v] /\ tx'[v] = tx[v]
      /\ todo'[w] = todo[w] \ batch[w] /\ batch'[w] = {}
      /\ UNCHANGED <<org, chain, mempool>>
  BY <1>0 DEF MarkOutcomes, Goto, chainVars
<1>2. \A r \in batch[w] : status'[r] = "submitted"
  <2>1. \A r \in batch[w] \cap Outcomes : status'[r] = "submitted"
    BY <1>0 DEF MarkOutcomes, Mark
  <2>2. \A r \in batch[w] : r \in Serves \/ r \in Denials \/ r \in Outcomes
    BY <1>0 DEF Rows
  <2> QED
    BY <1>0, <1>1, <2>1, <2>2 DEF MarkedInOrder, SubmittedStays
<1>3. IsAwaited'
  BY <1>1 DEF SentInv, IsAwaited
<1>4. SentIsSettled'
  <2>1. \A i \in 1..Len(chain) : chain[i].rows \subseteq Rows
    <3>1. \A i \in 1..Len(chain) : chain[i] \in Tx
      BY DEF Base, TypeInv, TypeOK
    <3> QED
      BY <3>1 DEF Tx
  <2> QED
    BY <1>1, <1>2, <2>1 DEF SentInv, SentIsSettled, SubmittedStays
<1>5. \A i \in 1..Len(chain) : chain[i].rows \cap todo'[w] = {}
  <2>1. \A i \in 1..Len(chain) : chain[i].rows \cap todo[w] # {} => chain[i].id = tx[w]
    BY DEF SentInv, TodoIsUnsent
  <2>2. \A i \in 1..Len(chain) : chain[i].id = tx[w] => chain[i].rows = batch[w]
    BY <1>1 DEF Base, HashInv, HashIsBatch, Marking
  <2> QED
    BY <1>1, <2>1, <2>2
<1>6. TodoIsUnsent' /\ Disjoint'
  BY <1>1, <1>5 DEF SentInv, TodoIsUnsent, Disjoint
<1> QED
  BY <1>3, <1>4, <1>6 DEF SentInv

\* A pass that gives up without a fault has nothing of its own under way: its
\* transaction is neither in the mempool nor on the chain.
LEMMA AbandonSent ==
  ASSUME Base, TodoInv, SentInv, NEW w \in Workers, SubmitRejected(w) \/ NotIncluded(w)
  PROVE  SentInv'
<1>1. /\ \A v \in Workers \ {w} : /\ pc'[v] = pc[v] /\ todo'[v] = todo[v]
                                  /\ batch'[v] = batch[v] /\ tx'[v] = tx[v]
      /\ todo'[w] = {} /\ batch'[w] = {}
      /\ UNCHANGED <<status, org, chain, mempool>>
  BY DEF Base, TypeInv, TypeOK, SubmitRejected, NotIncluded, Abandon, Goto, rowVars, chainVars
<1>2. IsAwaited'
  <2>1. \A o \in Orgs : mempool[o] # NoTx => ~ (pc[w] = "await" /\ tx[w] = mempool[o].id)
    BY DEF SubmitRejected, NotIncluded, InMempool
  <2> QED
    BY <1>1, <2>1 DEF SentInv, IsAwaited
<1>3. \A i \in 1..Len(chain) : chain[i].rows \cap batch[w] = {}
  <2>1. CASE pc[w] = "submit"
    BY <2>1 DEF Base, PassInv, BatchInHand
  <2>2. CASE ~ OnChain(tx[w])
    BY <2>2 DEF SentInv, TodoIsUnsent, TodoInv, OnChain
  <2> QED
    BY <2>1, <2>2 DEF SubmitRejected, NotIncluded
<1>4. SentIsSettled'
  BY <1>1, <1>3 DEF SentInv, SentIsSettled
<1>5. TodoIsUnsent' /\ Disjoint'
  BY <1>1 DEF SentInv, TodoIsUnsent, Disjoint
<1> QED
  BY <1>2, <1>4, <1>5 DEF SentInv

\* The transaction that a block takes in is new to the chain, and nobody but
\* its worker has loaded one of its rows.
LEMMA IncludeSent ==
  ASSUME Base, TodoInv, TxInOnePlace, SentInv, NEW o \in Orgs, Include(o)
  PROVE  SentInv'
<1>0. /\ mempool \in [Orgs -> Tx] /\ chain \in Seq(Tx) /\ NoTx \in Tx
      /\ todo \in [Workers -> SUBSET Rows]
  BY DEF Base, TypeInv, TypeOK, Tx, NoTx
<1>1. /\ Len(chain) \in Nat /\ Len(chain') = Len(chain) + 1
      /\ \A i \in 1..Len(chain) : chain'[i] = chain[i]
      /\ chain'[Len(chain) + 1] = mempool[o]
  BY <1>0, AppendFacts DEF Include
<1>2. /\ mempool[o] # NoTx /\ \A p \in Orgs : mempool'[p] = IF p = o THEN NoTx ELSE mempool[p]
      /\ UNCHANGED <<status, pc, org, todo, batch, tx>>
  BY <1>0 DEF Include, rowVars, workerVars
<1>3. PICK w \in Workers : pc[w] = "await" /\ org[w] = o /\ tx[w] = mempool[o].id
  BY <1>2 DEF SentInv, IsAwaited
<1>4. mempool[o].rows = batch[w] /\ batch[w] \subseteq todo[w]
  BY <1>3 DEF Base, HashInv, HashIsBatch, TodoInv
<1>5. \A i \in 1..Len(chain) : chain[i].rows \cap batch[w] = {}
  <2>1. \A i \in 1..Len(chain) : chain[i].id # tx[w]
    BY <1>2, <1>3 DEF TxInOnePlace, OnChain
  <2> QED
    BY <1>4, <2>1 DEF SentInv, TodoIsUnsent
<1>6. \A v \in Workers : v # w => batch[w] \cap todo[v] = {}
  <2> SUFFICES ASSUME NEW v \in Workers, v # w, NEW r \in batch[w], r \in todo[v]
               PROVE  FALSE
    OBVIOUS
  <2>1. OrgOf[r] = org[w] /\ OrgOf[r] = org[v] /\ Working(v) /\ Working(w)
    BY <1>3, <1>4 DEF TodoInv, Working, InPass
  <2> QED
    BY <2>1 DEF Base, QueueInv, SingleFlight
<1>7. 1..Len(chain') = (1..Len(chain)) \cup {Len(chain) + 1}
  BY <1>1
<1>8. IsAwaited'
  BY <1>2 DEF SentInv, IsAwaited
<1>9. SentIsSettled'
  BY <1>1, <1>2, <1>4, <1>7 DEF SentInv, SentIsSettled
<1>10. TodoIsUnsent'
  <2> SUFFICES ASSUME NEW v \in Workers, NEW i \in 1..Len(chain'),
                      chain'[i].rows \cap todo[v] # {}
               PROVE  pc[v] \in InHand /\ chain'[i].id = tx[v]
    BY <1>2 DEF TodoIsUnsent
  <2>1. CASE i \in 1..Len(chain)
    BY <1>1, <2>1 DEF SentInv, TodoIsUnsent
  <2>2. CASE i = Len(chain) + 1
    BY <1>1, <1>3, <1>4, <1>6, <2>2 DEF InHand
  <2> QED
    BY <1>7, <2>1, <2>2
<1>11. Disjoint'
  BY <1>1, <1>4, <1>5, <1>7 DEF SentInv, Disjoint
<1> QED
  BY <1>8, <1>9, <1>10, <1>11 DEF SentInv

\* While nothing fails, every step keeps what is sent apart from what is loaded.
LEMMA StepSent ==
  ASSUME Base, OnceInv, Calm, SubmittedStays, [Next]_vars,
         ~ Crash, \A w \in Workers : ~ PassFails(w)
  PROVE  SentInv'
<1> USE DEF workerVars, chainVars
<1>0. /\ TypeOK /\ TodoInv /\ MarkedInOrder /\ TxInOnePlace /\ SentInv
      /\ pc \in [Workers -> InPass \cup {"idle", "release", "check"}]
      /\ mempool \in [Orgs -> Tx]
  BY DEF Base, TypeInv, TypeOK, OnceInv
<1>1. ASSUME NEW r \in Rows, RowStep(r)
      PROVE  SentInv'
  BY <1>0, <1>1, KeepSent DEF RowStep, RecordServe, RecordDenial, RecordOutcome,
       EnqueueReported, HandlerFails,
       HoldElapses, Upsert
<1>2. ASSUME NEW w \in Workers, Take(w) \/ Release(w) \/ Check(w) \/ CheckFails(w)
      PROVE  SentInv'
  <2>1. /\ pc[w] \notin InHand /\ UNCHANGED <<chain, mempool, todo, batch, tx>>
        /\ \A v \in Workers \ {w} : pc'[v] = pc[v] /\ org'[v] = org[v]
    BY <1>0, <1>2 DEF Take, Release, Check, CheckFails, Goto, InHand, Marking, TypeOK
  <2>2. \A v \in Workers : pc[v] \in InHand => pc'[v] = pc[v] /\ org'[v] = org[v]
    BY <2>1
  <2> QED
    BY <1>0, <2>1, <2>2, KeepSent DEF InHand
<1>3. ASSUME NEW w \in Workers, LoadServes(w) \/ LoadDenials(w) \/ LoadOutcomes(w)
      PROVE  SentInv'
  <2>1. PICK at \in {"serves", "denials", "outcomes"}, R \in SUBSET Pending(org[w]) :
          \E next : Load(w, at, R, next)
    BY <1>3 DEF LoadServes, LoadDenials, LoadOutcomes, PendingServes, PendingDenials,
       PendingOutcomes, Ripe
  <2> QED
    BY <1>0, <2>1, LoadSent
<1>4. ASSUME NEW w \in Workers, MarkServes(w) \/ MarkDenials(w)
      PROVE  SentInv'
  BY <1>0, <1>4, KeepSent DEF MarkServes, MarkDenials, Goto, InHand, Marking
<1>5. ASSUME NEW w \in Workers,
             Submit(w) \/ Committed(w) \/ MarkOutcomes(w) \/ SubmitRejected(w) \/ NotIncluded(w)
      PROVE  SentInv'
  BY <1>0, <1>5, SubmitSent, CommittedSent, MarkOutcomesSent, AbandonSent
<1>6. ASSUME NEW o \in Orgs, ChanSend(o) \/ Drop(o)
      PROVE  SentInv'
  BY <1>0, <1>6, KeepSent DEF ChanSend, Drop
<1>7. ASSUME NEW o \in Orgs, Include(o)
      PROVE  SentInv'
  BY <1>0, <1>7, IncludeSent
<1>8. CASE Ticker \/ Watch \/ WatchMiss
  BY <1>0, <1>8, KeepSent DEF Ticker, Watch, WatchMiss
<1>9. CASE UNCHANGED vars
  BY <1>0, <1>9, KeepSent DEF vars
<1> QED
  BY <1>1, <1>2, <1>3, <1>4, <1>5, <1>6, <1>7, <1>8, <1>9 DEF Next, WorkerStep

\* Every step keeps the invariant.
LEMMA StepOnce ==
  ASSUME Base, OnceInv, [Next]_vars
  PROVE  OnceInv'
<1>1. TodoInv' /\ MarkedInOrder' /\ TxInOnePlace'
  BY StepTodo, StepMarked, StepOnePlace DEF Base, OnceInv
<1>2. ASSUME Calm' PROVE SentInv'
  <2>1. Calm /\ ~ Crash /\ \A w \in Workers : ~ PassFails(w)
    BY <1>2, CalmBefore, CalmExcludes DEF Base
  <2>2. SubmittedStays
    BY StepSubmitted DEF Base, TypeInv
  <2> QED
    BY <2>1, <2>2, StepSent
<1> QED
  BY <1>1, <1>2 DEF OnceInv

\* While no pass fails and the process does not die, no row is in two included
\* transactions: neither a second worker, nor a second query of the same pass,
\* nor a rejected broadcast sends it again.
THEOREM RowsAreIncludedOnce == Spec => []IncludedOnce
<1>1. Init => Base /\ OnceInv
  BY InitType, InitQueue, InitLedger, InitPass, InitOnce DEF Base, LedgerInv
<1>2. Base /\ OnceInv /\ [Next]_vars => (Base /\ OnceInv)'
  BY StepType, StepQueue, StepPass, StepHash, StepOnce DEF Base
<1>3. OnceInv => IncludedOnce
  BY DEF OnceInv, Calm, SentInv, Disjoint, IncludedOnce
<1> QED
  BY <1>1, <1>2, <1>3, PTL DEF Spec
=============================================================================
