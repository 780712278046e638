------------------------- MODULE SubmissionsProofs --------------------------
(***************************************************************************)
(* Proofs about Submissions, for every set of memories, of concurrent      *)
(* requests and of faults. What the invariant adds to the properties: only *)
(* a row that is still pending is locked by a vote (Locked), what waits    *)
(* for the chain or went there was verified (Verified), and what a         *)
(* bookkeeping knows about the approval in its hand (InHand); for the      *)
(* submissions that are stuck, how often each was submitted (Resubmitted)  *)
(* and how far the watcher is with each block (BlocksDone).                *)
(***************************************************************************)
EXTENDS Submissions, TLAPS

Locked == \A v \in Moderators : voting[v] # NoMemory => status[voting[v]] \in Pending

Verified ==
  /\ \A m \in Memories : status[m] = "pending_chain" => m \in offered
  /\ prepared \subseteq offered
  /\ \A i \in 1..Len(blocks) : blocks[i] \subseteq offered

InHand ==
  /\ todo \subseteq Approved
  /\ \A d \in Drivers :
       /\ cur[d] # NoMemory => cur[d] \in Approved
       /\ pc[d] \notin {"idle", "block"} => cur[d] \in Memories
       /\ pc[d] = "update" => cur[d] \in index \/ unindexed[d]

IInv == TypeOK /\ Locked /\ Verified /\ InHand /\ CommittedIsSearchable

\* The empty list is a sequence.
LEMMA Empty == ASSUME NEW S PROVE <<>> \in Seq(S)
OBVIOUS

\* A recorded fault keeps the type of faults.
LEMMA FaultType ==
  ASSUME TypeOK, NEW kind, Fault(kind) PROVE faults' \in Seq(FaultKinds)
BY DEF TypeOK, Fault

\* What the chain approved are memories.
LEMMA ApprovedType == ASSUME TypeOK PROVE Approved \subseteq Memories
BY DEF TypeOK, Approved

\* The invariant holds of an empty queue.
LEMMA InitIInv == Init => IInv
<1> SUFFICES ASSUME Init PROVE IInv
  OBVIOUS
<1>1. TypeOK
  <2>1. blocks \in Seq(SUBSET Memories) /\ faults \in Seq(FaultKinds)
    BY Empty DEF Init
  <2> QED BY <2>1 DEF Init, TypeOK, Pending, Resolved, Results
<1>2. Locked /\ Verified /\ InHand /\ CommittedIsSearchable
  BY DEF Init, Locked, Verified, InHand, CommittedIsSearchable
<1> QED BY <1>1, <1>2 DEF IInv

(***************************************************************************)
(* Types.                                                                  *)
(***************************************************************************)
LEMMA RowsStayTyped ==
  ASSUME TypeOK, NEW m \in Memories,
         \/ SubmitToQueue(m) \/ SubmitKeywordResults(m) \/ UpdateKeywords(m)
         \/ DenySubmission(m) \/ RemoveSubmission(m)
         \/ DenyPendingForContributor(ContributorOf[m])
  PROVE  TypeOK'
<1> USE DEF TypeOK, Pending, Resolved, Results, requestVars, driverVars, chainVars
<1>1. CASE SubmitToQueue(m)
  BY <1>1 DEF SubmitToQueue
<1>2. CASE SubmitKeywordResults(m)
  BY <1>2 DEF SubmitKeywordResults, SetResult
<1>3. CASE UpdateKeywords(m)
  BY <1>3 DEF UpdateKeywords, SetResult
<1>4. CASE DenySubmission(m)
  BY <1>4 DEF DenySubmission, Deny
<1>5. CASE RemoveSubmission(m)
  BY <1>5 DEF RemoveSubmission
<1>6. CASE DenyPendingForContributor(ContributorOf[m])
  BY <1>6 DEF DenyPendingForContributor, Deny
<1> QED BY <1>1, <1>2, <1>3, <1>4, <1>5, <1>6

\* The handlers of requests keep the types.
LEMMA RequestsStayTyped ==
  ASSUME TypeOK,
         \/ \E v \in Moderators : CastApprovalVote(v) \/ \E m \in Memories : LockForVote(v, m)
         \/ \E q \in Verifiers : VerifyKeywords(q) \/ \E m \in Memories : CheckKeywords(q, m)
         \/ PrepareBatchForChain \/ \E M \in SUBSET Memories : Relay(M)
  PROVE  TypeOK'
<1> USE DEF TypeOK, Pending, Resolved, Results, rowVars, requestVars, driverVars, chainVars
<1>1. ASSUME NEW v \in Moderators, CastApprovalVote(v) PROVE TypeOK'
  BY <1>1 DEF CastApprovalVote
<1>2. ASSUME NEW v \in Moderators, NEW m \in Memories, LockForVote(v, m) PROVE TypeOK'
  BY <1>2 DEF LockForVote
<1>3. ASSUME NEW q \in Verifiers, VerifyKeywords(q) PROVE TypeOK'
  <2>1. checked[q] \in Memories
    BY <1>3 DEF VerifyKeywords
  <2>2. status' \in [Memories -> Pending \cup Resolved \cup {"absent"}]
    <3>1. status' = [status EXCEPT ![checked[q]] = "pending_chain"] \/ status' = status
      BY <1>3 DEF VerifyKeywords
    <3> QED BY <2>1, <3>1
  <2>3. offered' \subseteq Memories
    BY <1>3, <2>1 DEF VerifyKeywords
  <2> QED BY <1>3, <2>2, <2>3 DEF VerifyKeywords
<1>4. ASSUME NEW q \in Verifiers, NEW m \in Memories, CheckKeywords(q, m) PROVE TypeOK'
  BY <1>4 DEF CheckKeywords
<1>5. CASE PrepareBatchForChain
  BY <1>5 DEF PrepareBatchForChain
<1>6. ASSUME NEW M \in SUBSET Memories, Relay(M) PROVE TypeOK'
  BY <1>6 DEF Relay
<1> QED BY <1>1, <1>2, <1>3, <1>4, <1>5, <1>6

\* Blocks, crashes and redrive requests keep the types.
LEMMA WatcherStaysTyped ==
  ASSUME TypeOK,
         \/ BeginBlock \/ EndBlock \/ MissBlock \/ Crash
         \/ \E m \in Memories : NextApproval(m)
         \/ \E r \in Redrives, m \in Memories : Redrive(r, m)
  PROVE  TypeOK'
<1> USE DEF TypeOK, rowVars, requestVars, driverVars, chainVars, Drivers
<1>1. CASE BeginBlock
  <2>1. seen + 1 \in 1..Len(blocks)
    BY <1>1 DEF BeginBlock
  <2>2. blocks[seen + 1] \subseteq Memories
    BY <2>1
  <2> QED BY <1>1, <2>2 DEF BeginBlock
<1>2. CASE EndBlock
  BY <1>2 DEF EndBlock
<1>3. CASE MissBlock
  <2>1. faults' \in Seq(FaultKinds)
    BY <1>3, FaultType DEF MissBlock
  <2> QED BY <1>3, <2>1 DEF MissBlock
<1>4. CASE Crash
  <2>1. faults' \in Seq(FaultKinds)
    BY <1>4, FaultType DEF Crash
  <2> QED BY <1>4, <2>1 DEF Crash
<1>5. ASSUME NEW m \in Memories, NextApproval(m) PROVE TypeOK'
  BY <1>5 DEF NextApproval
<1>6. ASSUME NEW r \in Redrives, NEW m \in Memories, Redrive(r, m) PROVE TypeOK'
  BY <1>6 DEF Redrive
<1> QED BY <1>1, <1>2, <1>3, <1>4, <1>5, <1>6

\* The bookkeeping of an approval keeps the types.
LEMMA BookkeepingStaysTyped ==
  ASSUME TypeOK, InHand, NEW d \in Drivers, Bookkeeping(d) \/ BookkeepingFails(d)
  PROVE  TypeOK'
<1> USE DEF TypeOK, rowVars, requestVars, chainVars, Goto
<1>1. ASSUME Return(d) PROVE /\ pc' \in [Drivers -> {"idle", "block", "select", "index", "update", "touch", "error"}]
                             /\ cur' \in [Drivers -> Memories \cup {NoMemory}]
                             /\ unindexed' \in [Drivers -> BOOLEAN] /\ todo' = todo
  BY <1>1 DEF Return
<1>2. CASE SelectPending(d)
  BY <1>1, <1>2 DEF SelectPending
<1>3. CASE AddToIndex(d)
  <2>1. cur[d] \in Memories
    BY <1>3 DEF AddToIndex, InHand
  <2> QED BY <1>3, <2>1 DEF AddToIndex
<1>4. CASE MarkCommitted(d)
  BY <1>4 DEF MarkCommitted, Resolved
<1>5. CASE TouchOrg(d)
  BY <1>1, <1>5 DEF TouchOrg
<1>6. CASE RecordError(d)
  BY <1>1, <1>6 DEF RecordError
<1>7. ASSUME SelectFails(d) \/ IndexFails(d) \/ UpdateFails(d) \/ RecordErrorFails(d)
      PROVE faults' \in Seq(FaultKinds)
  BY <1>7, FaultType DEF SelectFails, IndexFails, UpdateFails, RecordErrorFails
<1>8. CASE SelectFails(d)
  BY <1>7, <1>8 DEF SelectFails
<1>9. CASE IndexFails(d)
  BY <1>7, <1>9 DEF IndexFails
<1>10. CASE UpdateFails(d)
  BY <1>7, <1>10 DEF UpdateFails
<1>11. CASE RecordErrorFails(d)
  BY <1>1, <1>7, <1>11 DEF RecordErrorFails
<1> QED
  BY <1>2, <1>3, <1>4, <1>5, <1>6, <1>8, <1>9, <1>10, <1>11 DEF Bookkeeping, BookkeepingFails

\* The next-state relation by actor, as the proofs below split it.
RowRequest(m) ==
  \/ SubmitToQueue(m) \/ SubmitKeywordResults(m) \/ UpdateKeywords(m)
  \/ DenySubmission(m) \/ RemoveSubmission(m) \/ DenyPendingForContributor(ContributorOf[m])

OtherRequest ==
  \/ \E v \in Moderators : CastApprovalVote(v) \/ \E m \in Memories : LockForVote(v, m)
  \/ \E q \in Verifiers : VerifyKeywords(q) \/ \E m \in Memories : CheckKeywords(q, m)
  \/ PrepareBatchForChain \/ \E M \in SUBSET Memories : Relay(M)

WatcherMoves ==
  \/ BeginBlock \/ EndBlock \/ MissBlock \/ Crash
  \/ \E m \in Memories : NextApproval(m)
  \/ \E r \in Redrives, m \in Memories : Redrive(r, m)

\* The steps, grouped by who writes the rows.
LEMMA NextSplit ==
  Next => \/ \E m \in Memories : RowRequest(m)
          \/ OtherRequest \/ WatcherMoves
          \/ \E d \in Drivers : Bookkeeping(d) \/ BookkeepingFails(d)
BY DEF Next, RowRequest, OtherRequest, WatcherMoves, WatcherStep, Drivers

\* Every step keeps the types.
LEMMA TypeStep == TypeOK /\ InHand /\ [Next]_vars => TypeOK'
<1> SUFFICES ASSUME TypeOK, InHand, [Next]_vars PROVE TypeOK'
  OBVIOUS
<1>1. CASE \E m \in Memories : RowRequest(m)
  BY <1>1, RowsStayTyped DEF RowRequest
<1>2. CASE OtherRequest
  BY <1>2, RequestsStayTyped DEF OtherRequest
<1>3. CASE WatcherMoves
  BY <1>3, WatcherStaysTyped DEF WatcherMoves
<1>4. CASE \E d \in Drivers : Bookkeeping(d) \/ BookkeepingFails(d)
  BY <1>4, BookkeepingStaysTyped
<1>5. CASE UNCHANGED vars
  BY <1>5 DEF TypeOK, vars, rowVars, requestVars, driverVars, chainVars
<1> QED BY <1>1, <1>2, <1>3, <1>4, <1>5, NextSplit

(***************************************************************************)
(* Votes hold pending rows, and only what was verified goes to the chain.  *)
(***************************************************************************)
LEMMA LockedStep == TypeOK /\ InHand /\ Locked /\ [Next]_vars => Locked'
<1> SUFFICES ASSUME TypeOK, InHand, Locked, [Next]_vars, NEW v \in Moderators,
                    voting'[v] # NoMemory
             PROVE  status'[voting'[v]] \in Pending
  BY DEF Locked
<1>0. voting[v] \in Memories \cup {NoMemory} /\ NoMemory \notin Memories
  BY SetsAssumption DEF TypeOK
<1> USE DEF TypeOK, Unlocked
<1>1. ASSUME NEW m \in Memories, RowRequest(m) PROVE status'[voting'[v]] \in Pending
  <2>1. voting' = voting /\ voting[v] \in Memories /\ status[voting[v]] \in Pending
    BY <1>0, <1>1 DEF RowRequest, SubmitToQueue, SubmitKeywordResults, UpdateKeywords, SetResult,
         DenySubmission, RemoveSubmission, DenyPendingForContributor, Deny, requestVars, Locked
  <2>2. status'[voting[v]] = status[voting[v]]
    <3>1. CASE SubmitToQueue(m)
      BY <2>1, <3>1 DEF SubmitToQueue, Pending
    <3>2. CASE SubmitKeywordResults(m) \/ UpdateKeywords(m)
      BY <2>1, <3>2 DEF SubmitKeywordResults, UpdateKeywords, SetResult
    <3>3. CASE DenySubmission(m) \/ DenyPendingForContributor(ContributorOf[m])
      BY <2>1, <3>3 DEF DenySubmission, DenyPendingForContributor, Deny
    <3>4. CASE RemoveSubmission(m)
      BY <2>1, <3>4 DEF RemoveSubmission
    <3> QED BY <1>1, <3>1, <3>2, <3>3, <3>4 DEF RowRequest
  <2> QED BY <2>1, <2>2
<1>2. CASE OtherRequest
  <2>1. ASSUME NEW u \in Moderators, NEW m \in Memories, LockForVote(u, m)
        PROVE  status'[voting'[v]] \in Pending
    BY <1>0, <2>1 DEF LockForVote, rowVars, Locked
  <2>2. ASSUME NEW u \in Moderators, CastApprovalVote(u)
        PROVE  status'[voting'[v]] \in Pending
    BY <1>0, <2>2 DEF CastApprovalVote, Locked
  <2>3. ASSUME NEW q \in Verifiers, VerifyKeywords(q)
        PROVE  status'[voting'[v]] \in Pending
    <3>1. voting' = voting /\ voting[v] \in Memories /\ voting[v] # checked[q]
          /\ status[voting[v]] \in Pending
      BY <1>0, <2>3 DEF VerifyKeywords, Locked
    <3>2. status'[voting[v]] = status[voting[v]]
      BY <2>3, <3>1 DEF VerifyKeywords
    <3> QED BY <3>1, <3>2
  <2>4. ASSUME UNCHANGED <<status, voting>> PROVE status'[voting'[v]] \in Pending
    BY <2>4 DEF Locked
  <2> QED BY <1>2, <2>1, <2>2, <2>3, <2>4
          DEF OtherRequest, CheckKeywords, PrepareBatchForChain, Relay, rowVars, requestVars
<1>3. CASE WatcherMoves
  BY <1>0, <1>3 DEF WatcherMoves, BeginBlock, EndBlock, MissBlock, Crash, NextApproval, Redrive,
       rowVars, requestVars, Locked
<1>4. ASSUME NEW d \in Drivers, Bookkeeping(d) \/ BookkeepingFails(d)
      PROVE  status'[voting'[v]] \in Pending
  <2>1. CASE MarkCommitted(d)
    <3>1. voting' = voting /\ voting[v] \in Memories /\ voting[v] # cur[d]
          /\ status[voting[v]] \in Pending
      BY <1>0, <2>1 DEF MarkCommitted, Locked, requestVars
    <3>2. status'[voting[v]] = status[voting[v]]
      BY <2>1, <3>1 DEF MarkCommitted
    <3> QED BY <3>1, <3>2
  <2>2. CASE ~ MarkCommitted(d)
    BY <1>4, <2>2 DEF Bookkeeping, BookkeepingFails, SelectPending, AddToIndex, TouchOrg,
         RecordError, SelectFails, IndexFails, UpdateFails, RecordErrorFails, rowVars,
         requestVars, Locked
  <2> QED BY <2>1, <2>2
<1>5. CASE UNCHANGED vars
  BY <1>5 DEF vars, rowVars, requestVars, Locked
<1> QED BY <1>1, <1>2, <1>3, <1>4, <1>5, NextSplit

\* What waits for the chain, or went there, was verified.
LEMMA VerifiedStep == TypeOK /\ InHand /\ Verified /\ [Next]_vars => Verified'
<1> SUFFICES ASSUME TypeOK, InHand, Verified, [Next]_vars PROVE Verified'
  OBVIOUS
<1> USE DEF TypeOK, Verified
<1>1. ASSUME NEW m \in Memories, RowRequest(m) PROVE Verified'
  <2>1. UNCHANGED <<offered, prepared, blocks>>
    BY <1>1 DEF RowRequest, SubmitToQueue, SubmitKeywordResults, UpdateKeywords, SetResult,
         DenySubmission, RemoveSubmission, DenyPendingForContributor, Deny, requestVars, chainVars
  <2>2. \A n \in Memories : status'[n] = "pending_chain" => status[n] = "pending_chain"
    <3>1. CASE SubmitToQueue(m)
      BY <3>1 DEF SubmitToQueue
    <3>2. CASE SubmitKeywordResults(m) \/ UpdateKeywords(m)
      BY <3>2 DEF SubmitKeywordResults, UpdateKeywords, SetResult
    <3>3. CASE DenySubmission(m) \/ DenyPendingForContributor(ContributorOf[m])
      BY <3>3 DEF DenySubmission, DenyPendingForContributor, Deny
    <3>4. CASE RemoveSubmission(m)
      BY <3>4 DEF RemoveSubmission
    <3> QED BY <1>1, <3>1, <3>2, <3>3, <3>4 DEF RowRequest
  <2> QED BY <2>1, <2>2
<1>2. CASE OtherRequest
  <2>1. ASSUME NEW v \in Moderators, NEW m \in Memories, LockForVote(v, m) PROVE Verified'
    BY <2>1 DEF LockForVote, rowVars, chainVars
  <2>2. ASSUME NEW q \in Verifiers, VerifyKeywords(q) PROVE Verified'
    <3>1. UNCHANGED <<prepared, blocks>> /\ offered \subseteq offered'
      BY <2>2 DEF VerifyKeywords, chainVars
    <3>2. \A n \in Memories : status'[n] = "pending_chain" => n \in offered'
      BY <2>2 DEF VerifyKeywords
    <3> QED BY <3>1, <3>2
  <2>3. ASSUME NEW q \in Verifiers, NEW m \in Memories, CheckKeywords(q, m) PROVE Verified'
    BY <2>3 DEF CheckKeywords, rowVars, chainVars
  <2>4. CASE PrepareBatchForChain
    BY <2>4 DEF PrepareBatchForChain, rowVars, chainVars
  <2>5. ASSUME NEW M \in SUBSET Memories, Relay(M) PROVE Verified'
    <3>1. UNCHANGED <<status, offered, prepared>> /\ M \subseteq offered
          /\ blocks' = Append(blocks, M)
      BY <2>5 DEF Relay, rowVars, requestVars
    <3>2. \A i \in 1..Len(blocks') : blocks'[i] = M \/ (i \in 1..Len(blocks) /\ blocks'[i] = blocks[i])
      BY <3>1
    <3> QED BY <3>1, <3>2
  <2>6. ASSUME NEW v \in Moderators, CastApprovalVote(v) PROVE Verified'
    BY <2>6 DEF CastApprovalVote, chainVars
  <2> QED BY <1>2, <2>1, <2>2, <2>3, <2>4, <2>5, <2>6 DEF OtherRequest
<1>3. CASE WatcherMoves
  BY <1>3 DEF WatcherMoves, BeginBlock, EndBlock, MissBlock, Crash, NextApproval, Redrive,
       rowVars, requestVars, chainVars
<1>4. ASSUME NEW d \in Drivers, Bookkeeping(d) \/ BookkeepingFails(d) PROVE Verified'
  <2>1. UNCHANGED <<offered, prepared, blocks>>
    BY <1>4 DEF Bookkeeping, BookkeepingFails, SelectPending, AddToIndex, MarkCommitted, TouchOrg,
         RecordError, SelectFails, IndexFails, UpdateFails, RecordErrorFails, requestVars, chainVars
  <2>2. \A n \in Memories : status'[n] = "pending_chain" => status[n] = "pending_chain"
    BY <1>4 DEF Bookkeeping, BookkeepingFails, SelectPending, AddToIndex, MarkCommitted, TouchOrg,
         RecordError, SelectFails, IndexFails, UpdateFails, RecordErrorFails, rowVars
  <2> QED BY <2>1, <2>2
<1>5. CASE UNCHANGED vars
  BY <1>5 DEF vars, rowVars, requestVars, chainVars
<1> QED BY <1>1, <1>2, <1>3, <1>4, <1>5, NextSplit

(***************************************************************************)
(* The approval in hand, and what is committed.                            *)
(***************************************************************************)
LEMMA ApprovedGrows ==
  ASSUME TypeOK, UNCHANGED blocks \/ \E M \in SUBSET Memories : blocks' = Append(blocks, M)
  PROVE  Approved \subseteq Approved'
<1>1. CASE UNCHANGED blocks
  BY <1>1 DEF Approved
<1>2. CASE \E M \in SUBSET Memories : blocks' = Append(blocks, M)
  <2>1. \A i \in 1..Len(blocks) : i \in 1..Len(blocks') /\ blocks'[i] = blocks[i]
    BY <1>2 DEF TypeOK
  <2> QED BY <2>1 DEF Approved
<1> QED BY <1>1, <1>2

\* A bookkeeping has an approved memory in its hand.
LEMMA InHandStep == TypeOK /\ InHand /\ [Next]_vars => InHand'
<1> SUFFICES ASSUME TypeOK, InHand, [Next]_vars PROVE InHand'
  OBVIOUS
<1>0. NoMemory \notin Memories /\ Approved \subseteq Memories
  BY SetsAssumption, ApprovedType
<1> USE DEF InHand, TypeOK
<1>1. ASSUME NEW m \in Memories, RowRequest(m) PROVE InHand'
  <2>1. UNCHANGED <<todo, pc, cur, unindexed, index, blocks>>
    BY <1>1 DEF RowRequest, SubmitToQueue, SubmitKeywordResults, UpdateKeywords, SetResult,
         DenySubmission, RemoveSubmission, DenyPendingForContributor, Deny, driverVars, chainVars
  <2>2. Approved' = Approved
    BY <2>1 DEF Approved
  <2> QED BY <2>1, <2>2
<1>2. CASE OtherRequest
  <2>1. UNCHANGED <<todo, pc, cur, unindexed, index>>
    BY <1>2 DEF OtherRequest, LockForVote, CastApprovalVote, CheckKeywords, VerifyKeywords,
         PrepareBatchForChain, Relay, driverVars
  <2>2. UNCHANGED blocks \/ \E M \in SUBSET Memories : blocks' = Append(blocks, M)
    BY <1>2 DEF OtherRequest, LockForVote, CastApprovalVote, CheckKeywords, VerifyKeywords,
         PrepareBatchForChain, Relay, chainVars
  <2>3. Approved \subseteq Approved'
    BY <2>2, ApprovedGrows
  <2> QED BY <2>1, <2>3
<1>3. CASE WatcherMoves
  <2>1. UNCHANGED <<index, blocks>>
    BY <1>3 DEF WatcherMoves, BeginBlock, EndBlock, MissBlock, Crash, NextApproval, Redrive, chainVars
  <2>2. Approved' = Approved
    BY <2>1 DEF Approved
  <2>3. CASE BeginBlock
    <3>1. seen + 1 \in 1..Len(blocks)
      BY <2>3 DEF BeginBlock
    <3>2. todo' \subseteq Approved
      <4>1. todo' = blocks[seen + 1]
        BY <2>3 DEF BeginBlock
      <4>2. \A i \in 1..Len(blocks) : blocks[i] \subseteq Approved
        BY DEF Approved
      <4> QED BY <3>1, <4>1, <4>2
    <3>3. pc' = [pc EXCEPT ![Watcher] = "block"] /\ UNCHANGED <<cur, unindexed>>
      BY <2>3 DEF BeginBlock
    <3> QED BY <2>1, <2>2, <3>2, <3>3
  <2>4. CASE EndBlock
    BY <2>1, <2>2, <2>4 DEF EndBlock
  <2>5. CASE MissBlock
    BY <2>1, <2>2, <2>5 DEF MissBlock, driverVars
  <2>6. CASE Crash
    BY <2>1, <2>2, <2>6 DEF Crash
  <2>7. ASSUME NEW m \in Memories, NextApproval(m) PROVE InHand'
    BY <2>1, <2>2, <2>7, <1>0 DEF NextApproval
  <2>8. ASSUME NEW r \in Redrives, NEW m \in Memories, Redrive(r, m) PROVE InHand'
    BY <2>1, <2>2, <2>8, <1>0 DEF Redrive
  <2> QED BY <1>3, <2>3, <2>4, <2>5, <2>6, <2>7, <2>8 DEF WatcherMoves
<1>4. ASSUME NEW d \in Drivers, Bookkeeping(d) \/ BookkeepingFails(d) PROVE InHand'
  <2>1. UNCHANGED <<todo, blocks>> /\ index \subseteq index'
    BY <1>4 DEF Bookkeeping, BookkeepingFails, SelectPending, AddToIndex, MarkCommitted, TouchOrg,
         RecordError, SelectFails, IndexFails, UpdateFails, RecordErrorFails, chainVars, Return
  <2>2. Approved' = Approved
    BY <2>1 DEF Approved
  <2>3. CASE Return(d)
    BY <2>1, <2>2, <2>3 DEF Return, Goto
  <2>4. CASE ~ Return(d)
    <3>1. cur' = cur /\ cur[d] \in Memories
      BY <1>4, <2>4 DEF Bookkeeping, BookkeepingFails, SelectPending, AddToIndex, MarkCommitted,
           TouchOrg, RecordError, SelectFails, IndexFails, UpdateFails, RecordErrorFails
    <3>2. /\ \A e \in Drivers \ {d} : pc'[e] = pc[e] /\ unindexed'[e] = unindexed[e]
          /\ pc'[d] = "update" => cur[d] \in index' \/ unindexed'[d]
      BY <1>4, <2>4 DEF Bookkeeping, BookkeepingFails, SelectPending, AddToIndex, MarkCommitted,
           TouchOrg, RecordError, SelectFails, IndexFails, UpdateFails, RecordErrorFails, Goto
    <3> QED BY <2>1, <2>2, <3>1, <3>2
  <2> QED BY <2>3, <2>4
<1>5. CASE UNCHANGED vars
  BY <1>5 DEF vars, driverVars, chainVars, Approved
<1> QED BY <1>1, <1>2, <1>3, <1>4, <1>5, NextSplit

\* Every step leaves the committed searchable or marked with an error.
LEMMA SearchableStep ==
  TypeOK /\ InHand /\ CommittedIsSearchable /\ [Next]_vars => CommittedIsSearchable'
<1> SUFFICES ASSUME TypeOK, InHand, CommittedIsSearchable, [Next]_vars
             PROVE  CommittedIsSearchable'
  OBVIOUS
<1> USE DEF CommittedIsSearchable, TypeOK
<1>1. ASSUME NEW m \in Memories, RowRequest(m) PROVE CommittedIsSearchable'
  <2>1. index' = index
    BY <1>1 DEF RowRequest, SubmitToQueue, SubmitKeywordResults, UpdateKeywords, SetResult,
         DenySubmission, RemoveSubmission, DenyPendingForContributor, Deny
  <2>2. \A n \in Memories : status'[n] = "committed" =>
          status[n] = "committed" /\ commitError'[n] = commitError[n]
    <3>1. CASE SubmitToQueue(m)
      BY <3>1 DEF SubmitToQueue
    <3>2. CASE SubmitKeywordResults(m) \/ UpdateKeywords(m)
      BY <3>2 DEF SubmitKeywordResults, UpdateKeywords, SetResult
    <3>3. CASE DenySubmission(m) \/ DenyPendingForContributor(ContributorOf[m])
      BY <3>3 DEF DenySubmission, DenyPendingForContributor, Deny
    <3>4. CASE RemoveSubmission(m)
      BY <3>4 DEF RemoveSubmission, Pending
    <3> QED BY <1>1, <3>1, <3>2, <3>3, <3>4 DEF RowRequest
  <2> QED BY <2>1, <2>2
<1>2. CASE OtherRequest
  <2>1. ASSUME NEW q \in Verifiers, VerifyKeywords(q) PROVE CommittedIsSearchable'
    BY <2>1 DEF VerifyKeywords
  <2>2. ASSUME UNCHANGED <<status, commitError, index>> PROVE CommittedIsSearchable'
    BY <2>2
  <2> QED BY <1>2, <2>1, <2>2 DEF OtherRequest, LockForVote, CastApprovalVote, CheckKeywords,
          PrepareBatchForChain, Relay, rowVars
<1>3. CASE WatcherMoves
  BY <1>3 DEF WatcherMoves, BeginBlock, EndBlock, MissBlock, Crash, NextApproval, Redrive, rowVars
<1>4. ASSUME NEW d \in Drivers, Bookkeeping(d) \/ BookkeepingFails(d) PROVE CommittedIsSearchable'
  <2>1. CASE MarkCommitted(d)
    <3>1. index' = index /\ cur[d] \in Memories /\ (cur[d] \in index \/ unindexed[d])
      BY <2>1 DEF MarkCommitted, InHand
    <3>2. CASE status[cur[d]] = "pending_chain"
      BY <2>1, <3>1, <3>2 DEF MarkCommitted
    <3>3. CASE status[cur[d]] # "pending_chain"
      BY <2>1, <3>1, <3>3 DEF MarkCommitted
    <3> QED BY <3>2, <3>3
  <2>2. CASE RecordError(d)
    <3>1. index' = index /\ status' = status
      BY <2>2 DEF RecordError
    <3>2. \A n \in Memories : status[n] = "committed" /\ commitError[n] => commitError'[n]
      BY <2>2 DEF RecordError
    <3> QED BY <3>1, <3>2
  <2>3. CASE ~ MarkCommitted(d) /\ ~ RecordError(d)
    <3>1. UNCHANGED <<status, commitError>> /\ index \subseteq index'
      BY <1>4, <2>3 DEF Bookkeeping, BookkeepingFails, SelectPending, AddToIndex, TouchOrg,
           SelectFails, IndexFails, UpdateFails, RecordErrorFails, rowVars
    <3> QED BY <3>1
  <2> QED BY <2>1, <2>2, <2>3
<1>5. CASE UNCHANGED vars
  BY <1>5 DEF vars, rowVars
<1> QED BY <1>1, <1>2, <1>3, <1>4, <1>5, NextSplit

\* The invariant holds in every state.
LEMMA Invariance == Spec => []IInv
<1>1. IInv /\ [Next]_vars => IInv'
  BY TypeStep, LockedStep, VerifiedStep, InHandStep, SearchableStep DEF IInv
<1> QED BY InitIInv, <1>1, PTL DEF Spec

\* Every reachable state has its type: no status but the five of the schema's
\* CHECK, and every bookkeeping works on a memory of the organisation.
THEOREM TypeCorrect == Spec => []TypeOK
<1>1. IInv => TypeOK
  BY DEF IInv
<1> QED BY <1>1, Invariance, PTL

\* However many bookkeepings and redrives race, and whatever fails in them, a
\* committed memory is in the index or carries a commit error.
THEOREM CommittedIsFound == Spec => []CommittedIsSearchable
<1>1. IInv => CommittedIsSearchable
  BY DEF IInv
<1> QED BY <1>1, Invariance, PTL

\* The decision on a submission freezes its votes: a vote whose check passed
\* holds the row until it is written.
THEOREM DecidedVotesAreFrozen == Spec => VotesAreFrozen
<1> DEFINE VotesOf(m, V) == {p \in V : p[1] = m}
           Frozen == \A m \in Memories : status[m] \in Resolved => VotesOf(m, votes) = VotesOf(m, votes')
<1>1. IInv /\ [Next]_vars => [Frozen]_vars
  <2> SUFFICES ASSUME TypeOK, Locked, InHand, [Next]_vars, NEW m \in Memories, status[m] \in Resolved
               PROVE  VotesOf(m, votes) = VotesOf(m, votes')
    BY DEF IInv
  <2>1. ASSUME NEW n \in Memories, RowRequest(n) PROVE VotesOf(m, votes) = VotesOf(m, votes')
    <3>1. CASE RemoveSubmission(n)
      <4>1. m # n
        BY <3>1 DEF RemoveSubmission, Pending, Resolved
      <4>2. votes' = {p \in votes : p[1] # n}
        BY <3>1 DEF RemoveSubmission
      <4> QED BY <4>1, <4>2
    <3>2. CASE ~ RemoveSubmission(n)
      <4>1. votes' = votes
        BY <2>1, <3>2 DEF RowRequest, SubmitToQueue, SubmitKeywordResults, UpdateKeywords, SetResult,
             DenySubmission, DenyPendingForContributor, Deny
      <4> QED BY <4>1
    <3> QED BY <3>1, <3>2
  <2>2. CASE OtherRequest
    <3>1. ASSUME NEW v \in Moderators, CastApprovalVote(v) PROVE VotesOf(m, votes) = VotesOf(m, votes')
      <4>1. voting[v] # m
        BY <3>1 DEF CastApprovalVote, Locked, Pending, Resolved
      <4>2. votes' = votes \cup {<<voting[v], v>>}
        BY <3>1 DEF CastApprovalVote
      <4> QED BY <4>1, <4>2
    <3>2. ASSUME UNCHANGED votes PROVE VotesOf(m, votes) = VotesOf(m, votes')
      BY <3>2
    <3> QED BY <2>2, <3>1, <3>2 DEF OtherRequest, LockForVote, CheckKeywords, VerifyKeywords,
            PrepareBatchForChain, Relay, rowVars
  <2>3. CASE WatcherMoves
    BY <2>3 DEF WatcherMoves, BeginBlock, EndBlock, MissBlock, Crash, NextApproval, Redrive, rowVars
  <2>4. ASSUME NEW d \in Drivers, Bookkeeping(d) \/ BookkeepingFails(d)
        PROVE  VotesOf(m, votes) = VotesOf(m, votes')
    BY <2>4 DEF Bookkeeping, BookkeepingFails, SelectPending, AddToIndex, MarkCommitted, TouchOrg,
         RecordError, SelectFails, IndexFails, UpdateFails, RecordErrorFails, rowVars
  <2>5. CASE UNCHANGED vars
    BY <2>5 DEF vars, rowVars
  <2> QED BY <2>1, <2>2, <2>3, <2>4, <2>5, NextSplit
<1> QED BY <1>1, Invariance, PTL DEF Spec, VotesAreFrozen

(***************************************************************************)
(* Refinement: every step is a step of Lifecycle or leaves its three       *)
(* variables alone.                                                        *)
(***************************************************************************)
LEMMA RowRequestRefines ==
  ASSUME TypeOK, NEW m \in Memories, RowRequest(m)
  PROVE  [LifecycleOf!Next]_(LifecycleOf!vars)
<1> USE DEF LifecycleOf!vars, LifecycleOf!Next, LifecycleOf!PendingStates, Pending
<1>1. UNCHANGED <<offered, blocks>>
  BY DEF RowRequest, SubmitToQueue, SubmitKeywordResults, UpdateKeywords, SetResult,
     DenySubmission, RemoveSubmission, DenyPendingForContributor, Deny, chainVars
<1>2. Approved' = Approved
  BY <1>1 DEF Approved
<1>3. CASE SubmitToQueue(m)
  <2>1. LifecycleOf!Submit(m)
    BY <1>1, <1>2, <1>3 DEF SubmitToQueue, LifecycleOf!Submit
  <2> QED BY <2>1
<1>4. CASE SubmitKeywordResults(m) \/ UpdateKeywords(m)
  BY <1>1, <1>2, <1>4 DEF SubmitKeywordResults, UpdateKeywords, SetResult
<1>5. ASSUME NEW M \in SUBSET Memories, Deny(M) PROVE LifecycleOf!Next
  <2>1. LifecycleOf!Deny(M)
    BY <1>1, <1>2, <1>5 DEF Deny, LifecycleOf!Deny
  <2> QED BY <2>1
<1>6. CASE DenySubmission(m)
  BY <1>5, <1>6 DEF DenySubmission
<1>7. CASE DenyPendingForContributor(ContributorOf[m])
  BY <1>5, <1>7 DEF DenyPendingForContributor
<1>8. CASE RemoveSubmission(m)
  <2>1. LifecycleOf!Withdraw(m)
    BY <1>1, <1>2, <1>8 DEF RemoveSubmission, LifecycleOf!Withdraw
  <2> QED BY <2>1
<1> QED BY <1>3, <1>4, <1>6, <1>7, <1>8 DEF RowRequest

\* Votes, checks and batches are steps of Lifecycle, or none.
LEMMA OtherRequestRefines ==
  ASSUME TypeOK, Verified, OtherRequest
  PROVE  [LifecycleOf!Next]_(LifecycleOf!vars)
<1> USE DEF LifecycleOf!vars, LifecycleOf!Next, LifecycleOf!PendingStates
<1>1. ASSUME NEW q \in Verifiers, VerifyKeywords(q) PROVE [LifecycleOf!Next]_(LifecycleOf!vars)
  <2>1. checked[q] \in Memories /\ UNCHANGED blocks
    BY <1>1 DEF VerifyKeywords, TypeOK, chainVars
  <2>2. Approved' = Approved
    BY <2>1 DEF Approved
  <2>3. CASE status[checked[q]] = "pending_keyword"
    <3>1. LifecycleOf!Verify(checked[q])
      BY <1>1, <2>2, <2>3 DEF VerifyKeywords, LifecycleOf!Verify
    <3> QED BY <2>1, <3>1
  <2>4. CASE status[checked[q]] # "pending_keyword"
    BY <1>1, <2>2, <2>4 DEF VerifyKeywords
  <2> QED BY <2>3, <2>4
<1>2. ASSUME NEW M \in SUBSET Memories, Relay(M) PROVE [LifecycleOf!Next]_(LifecycleOf!vars)
  <2>1. M \subseteq offered /\ UNCHANGED <<status, offered>> /\ blocks' = Append(blocks, M)
    BY <1>2 DEF Relay, Verified, rowVars
  <2>2. Approved' = Approved \cup M
    <3>1. /\ Len(blocks') = Len(blocks) + 1 /\ blocks'[Len(blocks) + 1] = M
          /\ \A i \in 1..Len(blocks) : blocks'[i] = blocks[i]
          /\ Len(blocks) \in Nat
      BY <2>1 DEF TypeOK
    <3>2. \A m \in Approved' : m \in Approved \cup M
      <4> SUFFICES ASSUME NEW i \in 1..Len(blocks) + 1 PROVE blocks'[i] \subseteq Approved \cup M
        BY <3>1 DEF Approved
      <4>1. CASE i \in 1..Len(blocks)
        BY <3>1, <4>1 DEF Approved
      <4>2. CASE i = Len(blocks) + 1
        BY <3>1, <4>2
      <4> QED BY <3>1, <4>1, <4>2
    <3>3. Approved \subseteq Approved'
      BY <2>1, ApprovedGrows
    <3>4. M \subseteq Approved'
      <4>1. Len(blocks) + 1 \in 1..Len(blocks')
        BY <3>1
      <4> QED BY <3>1, <4>1 DEF Approved
    <3> QED BY <3>2, <3>3, <3>4
  <2>3. LifecycleOf!Approve(M)
    BY <2>1, <2>2 DEF LifecycleOf!Approve
  <2> QED BY <2>3
<1>3. ASSUME UNCHANGED <<status, offered, blocks>> PROVE UNCHANGED LifecycleOf!vars
  BY <1>3 DEF Approved
<1> QED
  BY <1>1, <1>2, <1>3 DEF OtherRequest, LockForVote, CastApprovalVote, CheckKeywords,
     PrepareBatchForChain, rowVars, chainVars

\* The bookkeeping of an approval commits as Lifecycle does.
LEMMA BookkeepingRefines ==
  ASSUME TypeOK, InHand, NEW d \in Drivers, Bookkeeping(d) \/ BookkeepingFails(d)
  PROVE  [LifecycleOf!Next]_(LifecycleOf!vars)
<1> USE DEF LifecycleOf!vars, LifecycleOf!Next
<1>1. UNCHANGED <<offered, blocks>>
  BY DEF Bookkeeping, BookkeepingFails, SelectPending, AddToIndex, MarkCommitted, TouchOrg,
     RecordError, SelectFails, IndexFails, UpdateFails, RecordErrorFails, requestVars, chainVars
<1>2. Approved' = Approved
  BY <1>1 DEF Approved
<1>3. CASE MarkCommitted(d)
  <2>1. cur[d] \in Memories /\ cur[d] \in Approved
    BY <1>3, SetsAssumption DEF MarkCommitted, InHand
  <2>2. CASE status[cur[d]] = "pending_chain"
    <3>1. LifecycleOf!Commit(cur[d])
      BY <1>1, <1>2, <1>3, <2>1, <2>2 DEF MarkCommitted, LifecycleOf!Commit
    <3> QED BY <2>1, <3>1
  <2>3. CASE status[cur[d]] # "pending_chain"
    BY <1>1, <1>2, <1>3, <2>3 DEF MarkCommitted
  <2> QED BY <2>2, <2>3
<1>4. CASE ~ MarkCommitted(d)
  <2>1. status' = status
    BY <1>4 DEF Bookkeeping, BookkeepingFails, SelectPending, AddToIndex, TouchOrg,
       RecordError, SelectFails, IndexFails, UpdateFails, RecordErrorFails, rowVars
  <2> QED BY <1>1, <1>2, <2>1
<1> QED BY <1>3, <1>4

\* The hub implements Lifecycle: for every interleaving of requests, watcher,
\* redrives and faults, what is committed waited for the chain and was approved
\* on it, what the chain approved was verified, and decisions are final.
THEOREM HubImplementsLifecycle == Spec => ImplementsLifecycle
<1>1. Init => LifecycleOf!Init
  BY DEF Init, LifecycleOf!Init, Approved
<1>2. IInv /\ [Next]_vars => [LifecycleOf!Next]_(LifecycleOf!vars)
  <2> SUFFICES ASSUME IInv, [Next]_vars PROVE [LifecycleOf!Next]_(LifecycleOf!vars)
    OBVIOUS
  <2>1. TypeOK /\ Verified /\ InHand
    BY DEF IInv
  <2>2. ASSUME UNCHANGED <<status, offered, blocks>> PROVE UNCHANGED LifecycleOf!vars
    BY <2>2 DEF Approved, LifecycleOf!vars
  <2>3. CASE WatcherMoves
    BY <2>2, <2>3 DEF WatcherMoves, BeginBlock, EndBlock, MissBlock, Crash, NextApproval, Redrive,
         rowVars, chainVars
  <2>4. CASE UNCHANGED vars
    BY <2>2, <2>4 DEF vars, rowVars, chainVars
  <2> QED BY <2>1, <2>3, <2>4, NextSplit, RowRequestRefines, OtherRequestRefines, BookkeepingRefines
<1> QED BY <1>1, <1>2, Invariance, PTL DEF Spec, ImplementsLifecycle, LifecycleOf!Spec
(***************************************************************************)
(* StuckIsReported.  A hash that was submitted once does not come back     *)
(* into the queue, so a submission that the watcher has dealt with         *)
(* (Reported) stays dealt with; the block in hand is split into what is    *)
(* still to do, what is in hand, and what is done.                         *)
(***************************************************************************)

\* A verified hash waits for keywords only when it was submitted again.
Resubmitted ==
  \A m \in Memories :
    /\ status[m] # "absent" => submits[m] >= 1
    /\ m \in offered => submits[m] >= 1
    /\ m \in offered /\ status[m] = "pending_keyword" => submits[m] >= 2

Reported(m) == status[m] = "pending_chain" /\ submits[m] = 1 => commitError[m]

Quiet == ~ Happened("miss") /\ ~ Happened("record")

\* The watcher, before it has decided about the approval in its hand.
Deciding(m) == pc[Watcher] \in {"select", "index", "update", "error"} /\ cur[Watcher] = m

BlocksDone ==
  /\ seen <= Len(blocks) /\ (pc[Watcher] # "idle" => seen < Len(blocks))
  /\ Quiet => \A i \in 1..Len(blocks) : \A m \in blocks[i] :
       /\ i <= seen => Reported(m)
       /\ pc[Watcher] # "idle" /\ i = seen + 1 => m \in todo \/ Deciding(m) \/ Reported(m)

\* Every step keeps the count of submissions in step with the queue.
LEMMA ResubmittedStep == TypeOK /\ InHand /\ Resubmitted /\ [Next]_vars => Resubmitted'
<1> SUFFICES ASSUME TypeOK, InHand, Resubmitted, [Next]_vars PROVE Resubmitted'
  OBVIOUS
<1> USE DEF TypeOK, Resubmitted
<1>1. ASSUME NEW m \in Memories, RowRequest(m) PROVE Resubmitted'
  <2>1. CASE SubmitToQueue(m)
    <3>1. /\ status' = [status EXCEPT ![m] = "pending_keyword"] /\ offered' = offered
          /\ submits' = [submits EXCEPT ![m] = submits[m] + 1] /\ submits[m] \in Nat
      BY <2>1 DEF SubmitToQueue
    <3> QED BY <3>1
  <2>2. CASE ~ SubmitToQueue(m)
    <3>1. UNCHANGED <<submits, offered>>
      BY <1>1, <2>2 DEF RowRequest, SubmitKeywordResults, UpdateKeywords, SetResult,
           DenySubmission, RemoveSubmission, DenyPendingForContributor, Deny
    <3>2. \A n \in Memories : status'[n] \in {status[n], "absent", "denied"}
                              /\ (status[n] = "absent" => status'[n] = "absent")
      BY <1>1, <2>2 DEF RowRequest, SubmitKeywordResults, UpdateKeywords, SetResult, Pending,
           DenySubmission, RemoveSubmission, DenyPendingForContributor, Deny
    <3> QED BY <3>1, <3>2
  <2> QED BY <2>1, <2>2
<1>2. CASE OtherRequest
  <2>1. ASSUME NEW q \in Verifiers, VerifyKeywords(q) PROVE Resubmitted'
    <3>1. submits' = submits /\ checked[q] \in Memories
      BY <2>1 DEF VerifyKeywords
    <3>2. CASE status[checked[q]] = "pending_keyword"
      <4>1. /\ status' = [status EXCEPT ![checked[q]] = "pending_chain"]
            /\ offered' = offered \cup {checked[q]}
        BY <2>1, <3>2 DEF VerifyKeywords
      <4> QED BY <3>1, <3>2, <4>1
    <3>3. CASE status[checked[q]] # "pending_keyword"
      BY <2>1, <3>1, <3>3 DEF VerifyKeywords
    <3> QED BY <3>2, <3>3
  <2>2. ASSUME UNCHANGED <<status, submits, offered>> PROVE Resubmitted'
    BY <2>2
  <2> QED BY <1>2, <2>1, <2>2 DEF OtherRequest, LockForVote, CastApprovalVote, CheckKeywords,
          PrepareBatchForChain, Relay, rowVars
<1>3. CASE WatcherMoves
  BY <1>3 DEF WatcherMoves, BeginBlock, EndBlock, MissBlock, Crash, NextApproval, Redrive, rowVars
<1>4. ASSUME NEW d \in Drivers, Bookkeeping(d) \/ BookkeepingFails(d) PROVE Resubmitted'
  <2>1. UNCHANGED <<submits, offered>>
    BY <1>4 DEF Bookkeeping, BookkeepingFails, SelectPending, AddToIndex, MarkCommitted, TouchOrg,
         RecordError, SelectFails, IndexFails, UpdateFails, RecordErrorFails, rowVars
  <2>2. \A n \in Memories : status'[n] = status[n]
                            \/ (status[n] = "pending_chain" /\ status'[n] = "committed")
    BY <1>4 DEF Bookkeeping, BookkeepingFails, SelectPending, AddToIndex, MarkCommitted, TouchOrg,
         RecordError, SelectFails, IndexFails, UpdateFails, RecordErrorFails, rowVars
  <2> QED BY <2>1, <2>2
<1>5. CASE UNCHANGED vars
  BY <1>5 DEF vars, rowVars
<1> QED BY <1>1, <1>2, <1>3, <1>4, <1>5, NextSplit

\* Nobody takes the commit error off a row that waits for the chain, and no
\* verified hash starts to wait again without a second submission.
LEMMA ReportedStays ==
  ASSUME TypeOK, InHand, Resubmitted, [Next]_vars, NEW m \in Memories, m \in offered, Reported(m)
  PROVE  Reported(m)'
<1> USE DEF TypeOK, Reported
<1>1. ASSUME NEW n \in Memories, RowRequest(n) PROVE Reported(m)'
  <2>1. CASE SubmitToQueue(n)
    BY <2>1 DEF SubmitToQueue
  <2>2. CASE RemoveSubmission(n)
    BY <2>2 DEF RemoveSubmission
  <2>3. CASE ~ SubmitToQueue(n) /\ ~ RemoveSubmission(n)
    <3>1. UNCHANGED <<submits, commitError>> /\ status'[m] \in {status[m], "denied"}
      BY <1>1, <2>3 DEF RowRequest, SubmitKeywordResults, UpdateKeywords, SetResult,
           DenySubmission, DenyPendingForContributor, Deny
    <3> QED BY <3>1
  <2> QED BY <2>1, <2>2, <2>3
<1>2. CASE OtherRequest
  <2>1. ASSUME NEW q \in Verifiers, VerifyKeywords(q) PROVE Reported(m)'
    <3>1. UNCHANGED <<submits, commitError>> /\ checked[q] \in Memories
      BY <2>1 DEF VerifyKeywords
    <3>2. \/ status'[m] = status[m]
          \/ status[m] = "pending_keyword"
      BY <2>1, <3>1 DEF VerifyKeywords
    <3> QED BY <3>1, <3>2 DEF Resubmitted
  <2>2. ASSUME UNCHANGED <<status, submits, commitError>> PROVE Reported(m)'
    BY <2>2
  <2> QED BY <1>2, <2>1, <2>2 DEF OtherRequest, LockForVote, CastApprovalVote, CheckKeywords,
          PrepareBatchForChain, Relay, rowVars
<1>3. CASE WatcherMoves
  BY <1>3 DEF WatcherMoves, BeginBlock, EndBlock, MissBlock, Crash, NextApproval, Redrive, rowVars
<1>4. ASSUME NEW d \in Drivers, Bookkeeping(d) \/ BookkeepingFails(d) PROVE Reported(m)'
  <2>1. CASE MarkCommitted(d)
    BY <2>1 DEF MarkCommitted
  <2>2. CASE RecordError(d)
    BY <2>2 DEF RecordError
  <2>3. CASE ~ MarkCommitted(d) /\ ~ RecordError(d)
    BY <1>4, <2>3 DEF Bookkeeping, BookkeepingFails, SelectPending, AddToIndex, TouchOrg,
         SelectFails, IndexFails, UpdateFails, RecordErrorFails, rowVars
  <2> QED BY <2>1, <2>2, <2>3
<1>5. CASE UNCHANGED vars
  BY <1>5 DEF vars, rowVars
<1> QED BY <1>1, <1>2, <1>3, <1>4, <1>5, NextSplit

\* The bookkeeping lets go of an approval only once the row is committed, no
\* longer waits, or carries the error.
LEMMA WatcherDecides ==
  ASSUME TypeOK, InHand, Bookkeeping(Watcher) \/ BookkeepingFails(Watcher),
         NEW m \in Memories, Deciding(m), ~ Deciding(m)'
  PROVE  Reported(m)' \/ Fault("record")
<1> USE DEF TypeOK, Reported, Deciding, Goto
<1>1. CASE SelectPending(Watcher)
  BY <1>1 DEF SelectPending, Return, rowVars, Drivers
<1>2. CASE AddToIndex(Watcher)
  BY <1>2 DEF AddToIndex, Drivers
<1>3. CASE MarkCommitted(Watcher)
  BY <1>3 DEF MarkCommitted, Drivers
<1>4. CASE RecordError(Watcher)
  BY <1>4 DEF RecordError, Drivers
<1>5. CASE SelectFails(Watcher) \/ IndexFails(Watcher) \/ UpdateFails(Watcher)
  BY <1>5 DEF SelectFails, IndexFails, UpdateFails, Drivers
<1>6. CASE RecordErrorFails(Watcher)
  BY <1>6 DEF RecordErrorFails
<1> QED
  BY <1>1, <1>2, <1>3, <1>4, <1>5, <1>6 DEF Bookkeeping, BookkeepingFails, TouchOrg

\* What went wrong is not forgotten.
LEMMA FaultsAreKept ==
  ASSUME TypeOK, NEW kind, Fault(kind)
  PROVE  Happened(kind)' /\ (Quiet' => Quiet)
<1>1. /\ Len(faults) \in Nat /\ Len(faults') = Len(faults) + 1
      /\ \A i \in 1..Len(faults) : faults'[i] = faults[i]
      /\ faults'[Len(faults) + 1] = kind
  BY DEF Fault, TypeOK
<1>2. \A k : Happened(k) => Happened(k)'
  BY <1>1 DEF Happened
<1> QED BY <1>1, <1>2 DEF Happened, Quiet

\* Whatever has not gone wrong by now had not gone wrong before.
LEMMA QuietBefore ==
  ASSUME TypeOK, InHand, [Next]_vars, Quiet'
  PROVE  Quiet
<1>1. (\E kind : Fault(kind)) \/ UNCHANGED faults
  <2>1. CASE \E m \in Memories : RowRequest(m)
    BY <2>1 DEF RowRequest, SubmitToQueue, SubmitKeywordResults, UpdateKeywords, SetResult,
         DenySubmission, RemoveSubmission, DenyPendingForContributor, Deny
  <2>2. CASE OtherRequest
    BY <2>2 DEF OtherRequest, LockForVote, CastApprovalVote, CheckKeywords, VerifyKeywords,
         PrepareBatchForChain, Relay
  <2>3. CASE WatcherMoves
    BY <2>3 DEF WatcherMoves, BeginBlock, EndBlock, MissBlock, Crash, NextApproval, Redrive
  <2>4. ASSUME NEW d \in Drivers, Bookkeeping(d) \/ BookkeepingFails(d)
        PROVE  (\E kind : Fault(kind)) \/ UNCHANGED faults
    BY <2>4 DEF Bookkeeping, BookkeepingFails, SelectPending, AddToIndex, MarkCommitted, TouchOrg,
         RecordError, SelectFails, IndexFails, UpdateFails, RecordErrorFails
  <2>5. CASE UNCHANGED vars
    BY <2>5 DEF vars
  <2> QED BY <2>1, <2>2, <2>3, <2>4, <2>5, NextSplit
<1> QED BY <1>1, FaultsAreKept DEF Quiet, Happened

\* Steps that leave the watcher's place, the block in hand and the chain alone.
LEMMA KeepBlocks ==
  ASSUME TypeOK, InHand, Verified, Resubmitted, BlocksDone, [Next]_vars,
         UNCHANGED <<seen, blocks, todo, pc[Watcher], cur[Watcher]>>
  PROVE  BlocksDone'
<1>1. \A i \in 1..Len(blocks) : \A m \in blocks[i] : Reported(m) => Reported(m)'
  BY ReportedStays DEF TypeOK, Verified
<1>2. Quiet' => Quiet
  BY QuietBefore
<1>3. \A m : Deciding(m) => Deciding(m)'
  BY DEF Deciding
<1> QED BY <1>1, <1>2, <1>3 DEF BlocksDone

\* Every step keeps what the watcher knows of the blocks behind it and in hand.
LEMMA BlocksStep ==
  ASSUME TypeOK, InHand, Verified, Resubmitted, BlocksDone, [Next]_vars
  PROVE  BlocksDone'
<1>1. \A i \in 1..Len(blocks) : \A m \in blocks[i] :
        m \in Memories /\ (Reported(m) => Reported(m)')
  BY ReportedStays DEF TypeOK, Verified
<1>2. Quiet' => Quiet
  BY QuietBefore
<1>3. /\ Watcher \in Drivers /\ seen \in Nat /\ Len(blocks) \in Nat
      /\ pc \in [Drivers -> {"idle", "block", "select", "index", "update", "touch", "error"}]
  BY DEF TypeOK, Drivers
<1>4. CASE \E m \in Memories : RowRequest(m)
  BY <1>4, KeepBlocks DEF RowRequest, SubmitToQueue, SubmitKeywordResults, UpdateKeywords,
     SetResult, DenySubmission, RemoveSubmission, DenyPendingForContributor, Deny, driverVars,
     chainVars
<1>5. ASSUME NEW M \in SUBSET Memories, Relay(M) PROVE BlocksDone'
  <2>1. /\ UNCHANGED <<seen, todo, pc, cur>>
        /\ Len(blocks') = Len(blocks) + 1 /\ \A i \in 1..Len(blocks) : blocks'[i] = blocks[i]
    BY <1>5 DEF Relay, driverVars, TypeOK
  <2>2. seen <= Len(blocks') /\ (pc[Watcher] # "idle" => seen < Len(blocks'))
    BY <1>3, <2>1 DEF BlocksDone
  <2>3. ASSUME Quiet', NEW i \in 1..Len(blocks'), NEW m \in blocks'[i]
        PROVE  /\ i <= seen => Reported(m)'
               /\ pc[Watcher] # "idle" /\ i = seen + 1 => m \in todo \/ Deciding(m) \/ Reported(m)'
    BY <1>1, <1>2, <1>3, <2>1, <2>3 DEF BlocksDone
  <2>4. \A m : Deciding(m) => Deciding(m)'
    BY <2>1 DEF Deciding
  <2> QED BY <2>1, <2>2, <2>3, <2>4 DEF BlocksDone
<1>6. CASE OtherRequest
  BY <1>5, <1>6, KeepBlocks DEF OtherRequest, LockForVote, CastApprovalVote, CheckKeywords,
     VerifyKeywords, PrepareBatchForChain, driverVars, chainVars
<1>7. CASE BeginBlock
  <2>1. /\ UNCHANGED <<seen, blocks>> /\ seen < Len(blocks) /\ pc[Watcher] = "idle"
        /\ todo' = blocks[seen + 1]
    BY <1>7 DEF BeginBlock, chainVars
  <2> QED BY <1>1, <1>2, <2>1 DEF BlocksDone
<1>8. CASE EndBlock
  <2>1. /\ seen' = seen + 1 /\ UNCHANGED blocks /\ todo = {} /\ pc[Watcher] = "block"
        /\ pc'[Watcher] = "idle"
    BY <1>3, <1>8 DEF EndBlock
  <2>a. seen + 1 <= Len(blocks)
    BY <1>3, <2>1 DEF BlocksDone
  <2>2. \A m : ~ Deciding(m)
    BY <2>1 DEF Deciding
  <2>3. \A i \in 1..Len(blocks) : i <= seen + 1 => i <= seen \/ i = seen + 1
    BY <1>3
  <2> QED BY <1>1, <1>2, <2>1, <2>a, <2>2, <2>3 DEF BlocksDone
<1>9. CASE MissBlock
  <2>1. ~ Quiet' /\ pc[Watcher] = "idle" /\ pc' = pc
    BY <1>9, FaultsAreKept DEF MissBlock, Quiet, driverVars
  <2>2. seen' <= Len(blocks')
    BY <1>3, <1>9 DEF MissBlock
  <2> QED BY <2>1, <2>2 DEF BlocksDone
<1>10. CASE Crash
  <2>1. pc'[Watcher] = "idle" /\ UNCHANGED <<seen, blocks>>
    BY <1>3, <1>10 DEF Crash, chainVars
  <2> QED BY <1>1, <1>2, <2>1 DEF BlocksDone
<1>11. ASSUME NEW n \in Memories, NextApproval(n) PROVE BlocksDone'
  <2>1. /\ todo' = todo \ {n} /\ UNCHANGED <<seen, blocks>> /\ Deciding(n)'
        /\ pc[Watcher] = "block" /\ pc'[Watcher] = "select"
    BY <1>3, <1>11 DEF NextApproval, chainVars, Deciding, TypeOK
  <2>2. \A m : ~ Deciding(m)
    BY <2>1 DEF Deciding
  <2> QED BY <1>1, <1>2, <2>1, <2>2 DEF BlocksDone
<1>12. ASSUME NEW r \in Redrives, NEW m \in Memories, Redrive(r, m) PROVE BlocksDone'
  <2>1. r # Watcher
    BY SetsAssumption
  <2> QED BY <1>3, <1>12, <2>1, KeepBlocks DEF Redrive, chainVars, TypeOK
<1>13. ASSUME NEW d \in Drivers, Bookkeeping(d) \/ BookkeepingFails(d) PROVE BlocksDone'
  <2>1. /\ UNCHANGED <<seen, blocks, todo>>
        /\ pc'[Watcher] = "idle" => pc[Watcher] = "idle"
        /\ pc[Watcher] = "idle" => pc'[Watcher] = "idle"
    BY <1>3, <1>13 DEF Bookkeeping, BookkeepingFails, SelectPending, AddToIndex, MarkCommitted,
       TouchOrg, RecordError, SelectFails, IndexFails, UpdateFails, RecordErrorFails, chainVars,
       Return, Goto
  <2>2. CASE d = Watcher
    <3>1. ASSUME Quiet', NEW m \in Memories, Deciding(m) PROVE Deciding(m)' \/ Reported(m)'
      BY <1>13, <2>2, <3>1, WatcherDecides, FaultsAreKept DEF Quiet
    <3> QED BY <1>1, <1>2, <2>1, <3>1 DEF BlocksDone
  <2>3. CASE d # Watcher
    <3>1. UNCHANGED <<pc[Watcher], cur[Watcher]>>
      BY <1>3, <1>13, <2>3 DEF Bookkeeping, BookkeepingFails, SelectPending, AddToIndex,
         MarkCommitted, TouchOrg, RecordError, SelectFails, IndexFails, UpdateFails,
         RecordErrorFails, Return, Goto, TypeOK
    <3> QED BY <2>1, <3>1, KeepBlocks
  <2> QED BY <2>2, <2>3
<1>14. CASE UNCHANGED vars
  BY <1>14, KeepBlocks DEF vars, driverVars, chainVars
<1>15. CASE WatcherMoves
  BY <1>7, <1>8, <1>9, <1>10, <1>11, <1>12, <1>15 DEF WatcherMoves
<1> QED BY <1>4, <1>6, <1>13, <1>14, <1>15, NextSplit

\* A submission that still waits for the chain although the watcher has gone
\* past its approval carries a commit error, whatever failed on the way but
\* the writing of that error, and however often the hub crashed meanwhile.
THEOREM StuckSubmissionsAreReported == Spec => []StuckIsReported
<1>1. Init => Resubmitted /\ BlocksDone
  BY DEF Init, Resubmitted, BlocksDone, Drivers
<1>2. IInv /\ Resubmitted /\ BlocksDone /\ [Next]_vars => (Resubmitted /\ BlocksDone)'
  BY ResubmittedStep, BlocksStep DEF IInv
<1>3. IInv /\ BlocksDone => StuckIsReported
  <2> SUFFICES ASSUME IInv, BlocksDone, Quiet, NEW m \in Memories, status[m] = "pending_chain",
                      submits[m] = 1, NEW i \in 1..seen, m \in blocks[i]
               PROVE  commitError[m]
    BY DEF StuckIsReported, Quiet
  <2>1. i \in 1..Len(blocks)
    BY DEF IInv, TypeOK, BlocksDone
  <2> QED BY <2>1 DEF BlocksDone, Reported
<1> QED BY <1>1, <1>2, <1>3, Invariance, PTL DEF Spec
=============================================================================
