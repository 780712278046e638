---------------------------- MODULE Submissions -----------------------------
(***************************************************************************)
(* The life of a submitted memory in one organisation: from the            *)
(* contributor's submission through advisory votes, keyword results,       *)
(* verification and the leader's batch transaction to the bookkeeping the  *)
(* chain watcher does for each approved memory, beside denial, ban,        *)
(* removal and the redrive endpoint.  Requests run concurrently; one SQL   *)
(* statement is one step, and a transaction that locks a row excludes the  *)
(* other writers of that row.                                              *)
(*                                                                         *)
(* Sources: internal/moderation/moderation.go, internal/api/handlers/      *)
(* {moderation,keyword_extraction,ban,testing}.go, internal/chain/         *)
(* {watcher,watcher_memory,redrive}.go, db/schema.sql.                     *)
(*                                                                         *)
(* Ciphertexts, capsules and vectors are left out: verification accepts    *)
(* only rows that have them.  So are the checks of signature and role,     *)
(* which precede every request, and the leader's removal from the org.     *)
(***************************************************************************)
EXTENDS Naturals, Sequences, FiniteSets

CONSTANTS
  Memories, NoMemory,     \* submission hashes, and none
  ContributorOf,          \* memory -> contributor_pubkey
  Moderators,             \* concurrent vote requests
  Verifiers,              \* concurrent verify-keywords requests
  Redrives,               \* concurrent redrive requests
  Watcher,                \* the goroutine running ChainWatcher.Start
  FaultKinds,             \* "query", "index", "update", "record", "miss", "crash"
  MaxFaults,              \* bound: how many faults happen
  MaxSubmits,             \* bound: submissions of one hash
  MaxBlocks               \* bound: the leader's transactions

Drivers == {Watcher} \cup Redrives

ASSUME SetsAssumption == NoMemory \notin Memories /\ Watcher \notin Redrives
ASSUME BoundsAssumption == MaxFaults \in Nat /\ MaxSubmits \in Nat /\ MaxBlocks \in Nat

VARIABLES
  status,         \* pending_submissions.status, "absent" without a row
  result,         \* extraction_result, by what the checks tell apart
  commitError,    \* commit_error IS NOT NULL
  votes,          \* submission_mod_votes
  submits,        \* memory -> how often it was submitted
  voting,         \* vote request -> row its transaction holds FOR UPDATE
  checked,        \* verify request -> row that passed its checks
  prepared,       \* the leader's copy of the prepared batch
  blocks,         \* the leader's transactions, in block order
  seen,           \* how many of them the watcher has gone past
  todo,           \* approvals of the block in hand still to do
  pc, cur,        \* per driver: where its bookkeeping is, and of what
  unindexed,      \* per driver: qdrantCommitError # ""
  index,          \* the organisation's Qdrant collection
  offered,        \* history: memories that were verified once
  faults          \* history: the faults so far

rowVars == <<status, result, commitError, votes, submits>>
requestVars == <<voting, checked, prepared>>
driverVars == <<todo, pc, cur, unindexed>>
chainVars == <<blocks, seen>>
vars == <<rowVars, requestVars, driverVars, chainVars, index, offered, faults>>

\* "ready": classified keywords and a rationale for every suggestion; "open": a
\* suggestion without one; "empty": no classified keywords; "none": NULL.
Results == {"none", "ready", "open", "empty"}
Pending == {"pending_keyword", "pending_chain"}
Resolved == {"committed", "denied"}

TypeOK ==
  /\ status \in [Memories -> Pending \cup Resolved \cup {"absent"}]
  /\ result \in [Memories -> Results]
  /\ commitError \in [Memories -> BOOLEAN]
  /\ votes \subseteq Memories \X Moderators
  /\ submits \in [Memories -> Nat]
  /\ voting \in [Moderators -> Memories \cup {NoMemory}]
  /\ checked \in [Verifiers -> Memories \cup {NoMemory}]
  /\ prepared \subseteq Memories
  /\ blocks \in Seq(SUBSET Memories) /\ seen \in Nat
  /\ todo \subseteq Memories
  /\ pc \in [Drivers -> {"idle", "block", "select", "index", "update", "touch", "error"}]
  /\ cur \in [Drivers -> Memories \cup {NoMemory}]
  /\ unindexed \in [Drivers -> BOOLEAN]
  /\ index \subseteq Memories /\ offered \subseteq Memories
  /\ faults \in Seq(FaultKinds)

Init ==
  /\ status = [m \in Memories |-> "absent"] /\ result = [m \in Memories |-> "none"]
  /\ commitError = [m \in Memories |-> FALSE] /\ votes = {}
  /\ submits = [m \in Memories |-> 0]
  /\ voting = [v \in Moderators |-> NoMemory] /\ checked = [q \in Verifiers |-> NoMemory]
  /\ prepared = {} /\ blocks = <<>> /\ seen = 0 /\ todo = {}
  /\ pc = [d \in Drivers |-> "idle"] /\ cur = [d \in Drivers |-> NoMemory]
  /\ unindexed = [d \in Drivers |-> FALSE]
  /\ index = {} /\ offered = {} /\ faults = <<>>

Fault(kind) ==
  /\ kind \in FaultKinds /\ Len(faults) < MaxFaults
  /\ faults' = Append(faults, kind)
Happened(kind) == \E i \in 1..Len(faults) : faults[i] = kind
Approved == UNION {blocks[i] : i \in 1..Len(blocks)}

\* Variation: a plain SELECT.
NeverLocked(m) == m \in Memories

\* No vote request holds the row: its SELECT ... FOR UPDATE makes every other
\* writer of the row wait.
Unlocked(m) == \A v \in Moderators : voting[v] # m

(***************************************************************************)
(* Contributors and moderators.                                            *)
(***************************************************************************)
\* Variation: the row starts as 'pending', which the schema's header still lists.
SubmitAsPending(m) ==
  /\ status[m] = "absent" /\ submits[m] < MaxSubmits
  /\ status' = [status EXCEPT ![m] = "pending"]
  /\ \E x \in Results : result' = [result EXCEPT ![m] = x]
  /\ submits' = [submits EXCEPT ![m] = @ + 1]
  /\ UNCHANGED <<commitError, votes, requestVars, driverVars, chainVars, index, offered, faults>>

\* A second INSERT of a hash fails on the primary key, whatever the status.
SubmitToQueue(m) ==
  /\ status[m] = "absent" /\ submits[m] < MaxSubmits
  /\ status' = [status EXCEPT ![m] = "pending_keyword"]
  /\ \E x \in Results : result' = [result EXCEPT ![m] = x]
  /\ submits' = [submits EXCEPT ![m] = @ + 1]
  /\ UNCHANGED <<commitError, votes, requestVars, driverVars, chainVars, index, offered, faults>>

\* CastApprovalVote: lock the row, refuse a resolved one, ...
LockForVote(v, m) ==
  /\ voting[v] = NoMemory /\ Unlocked(m)
  /\ status[m] \in Pending
  /\ voting' = [voting EXCEPT ![v] = m]
  /\ UNCHANGED <<rowVars, checked, prepared, driverVars, chainVars, index, offered, faults>>

\* ... then upsert the vote and commit.
CastApprovalVote(v) ==
  /\ voting[v] # NoMemory
  /\ votes' = votes \cup {<<voting[v], v>>}
  /\ voting' = [voting EXCEPT ![v] = NoMemory]
  /\ UNCHANGED <<status, result, commitError, submits, checked, prepared,
                 driverVars, chainVars, index, offered, faults>>

(***************************************************************************)
(* The leader.                                                             *)
(***************************************************************************)
SetResult(m, S) ==
  /\ status[m] \in S /\ Unlocked(m)
  /\ \E x \in Results \ {"none"} : x # result[m] /\ result' = [result EXCEPT ![m] = x]
  /\ UNCHANGED <<status, commitError, votes, submits, requestVars, driverVars, chainVars,
                 index, offered, faults>>

SubmitKeywordResults(m) == SetResult(m, {"pending_keyword"})

\* The status stays what it is; classified may be empty, rationales missing.
UpdateKeywords(m) == SetResult(m, Pending)

\* VerifyKeywords reads the row and checks what it read, ...
CheckKeywords(q, m) ==
  /\ checked[q] = NoMemory
  /\ status[m] = "pending_keyword" /\ result[m] = "ready"
  /\ checked' = [checked EXCEPT ![q] = m]
  /\ UNCHANGED <<rowVars, voting, prepared, driverVars, chainVars, index, offered, faults>>

\* ... probes Qdrant for near duplicates and updates the row if it still waits
\* for keywords.
VerifyKeywords(q) ==
  LET m == checked[q] IN
  /\ m # NoMemory /\ Unlocked(m)
  /\ checked' = [checked EXCEPT ![q] = NoMemory]
  /\ IF status[m] = "pending_keyword"
     THEN status' = [status EXCEPT ![m] = "pending_chain"] /\ offered' = offered \cup {m}
     ELSE UNCHANGED <<status, offered>>
  /\ UNCHANGED <<result, commitError, votes, submits, voting, prepared, driverVars,
                 chainVars, index, faults>>

Deny(M) ==
  /\ M # {} /\ \A m \in M : status[m] \in Pending /\ Unlocked(m)
  /\ status' = [m \in Memories |-> IF m \in M THEN "denied" ELSE status[m]]
  /\ UNCHANGED <<result, commitError, votes, submits, requestVars, driverVars, chainVars,
                 index, offered, faults>>

DenySubmission(m) == Deny({m})

\* Every pending submission of the contributor.
DenyPendingForContributor(c) == Deny({m \in Memories : ContributorOf[m] = c /\ status[m] \in Pending})

\* DELETE, and by ON DELETE CASCADE the votes.
RemoveSubmission(m) ==
  /\ status[m] \in Pending /\ Unlocked(m)
  /\ status' = [status EXCEPT ![m] = "absent"]
  /\ result' = [result EXCEPT ![m] = "none"]
  /\ commitError' = [commitError EXCEPT ![m] = FALSE]
  /\ votes' = {p \in votes : p[1] # m}
  /\ UNCHANGED <<submits, requestVars, driverVars, chainVars, index, offered, faults>>

\* Every row that waits for the chain, or an error if one has no keywords.
PrepareBatchForChain ==
  LET batch == {m \in Memories : status[m] = "pending_chain"} IN
  /\ batch # prepared /\ \A m \in batch : result[m] \in {"ready", "open"}
  /\ prepared' = batch
  /\ UNCHANGED <<rowVars, voting, checked, driverVars, chainVars, index, offered, faults>>

\* The leader's wallet sends what it picks of the batch, and a block includes it.
Relay(M) ==
  /\ M # {} /\ M \subseteq prepared /\ Len(blocks) < MaxBlocks
  /\ blocks' = Append(blocks, M)
  /\ UNCHANGED <<rowVars, requestVars, driverVars, seen, index, offered, faults>>

(***************************************************************************)
(* processApproveMemoryBookkeeping, driven by the watcher for each         *)
(* approval of a block and by redrive requests.                            *)
(***************************************************************************)
BeginBlock ==
  /\ pc[Watcher] = "idle" /\ seen < Len(blocks)
  /\ todo' = blocks[seen + 1] /\ pc' = [pc EXCEPT ![Watcher] = "block"]
  /\ UNCHANGED <<rowVars, requestVars, chainVars, cur, unindexed, index, offered, faults>>

NextApproval(m) ==
  /\ pc[Watcher] = "block" /\ m \in todo
  /\ todo' = todo \ {m}
  /\ cur' = [cur EXCEPT ![Watcher] = m] /\ pc' = [pc EXCEPT ![Watcher] = "select"]
  /\ UNCHANGED <<rowVars, requestVars, chainVars, unindexed, index, offered, faults>>

EndBlock ==
  /\ pc[Watcher] = "block" /\ todo = {}
  /\ seen' = seen + 1 /\ pc' = [pc EXCEPT ![Watcher] = "idle"]
  /\ UNCHANGED <<rowVars, requestVars, blocks, todo, cur, unindexed, index, offered, faults>>

\* The watcher was not subscribed when the block was made.
MissBlock ==
  /\ pc[Watcher] = "idle" /\ seen < Len(blocks) /\ Fault("miss")
  /\ seen' = seen + 1
  /\ UNCHANGED <<rowVars, requestVars, blocks, driverVars, index, offered>>

\* RedriveApproveMemory: not for a committed row, and only with a mined approval.
Redrive(r, m) ==
  /\ pc[r] = "idle" /\ status[m] \notin {"absent", "committed"} /\ m \in Approved
  /\ cur' = [cur EXCEPT ![r] = m] /\ pc' = [pc EXCEPT ![r] = "select"]
  /\ UNCHANGED <<rowVars, requestVars, chainVars, todo, unindexed, index, offered, faults>>

Goto(d, l) == pc' = [pc EXCEPT ![d] = l]

\* The bookkeeping returns to its caller.
Return(d) ==
  /\ Goto(d, IF d = Watcher THEN "block" ELSE "idle")
  /\ cur' = [cur EXCEPT ![d] = NoMemory]
  /\ unindexed' = [unindexed EXCEPT ![d] = FALSE]
  /\ UNCHANGED todo

\* SELECT ... WHERE status = 'pending_chain'; no row is a warning.
SelectPending(d) ==
  /\ pc[d] = "select"
  /\ IF status[cur[d]] = "pending_chain"
     THEN Goto(d, "index") /\ UNCHANGED <<todo, cur, unindexed>>
     ELSE Return(d)
  /\ UNCHANGED <<rowVars, requestVars, chainVars, index, offered, faults>>

\* Variation: the deferred function does not run.
SelectFailsUnrecorded(d) ==
  /\ pc[d] = "select" /\ Fault("query") /\ Return(d)
  /\ UNCHANGED <<rowVars, requestVars, chainVars, index, offered>>

SelectFails(d) ==
  /\ pc[d] = "select" /\ Fault("query") /\ Goto(d, "error")
  /\ UNCHANGED <<rowVars, requestVars, chainVars, todo, cur, unindexed, index, offered>>

AddToIndex(d) ==
  /\ pc[d] = "index" /\ Goto(d, "update")
  /\ index' = index \cup {cur[d]}
  /\ UNCHANGED <<rowVars, requestVars, chainVars, todo, cur, unindexed, offered, faults>>

\* Only a warning, and a text for commit_error.
IndexFails(d) ==
  /\ pc[d] = "index" /\ Fault("index") /\ Goto(d, "update")
  /\ unindexed' = [unindexed EXCEPT ![d] = TRUE]
  /\ UNCHANGED <<rowVars, requestVars, chainVars, todo, cur, index, offered>>

\* Variation: the UPDATE does not write commit_error.
MarkCommittedNoError(d) ==
  LET m == cur[d] IN
  /\ pc[d] = "update" /\ Unlocked(m) /\ Goto(d, "touch")
  /\ status' = IF status[m] = "pending_chain" THEN [status EXCEPT ![m] = "committed"] ELSE status
  /\ UNCHANGED <<result, commitError, votes, submits, requestVars, chainVars, todo, cur,
                 unindexed, index, offered, faults>>

\* Variation: the UPDATE does not ask for the status.
MarkCommittedAnyStatus(d) ==
  LET m == cur[d] IN
  /\ pc[d] = "update" /\ Unlocked(m) /\ Goto(d, "touch")
  /\ status' = IF status[m] # "absent" THEN [status EXCEPT ![m] = "committed"] ELSE status
  /\ UNCHANGED <<result, commitError, votes, submits, requestVars, chainVars, todo, cur,
                 unindexed, index, offered, faults>>

\* Variation: the UPDATE skips a locked row.
MarkCommittedSkipLocked(d) ==
  LET m == cur[d]
      hit == status[m] = "pending_chain" /\ Unlocked(m) IN
  /\ pc[d] = "update" /\ Goto(d, "touch")
  /\ status' = IF hit THEN [status EXCEPT ![m] = "committed"] ELSE status
  /\ commitError' = IF hit THEN [commitError EXCEPT ![m] = unindexed[d]] ELSE commitError
  /\ UNCHANGED <<result, votes, submits, requestVars, chainVars, todo, cur, unindexed,
                 index, offered, faults>>

MarkCommitted(d) ==
  LET m == cur[d] IN
  /\ pc[d] = "update" /\ Unlocked(m) /\ Goto(d, "touch")
  /\ IF status[m] = "pending_chain"
     THEN /\ status' = [status EXCEPT ![m] = "committed"]
          /\ commitError' = [commitError EXCEPT ![m] = unindexed[d]]
     ELSE UNCHANGED <<status, commitError>>
  /\ UNCHANGED <<result, votes, submits, requestVars, chainVars, todo, cur, unindexed,
                 index, offered, faults>>

\* orgs.last_chain_submission_at
TouchOrg(d) ==
  /\ pc[d] = "touch" /\ Return(d)
  /\ UNCHANGED <<rowVars, requestVars, chainVars, index, offered, faults>>

UpdateFails(d) ==
  /\ pc[d] \in {"update", "touch"} /\ Fault("update") /\ Goto(d, "error")
  /\ UNCHANGED <<rowVars, requestVars, chainVars, todo, cur, unindexed, index, offered>>

\* recordSubmissionCommitError, whatever the status of the row by now.
RecordError(d) ==
  LET m == cur[d] IN
  /\ pc[d] = "error" /\ Unlocked(m) /\ Return(d)
  /\ commitError' = [commitError EXCEPT ![m] = status[m] # "absent"]
  /\ UNCHANGED <<status, result, votes, submits, requestVars, chainVars, index, offered, faults>>

RecordErrorFails(d) ==
  /\ pc[d] = "error" /\ Fault("record") /\ Return(d)
  /\ UNCHANGED <<rowVars, requestVars, chainVars, index, offered>>

\* The hub dies: open transactions roll back, requests and bookkeeping end
\* where they are, and the block in hand is processed again.
Crash ==
  /\ Fault("crash")
  /\ voting' = [v \in Moderators |-> NoMemory] /\ checked' = [q \in Verifiers |-> NoMemory]
  /\ todo' = {} /\ pc' = [d \in Drivers |-> "idle"]
  /\ cur' = [d \in Drivers |-> NoMemory] /\ unindexed' = [d \in Drivers |-> FALSE]
  /\ UNCHANGED <<rowVars, prepared, chainVars, index, offered>>

-----------------------------------------------------------------------------
Bookkeeping(d) ==
  SelectPending(d) \/ AddToIndex(d) \/ MarkCommitted(d) \/ TouchOrg(d) \/ RecordError(d)

BookkeepingFails(d) ==
  SelectFails(d) \/ IndexFails(d) \/ UpdateFails(d) \/ RecordErrorFails(d)

WatcherStep ==
  \/ BeginBlock \/ EndBlock \/ Bookkeeping(Watcher)
  \/ \E m \in Memories : NextApproval(m)

Next ==
  \/ \E m \in Memories :
       \/ SubmitToQueue(m) \/ SubmitKeywordResults(m) \/ UpdateKeywords(m)
       \/ DenySubmission(m) \/ RemoveSubmission(m)
       \/ \E v \in Moderators : LockForVote(v, m)
       \/ \E q \in Verifiers : CheckKeywords(q, m)
       \/ \E r \in Redrives : Redrive(r, m)
  \/ \E v \in Moderators : CastApprovalVote(v)
  \/ \E q \in Verifiers : VerifyKeywords(q)
  \/ \E m \in Memories : DenyPendingForContributor(ContributorOf[m])
  \/ PrepareBatchForChain \/ \E M \in SUBSET Memories : Relay(M)
  \/ WatcherStep \/ \E r \in Redrives : Bookkeeping(r)
  \/ \E d \in Drivers : BookkeepingFails(d)
  \/ MissBlock \/ Crash

\* Requests in flight finish, the watcher keeps running and is started again
\* after a crash, and a row lock goes to everyone who waits for it in the end.
\* Nobody has to submit, vote, verify, relay or redrive.
Fairness ==
  /\ SF_vars(WatcherStep)
  /\ \A v \in Moderators : WF_vars(CastApprovalVote(v))

Spec == Init /\ [][Next]_vars
FairSpec == Spec /\ Fairness

-----------------------------------------------------------------------------
(***************************************************************************)
(* Properties.                                                             *)
(***************************************************************************)
\* A committed memory is in the search index, or its row says why not: a
\* failed AddToIndex never passes for a clean commit, whichever of two
\* concurrent bookkeepings commits the row.
CommittedIsSearchable ==
  \A m \in Memories : status[m] = "committed" => m \in index \/ commitError[m]

\* Once a submission is committed or denied its votes are what they were, also
\* for a vote whose check ran before the decision.
VotesAreFrozen ==
  [][\A m \in Memories : status[m] \in Resolved =>
       {p \in votes : p[1] = m} = {p \in votes' : p[1] = m}]_vars

\* A memory that still waits for the chain although the watcher has gone past
\* its approval carries a commit error, if its hash was submitted once: it is
\* never stuck without a trace.
StuckIsReported ==
  ~ Happened("miss") /\ ~ Happened("record") =>
    \A m \in Memories :
      /\ status[m] = "pending_chain" /\ submits[m] = 1
      /\ \E i \in 1..seen : m \in blocks[i]
      => commitError[m]

\* The hub implements Lifecycle: resolved submissions stay resolved, and what
\* is committed waited for the chain and is approved on it.
LifecycleOf == INSTANCE Lifecycle WITH approved <- Approved
ImplementsLifecycle == LifecycleOf!Spec

\* A memory whose approval the watcher has still to see does not wait for the
\* chain for ever, unless its row says, or could not be made to say, what went
\* wrong, or the watcher was not there for a block.  (A hash that was removed and
\* submitted again while its old approval is being processed does: its own
\* approval is behind the watcher by then.)
ApprovalsAreTaken ==
  \A m \in Memories :
    (/\ status[m] = "pending_chain" /\ submits[m] = 1
     /\ \E i \in seen + 1..Len(blocks) : m \in blocks[i])
      ~> \/ status[m] # "pending_chain" \/ submits[m] > 1 \/ commitError[m]
         \/ Happened("record") \/ Happened("miss")

\* docs/TOPOLOGY.md, "Verification rules (in verify-keywords and
\* update-keywords)": "No pending suggestions remain (all must be
\* approved/rejected before verification)"; update-keywords "resets to
\* pending_keyword".
KeywordsAreVerified ==
  \A m \in Memories : status[m] = "pending_chain" => result[m] = "ready"
=============================================================================
