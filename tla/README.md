# Verification of wevibe-server

TLA+ models of the WeVibe hub (`src/wevibe-hub`, Go) and of the parts of the
dashboard (`src/wevibe-dashboard`, TypeScript) that keep state of their own;
TLC configurations that check them on small instances; and TLAPS proofs of what
matters most for every instance. The reference is the code. Paths below are
relative to `src/wevibe-hub` unless they say otherwise, or begin with `lib/`,
`app/` or `components/`, which are directories of `src/wevibe-dashboard`.

## 1. Inventory

The hub is one Go process beside a PostgreSQL database (`src/db/schema.sql`), a
Qdrant vector store, an Umbral sidecar and a CometBFT node. Consumers, members
and leaders call it over HTTP; most of what they report ends in a transaction on
the chain, and what the chain includes comes back to the hub through a single
watcher goroutine. Every request is a goroutine; the database is the only lock
most of them share.

| Component | State | Operations | Hard behaviour | Correct when |
|---|---|---|---|---|
| Serve relay (`handlers/serves.go`, `handlers/denials.go`, `serves/serves.go`, `chain/submit.go`, `chain/broadcast.go`, `chain/watcher_serve.go`) | `serve_events`, `outcome_events`, `serveRelayCh`, `serveRelayQueued`, the serving key's sequence | record a serve, denial, outcome; enqueue; pass of a worker (load, batch, broadcast, mark); 15-minute ticker; the watcher's marking | a worker pool and a bounded channel; three marks after a broadcast; lost answers; crashes; two writers of `status` | a row is sent once where nothing failed, is marked only when the chain has its like, and leaves in the end; serves go before the denials of the same or a later epoch |
| Chain watcher (`chain/watcher.go`, `chain/cometbft_subscriber.go`) | `watcher_state` cursor, subscription channel | start, catch up, subscribe, receive, reconnect, process a block, save the cursor | crash between bookkeeping and cursor; events dropped; gaps around (re)subscription | no block lost but in a known blind spot; cursor monotone; repeats only after a failure |
| Submission moderation (`moderation/moderation.go`, `handlers/moderation.go`, `handlers/keyword_extraction.go`, `handlers/ban.go`, `chain/watcher_memory.go`, `chain/redrive.go`) | `pending_submissions`, `submission_mod_votes`, the org's Qdrant collection | submit, vote, keyword results, update and verify keywords, deny, ban, remove, prepare a batch, bookkeeping of an approval, redrive | check-then-update across requests; a double write to Qdrant and the database; a failed bookkeeping never runs again | resolved rows stay resolved; committed rows are searchable or say why not; what is stuck says so |
| Standing (`standing/engine.go`, `standing/policy.go`, `chain/standing_projection.go`) | `memory_standing`, Qdrant payloads | compute standing from serves, outcomes and denials; project it | events in any order; half of a double write | the same events give the same standing |
| Membership (`handlers/join.go`, `handlers/members.go`, `members/members.go`, `chain/reconcile.go`, the watcher's `AddMember`, `RemoveMember`, `TransferLeadership`) | `members`, `join_requests` | ask, approve, deny, confirm, remove, transfer, reconcile once a minute | a request that is reverted while its transaction is in flight; a transfer in three statements; a reconciler with an old list | the watcher's rows follow the chain; roles converge to the chain's; no request hangs |
| Organisations (`handlers/orgs.go`, `orgs/orgs.go`, `chain/sync.go`, `chain/policy_anchor.go`) | `organizations` | create, close, settings, startup sync | sync racing the watcher | a closed org stays closed |
| Reports and bans (`handlers/reports.go`, `reports/reports.go`, `chain/watcher_report_org.go`) | `reports` | file, triage, commit, the watcher's bookkeeping | bookkeeping that fails half way | a confirmed report removes its memory |
| Retrieval (`retrieval/*`, `handlers/retrieval.go`) and rate limits (`handlers/ratelimit.go`) | query log, governor counters | search, rank, log | counters at their limit | the quota is never exceeded |
| Billing (`billing/billing.go`) | `org_credits`, `members.membership_active` | top up, subscribe, grant, revoke | the watcher writes the same column | recall is on for whom it was enabled |
| Notifications (`notifications/*`) | `notifications`, subscriber channels | emit, dispatch, subscribe, preferences | slow subscribers | nothing blocks the emitter |
| Callbacks, pairing and identity blobs, decision notes, extraction uploads, recovery | one table each | store, fetch, delete | one-time collection | a blob is collected once |
| Umbral service, auth, signatures, sanitizing, embeddings, social names, receipts | none, or a sidecar's | stateless calls | - | - |
| Approval panel and verification queue (`lib/verify-queue.ts`, `components/moderation/leader-pipeline-panel.tsx`) | jobs, batches, inputs and failures in localStorage; the panel's two lists | approve, retry, remove, deny, ban, send a batch, refresh | three requests per memory, lost replies, reloads, lists older than the hub's rows, two controllers of "is it settled" | what is shown is queued, failed with its input, or verified; batches leave the screen |
| Extraction queue (`lib/extraction-queue.ts`, `app/api/extract/*`) | jobs in memory, the MCP server's jobs, parked jobs | enqueue, start, poll, park, reattach, resume, give up | resume racing a new extraction; the page is the only watcher | a running job is watched; the queue drains |
| Drafts and submission (`lib/draft-store.ts`, `components/sessions/memory-review.tsx`, `lib/wevibe-submit.ts`) | a draft per session | save, discard, submit group by group | a new draft during a submission; half of the groups fail; a submission runs on when its page is left | nothing is sent twice by one component unknowingly, or lost with its draft |
| Sessions page (`app/(dashboard)/sessions/page.tsx`) | open card, transcript, question | select, extract, confirm, resume | answers of an earlier click | no session is extracted again without a question |
| Chain client (`lib/chain-client.ts`) | the wallet's sequence, one retry | sign, broadcast, poll | time limits around a transaction that may still land; two tabs | a message is executed no more often than asked for |
| Purchase of an organisation (`app/(dashboard)/buy-org/page.tsx`, `app/api/org-setup/*`) | setup, payment, phrase on screen | set up, pay, finalise, record, confirm the phrase | every step after the payment fails or is cut off, or goes on without its page | the phrase shown opens the organisation bought |
| Identity (`lib/wevibe-auth.ts`, `lib/identity-context.tsx`, `components/onboarding/*`) | record in IndexedDB, seeds per tab, wrapped seeds at the hub | mint, adopt, fetch, import, unlock, connect, reset | several tabs, prompts that stay open | a tab signs with the stored identity's seed |
| Organisation forms (`app/(dashboard)/org-settings/page.tsx`) and list pages (members, join requests, reports, review panel, billing) | values or rows of the active organisation | read on a change, save, act | answers after the next change | what is offered is of the active organisation |
| Provider settings (`app/(dashboard)/settings/page.tsx`, `lib/settings.ts`, `lib/provider-readiness.ts`) | a file, masked copies of two pages, a cached answer | load, save, check | a probe that ends after a save | the cached answer is about what is stored |
| Join request pages (`app/(dashboard)/join-requests/page.tsx`) with `handlers/join.go` | the page's step, the message under way | approve, deny, cancel | hub and chain updated one after the other by a page that may vanish | request, member row and chain agree |
| Other pages, `lib/hub-client.ts` | none of their own | display, fetch | - | - |

How they interact: the moderation queue hands a verified batch to the leader's
wallet, the leader's transaction is included by the chain, the chain watcher
hands each approval of the block to the bookkeeping of moderation. The serve
relay broadcasts with a key of its own, and the same watcher marks its rows.
The watcher's bookkeeping of `AddMember`, reports and standing works likewise.
The dashboard's pages are clients of both: they ask the hub first and the chain
second, or the other way round, and hold lists that are older than either; the
MCP server on the user's machine does the work that needs keys and models.
So every component sees the watcher's weak spots (`ChainWatcher`) as "an
included transaction may never be processed, or may be processed twice"; the
other modules have those as faults of their own.

## 2. Plan

1. `ServeRelay` with `Outbox`, and its proofs. **Done.**
2. `ChainWatcher`; `Submissions` with `Lifecycle`; their proofs. **Done.**
3. The standing engine as a pure algorithm (recursive functions or folds, never
   RECURSIVE operators) against a reference pairing, over bounded inputs; the
   standing projection (the double write) with the watcher that drives it.
4. `Membership`: join requests, reconciliation, leadership transfer, closing,
   recall; its proofs. **Done.**
5. The dashboard: its two queues, drafts, sessions page, chain client, purchase,
   identity, forms, lists, settings, and with the hub's handlers the reports and
   the join requests; the proofs of their safety properties. **Done**; what is left
   of each is in section 7.
6. The query governor and the rate limits, notifications, pairing blobs, the
   startup sync.
7. Theorems: every invariant and action property that a passing run checks is
   proved (section 6). **Done**; a component added under 3 or 6 brings its own.

Runs stay one per question; a component's safety properties share a run.

## 3. Modules and how they correspond to the code

`PROJECT.json` maps each definition to its lines.

**ServeRelay** (detailed) **/ Outbox** (abstract). A row of `serve_events` or
`outcome_events` is its natural key; `status`, `txOf` are columns; `held` and
`older` stand for `created_at` against the relay hold (a repeated report sets
`created_at` again). A handler inserts its row in one step and enqueues the org in
another (`filing` counts the reports in between): it may die there, or fail because
the row cannot be read back (`HandlerFails`), and the row is left to the ticker.
Epoch, memory and serve of a denial are what the caller says they are; nothing
asks whether the serve is there, or of which epoch it is. `queued`, `sending`, `chan` are `serveRelayQueued`, the
sends that may block in a goroutine of their own, and `serveRelayCh`. A worker's
`pc` walks the pass one query, broadcast or UPDATE at a time: `Take`,
`LoadServes`, `LoadDenials`, `LoadOutcomes`, `Submit`, `Committed` (or
`SubmitRejected`, `NotIncluded`, `PassFails`), `MarkServes`, `MarkDenials`,
`MarkOutcomes`, and after the pass `Release` and `Check`. `NextBatch` is the
epoch batching under `maxRelayMsgsPerTx`. `Include`, `Drop` and the `mempool` are
the chain; the serving key's sequence number admits one transaction of an org at
a time. `Watch` is the watcher's UPDATE by org, memory and type; `WatchMiss` is a
block it never sees. `Crash` drops all that lives in the process. `Outbox` says:
record, deliver what was recorded, settle what has a delivered row like it.

**ChainWatcher**. `mode` is where `Start` is, `step` where `processBlock` is,
`next` and `target` are catchUp's loop, `stream` is the client's event channel.
Blocks are heights, `ran` counts their bookkeeping, `blind` is a history
variable: blocks made where this watcher cannot see them.

**Submissions** (detailed) **/ Lifecycle** (abstract). One SQL statement is one
step. A vote holds its row `FOR UPDATE` between `LockForVote` and
`CastApprovalVote`, and every other writer of the row waits (`Unlocked`);
verification reads in `CheckKeywords` and writes in `VerifyKeywords`. The
bookkeeping of an approval (`SelectPending`, `AddToIndex`, `MarkCommitted`,
`TouchOrg`, and the deferred `RecordError`) is run by the watcher and by redrive
requests, side by side. `Lifecycle` is the atomic story of one submission.

**Membership**. One org, created and registered. `log` is the org's messages on
the chain, `roster` the chain's member list; `row`, `active`, `confirmed`,
`recall` and `trial` are columns of `members`, with `mod` for both capabilities;
`status`, `who`, `onTrial` are columns of `join_requests`, and the request's
number stands for `requested_at`. The watcher handles one message per block, one
statement a step (`AddUpdates` or `AddSelects`, `AddInserts`, `AddApproves`;
`TransferDemotes`, `TransferPromotes`, `TransferPoints`; and so on), and
`SaveCursor` ends it; a `Crash` before that repeats the message. A pass of
`ReconcileMembership` is `QueryChain`, `LoadRows`, a `Heal` or `Confirm` per row,
`RevertStale`. `Acts` bounds what people and the chain do in an instance.

The modules of the dashboard. Browser JavaScript runs a handler up to its next
`await` without interruption, so a step is the code between two awaits; a request
is a step at the server, and where the order matters its reply is another.
Replies that are lost and reloads are faults, bounded by a constant of each
module. The properties are as strong as the code allows: where it does lose track
of something, the case is recorded by a history variable, named below, and is
excepted by name.

**VerifyQueue**. `jobs`, `batchOf`, `verified`, `failed`, `inputs` are the
variables of `verify-queue.ts` with the same names or `batches` and
`cachedInputs`; the running job is the head, `step` the request it awaits
(`StoreKeywords`, `Embed`, `VerifyKeywords`), `reply` the answer, `FinishJob` the
`finally` block. `review` and `ready` are the panel's lists, `LoadAll` and
`ShowLists` the two halves of a refresh; `ReconcileSettledHashes` is in the
second. Refreshes may overlap (`load`): each marks the panel as loading, and the
first to end takes the mark of all away. `status` is the hub's row, moved by others too (`Commit`, `DenyFinal`,
`BanContributor`). `Reload` finds what localStorage holds.

**ExtractionQueue**. `xjobs` is `jobs`, `poll` the job `runJob` is busy with,
`mcpJobs` the MCP server's. A finished, parked or failed job leaves by the
`finally` block, which drops every entry of its session. `orphans` is history:
running jobs lost to a reload, a lost answer, a time limit, or an entry that was
overtaken.

**Filter** is `Array.prototype.filter`, with which both queues drop entries: the
kept entries by the set of their indices, in the order they had. `WithoutMemory`
(`VerifyQueue`) and `WithoutSession` (`ExtractionQueue`) are its two uses.

**DraftReview**. A draft is the number of its extraction. `SubmitSelected` fixes
the groups, `SubmitGroup` is one request with any subset accepted, `SubmitEnds`
deletes the session's draft, whichever it is by then. A view is a mounted
`MemoryReview`, of this tab or another: `viewed` is the draft it shows, `submission`
what it has under way. `submitting` belongs to the component and the sending does
not, so `LeavePage` leaves a submission running and nothing disables the button of a
view opened later (`CanSubmit`). History: `warnedOf`, drafts whose failure was
*shown*; `submitter`, whether a draft was submitted by one view only; `dropped`.

**SessionsPage**. `opened` is the card, `detail` the transcript that came last,
`asking` what the dialog is about. The extraction queue is the sets it shows.

**Broadcast**. A transaction is a message with a sequence. `Sign` reads the
sequence, `DirectBroadcast` is CheckTx with its four answers, `PollForInclusion`
ends done, failed or unsure. `doubtful` is history: calls that ended in a plain
failure on a reply that never came.

**OrgLaunch**. `buying.step` walks `handleConfirmBuy`; `sold` is the chain,
`keysFor` the MCP server, `recorded` the hub. A setup whose purchase failed or was
cut off is `warned`. A purchase whose page was left runs on as `buying["left"]`: it
finalises and records, a toast reports success, and the phrase is never shown
(`unshown`). Of such purchases one at a time is followed.

**Identity**. `record` is the IndexedDB record, `memory` and `session` a tab's
`unlockedSeed` and sessionStorage, `unlocking` the record a prompt was opened
for, `known` the tabs whose context has it, `blobs` the hub's. A write of the wallet
address reads the record in one IndexedDB transaction and writes it in another
(`ReadForAddress`, `SetWalletAddress`, `editing`), over whatever another tab stored
in between; of such writes one at a time is followed.

**OrgSettings**, **OrgLists**. A behaviour follows one form or page while the
active organisation changes; `requests` or `reads` are answers on their way,
`holds` or `rows` whose values are shown. `editor` is the dialog that confirms a
transfer, or the serving editor with the values it was opened with; neither waits for
a read or closes when another organisation becomes active. History: a save that ended for another
organisation (`late`), a cleared error (`dismissed`); rows that came after a
change (`strayed`), stayed after a failed read (`kept`) or were never read again
(`unread`).

**ProviderSettings**. `stored` is the file, `copy` what a page holds, with the key
masked, `put` a save on its way, `verdict` the cached answer with the question it
answers; an answer that was asked for before the last save is `late`.

**JoinDesk**. One request and several reviewers: `desk` is a page's step, `choice`
the tier of each approval, `relayed` and `included` its message; `AddMember` is
the watcher, `RevertStale` the reconciler. History: `loosened`, an approval undone
while its message could still land; `abandoned`, one left confirming. `Membership`
has the same requests under restarts and failed statements, one step a handler.

**ReportDesk**. `holder` is the transaction that holds a report's row
`FOR UPDATE`; a page may offer a report as it was at any time (`OfferedAs`), since
its list may be of any age. History: `raced`, two reports checked at once;
`uncounted`, dismissed after the reporter was removed.

**MCDashboard** holds instances of the twelve in one specification. The initial
state chooses a `scene`, one component, which moves while the variables of the
others rest: the state space is the sum of the components' and not the product,
and nothing is claimed of their interleaving, which the code does not let happen
but through what each module has of its surroundings (the queue of
`ExtractionQueue` in `SessionsPage`, the drafts it leaves in `DraftReview`).

**MCServeRelay, MCChainWatcher, MCSubmissions, MCMembership** give the constants of the
configurations. Definitions whose comment begins with "Variation" are mutated
forms of a neighbour, which the properties must refute; they are in no `Next`.

## 4. Runs

| Run | Instance | What it shows |
|---|---|---|
| `relay_safety` | 2 workers, 2 orgs (one exempt from the hold), a one-slot channel, 2 serves (one an orphan of the exempt org), a denial in a later epoch, an outcome the chain refuses, 1 fault of any of 6 kinds | no org is in two passes or stranded; no row left with nobody about to look, but by a failed handler, a failed check or a crash; submitted rows are backed by an included transaction; nothing is included twice unless a pass failed; serves before denials of their epoch or a later one; the relay implements `Outbox` |
| `relay_live` | 1 worker, the same rows without the first serve, 1 repeated report, 1 fault of any kind | denials and outcomes leave, although an orphaned serve of the other org keeps the worker busy; a serve with a contributor takes the steps of a denial, and with one more row the run would not end in time |
| `relay_confirmed` | 1 worker, 2 serves of one memory | **violated**: a serve on hold is marked submitted with another's hash |
| `watcher_cursor` | 5 blocks, channel of 2, 2 faults of 7 kinds, fresh database or cursor 1 | losses are known, repeats are paid for by an interruption, the cursor is monotone, blocks are processed in the end |
| `watcher_backfill` | the same with crashes only | **violated**: a block between Status and the subscription is lost |
| `sub_safety` | 2 memories, 1 vote, 1 verification, 1 redrive beside the watcher, 1 fault of 6 kinds | committed is searchable or says not; stuck is reported |
| `sub_resubmit` | 1 memory submitted up to twice, 2 blocks, 2 faults of 6 kinds | votes freeze, `Lifecycle` is implemented, approvals are taken in the end unless the watcher missed a block |
| `sub_keywords` | 1 memory, 1 verification | **violated**: keywords nobody verified wait for the chain |
| `member_join` | founder and applicant, 2 join requests, 3 messages that add or remove, recall bought and revoked, 1 restart | once caught up, the rows agree with the chain; nobody is approved without a row |
| `member_roles` | the same two, 1 request, an invitation, 3 messages that add, transfer, change capabilities or close, 1 fault of 4 kinds | rows and leader pointer follow the chain; roles and capabilities converge; no request hangs in confirming |
| `member_recall` | one invitation | **violated**: the watcher turns recall on |
| `dashboard` | 2 memories, 2 sessions, 2 MCP jobs, 2 drafts of 2 memories for 2 organisations submitted from 2 views, 2 broadcasts, 2 slots, 2 tabs, 3 changes of the active organisation, 2 saves, 2 reviewers with 2 approvals, 2 reports on 3 pages; 1 fault of each component (2 around a broadcast) | one property for each component of the dashboard; and batches and sessions leave their queues |

Bounds, and why they are enough. Two workers and two orgs on one slot make the
channel full, a send blocked, and two passes compete; the denial's epoch differs
from its serve's, so `MaxMsgs = 2` splits a pass into transactions. One report of a
row is on its way to its enqueue at a time (`MaxFiling`), beside those of the other
rows. In `relay_live` one repeated report meets every step of the pass. One fault may come anywhere, so every single
failure is met at every point; two faults in the small watcher model cover a
failure during the recovery from another. Five blocks let the stream fill beside
a backfill of three. Two blocks and two submissions let an approval meet a row
that is not the one it approved. Two people are enough to swap the leader, and
three messages to add, remove and add again, or to add, transfer and change a
capability while a pass holds an older list; two requests of one person can be
open at once. In `dashboard` two of a kind are enough for one to be taken for the
other: two sessions for a late transcript, two organisations led and one not for
a late answer, two drafts for one that replaces another during a submission, two
pages for a race between read and write; three changes of organisation lead away
and back. Two views, with as many clicks, are one left and opened again, or two tabs.
One refresh of the panel is under way at a time (`Refreshes`); that any number may
overlap is in the proof of `QueueIsHonest`. `QueuesDrain` is asked of one session:
the two are alike. Two MCP jobs are a parked one and the one that overtakes it; two calls
with either the same message or different ones share a sequence; the two
broadcast faults are a lost reply and a restart that forgets its transaction. One
fault is met at every point. `CHECK_DEADLOCK FALSE` everywhere: reporters and
the chain may stop, and a system with nothing left to do is at rest.

Fairness. Each relay worker and the watcher are goroutines that never return, so
their steps are weakly fair; the ticker and the holds are clocks; the chain keeps
making blocks (`Include`), which the hub cannot do without. `ChanSend` is
strongly fair: Go serves the senders blocked on a channel in order, so one of
them cannot be passed over for ever. A handler that neither fails nor dies goes on to
its enqueue (`EnqueueReported`). A lock is released because its transaction
goes on or is rolled back. In `Membership` the watcher and the minute ticker run
for ever (that the watcher may stop is `ChainWatcher`'s matter) and the ten
minutes pass. In `dashboard` the running job of a queue goes on, since its
requests end in an answer, an error or a time limit (`RunQueue`); the panel reads
its lists again on a timer (`RefreshPanel`); and the page keeps looking for the
MCP server (`ConnectMcp`). Nothing is assumed of reporters, leaders, faults, or,
in the relay, of the watcher.

## 5. Disagreements between code and documents

The four runs that end in a violation each show one; `PROJECT.json` quotes the
sentence. More were seen in the models and are checked by no run:

- `handlers/serves.go:652` says a denial can never be submitted before its serve.
  `ServeFirstInPass` holds within what a pass loaded; but serves and denials are
  loaded by two queries, and a serve reported again between the passes goes back
  on hold, so a denial may be loaded without its serve.
- `handlers/serves.go:993` says the denial's epoch must be the epoch of the serve it
  refers to. Neither the handler nor `RecordDenial` compares them, or looks for the
  serve: a denial reported for an earlier epoch is sent before its serve, which is why
  `ServeFirstInPass` speaks of the others only.
- `chain/watcher_memory.go:144` adds the memory to the index before the guarded
  UPDATE: a denial or removal between SELECT and UPDATE leaves a memory in the
  search index with no committed row.
- `src/db/schema.sql:627` says the watcher promotes confirming requests to
  approved. It does so only for a person without a row: an invited or former
  member takes the UPDATE path, and the request goes back to pending.
- `docs/TOPOLOGY.md:220` says an approval with `trial` makes a trial member. When
  the reconciler reverts the request before the transaction is seen, the trial
  mark is gone and the watcher inserts a full member.
- `chain/watcher_report_org.go:13` sets `reports.tx_hash`, a column `src/db/schema.sql`
  does not give the table, and so does `CommitReport`: a report that was upheld and
  committed to the chain stays in `upheld_pending_tx`, and its memory in the index.
- `docs/TOPOLOGY.md:841` says admission calls `Subscribe`; neither `InviteMember`
  nor `ApproveJoinRequest` does.

## 6. Proofs

Proved by TLAPS from the assumptions the modules name (`RowsAssumption`,
`BoundsAssumption`, `ConstantsAssumption`, `SetsAssumption`,
`PeopleAssumption`, and for the dashboard `SetsAssumption`, `BoundsAssumption`,
`KeysAssumption`, `ViewsAssumption` and `OrgsAssumption` of `MCDashboard`: bounds are natural numbers,
the sets that are counted are finite, no model value doubles as another), for all
values of the constants, any number of faults, crashes and requests:

- `ServeRelayProofs`: `TypeOK`, `SingleFlight`, `NoStrandedOrg`,
  `ServeFirstInPass`. `SingleFlight` is not inductive: nothing in it keeps an org
  out of the channel while a worker has it. `QueueInv` says that an org is held by
  at most one of the pending sends, the slots of the channel and the workers in a
  pass, and that it is queued exactly when it is held. `ServeFirstInPass` rests on the
  epochs of the two rows alone: a batch takes whole epochs, oldest first, whatever the
  handlers were told. `NoLostWakeup` adds that an
  outcome, or a row of an org without a hold, is never on hold (`HoldInv`): a worker
  that checks its org then finds every such row recorded since its queries, which
  would otherwise wait for the ticker. Until its handler has come to the enqueue the
  row counts as on its way (`filing`); only a handler that fails there, a failed check
  or a crash breaks the chain.
- `ServeLedgerProofs`: `SubmittedIsBacked`, `ImplementsOutbox` and
  `IncludedOnce`. A worker marks
  the rows in its hand with the hash in its hand, so the invariant must say that
  hashes are fresh and a hash determines its rows, in the hand, in the mempool
  and on the chain (`HashInv`), and that rows on their way were recorded
  (`RowsRecorded`). That nothing is included twice is about a row which is read as
  pending and marked much later: between the two it is in one worker's hand
  (`TodoInv`, by `QueueInv`), in the mempool or on the chain once (`TxInOnePlace`),
  and while no pass fails and nothing crashes every transaction in the mempool has
  its worker (`IsAwaited`), an included row is marked or about to be
  (`SentIsSettled`), and what is still to be sent is on no chain (`TodoIsUnsent`).
- `ChainWatcherProofs`: `TypeOK`, `LossesAreKnown`, `CursorMonotone`,
  `RepeatsAreInterruptions`. The invariant says where each block between the
  cursor and the chain is (`Covered`: processed, blind, in the stream, in hand or
  ahead in the backfill), that the stream grows above the cursor (`InOrder`), and
  what each location knows (`Located`). Counting repeats needs the cardinality
  theorems of the library and a bound that a pending interruption pays in advance.
- `SubmissionsProofs`: `TypeOK`, `CommittedIsSearchable`, `VotesAreFrozen`,
  `ImplementsLifecycle`, `StuckIsReported`. Needed beside them: a row locked by a
  vote is pending (`Locked`), what waits for the chain or went there was verified (`Verified`),
  and what a bookkeeping knows of the approval in its hand (`InHand`). For the stuck
  submissions, the block in the watcher's hand is split into what is still to do, what
  is being decided and what was dealt with (`BlocksDone`), and a hash that went to the
  chain waits for keywords again only when it was submitted again (`Resubmitted`):
  without it, a submission that was dealt with might come back unreported.
- `MembershipProofs`: `TypeOK`, `ApprovedAreMembers` and `MembersFollowChain`. The
  approval is the third
  statement of a message, so the invariant must say what the watcher knows of the
  message and of the request it selected two statements earlier (`Located`,
  `Asked`: requests keep their applicant), that rows are never deleted, which
  depends on the lists the reconciler is given (`Approved`), and that a request
  that is denied late exists. `MembersFollowChain` speaks of a watcher that has caught
  up; in between, a message may be half done, and done again after a restart. So
  `Followed` says of every processed message that its effect holds still, unless a
  later one, up to the message in hand, is about the same person or pointer, and
  `Chained` that the chain removes and promotes only whom it has listed, without which
  the statements of a removal or transfer would find no row.
- `DashboardProofs` shows for each component of `MCDashboard` that a step of the
  whole is a step of the component or leaves it as it is (`MovesVQ` to `MovesRD`).
  An inductive invariant of a component's own actions therefore holds under
  `FairSpec`, whatever scene is played. It also has what `Filter` returns: a sequence
  of the kept entries, all of them, the first one first. The cardinalities that number
  the kept indices are why. The types of the sessions page, the
  identity, the forms and the lists need nothing but their own actions and are here.
- `DeskProofs`: `ReportsAreSettledOnce`, `ApprovalMatchesChain` and `QueueIsHonest`.
  Of the reports
  one must know that a call which has read a row holds its lock, alone, while the
  report is pending (`Locks`), that what goes to the chain was upheld (`Upheld`)
  and, by cardinalities, that the dismissals are those counted and those that
  found no member (`Counted`). Of a join request, `Tight` says that there is one
  approval at most: a page about to broadcast, the message it has sent, or that
  message's event, each with the tier the request is marked with; it holds until
  a mark is taken back, or a denial written, over a message (`loosened`). Of the
  verification queue: a request under way has its job, and one answered with success
  has taken its row (`Answered`), or a memory would be shown as verified that is not; a
  failed memory is not queued and has its input (`Failing`), or a retry would have
  nothing to send. The types of the desks come last. Those of the batches are the
  hard ones: that a new batch finds an unused number within the bound needs that
  the batches in use are no more than the memories on screen and those queued
  (`FreshIdsVQ`, by cardinalities), and the entries added must keep the queue a sequence of known batches.
- `PageProofs`, one invariant per page. `DraftsMatchHub`: the hub has nothing of
  the groups still to be sent (`Underway`), nor of a draft nobody has submitted
  (`Untouched`), unless a failure was shown or the draft was submitted from a second
  view; that two submissions of one draft count as that is `Alone`, and that the one
  component that has submitted a draft is mounted, and at it still, `Own`. `ReadinessIsCurrent`: the
  stored key is the last one typed, and every probe that no save has overtaken is
  about it (`Checking`). `PhraseOpensOrg`: a setup is sold once (`SoldOnce`),
  each step of a purchase knows what the steps before it have done, and the purchase of
  the page and that of a page left have different setups (`Buys`); an
  organisation could otherwise be recorded under the phrase of another attempt.
  `NeverSilent` is its second half.
  `FormShowsItsOrg`: a read that was not cancelled is for the active organisation, and
  an editor that was opened without a doubt since the last change began with its values
  (`InvOS`), and rows without a mark are, too (`InvLI`). `NeverMoreThanAsked`: what was
  executed or waits at the node was sent by a call that has not failed plainly
  (`Backed`), the node's queue goes on from the account's sequence and nothing is
  executed at a sequence twice (`InSequence`), so that a call which sent it can be
  chosen for each executed transaction, and no call for two. `RunningIsWatched`: while the answer to a
  resume request is due, no entry of its session holds a job (`NoneHeld`); the answer
  replaces those entries, and would otherwise drop a running job. `TakesTheStoredSeed`
  and `NeverAgainUnasked` follow action by action. `TypesAreKept` is `TypeOK` of the
  whole dashboard, by all of these: the sequence number stays within the calls made,
  since each number was used up by a call that has been answered (`SpentInTurn`), and
  a resume request names one of the session's parked jobs.

Only model-checked: the liveness properties (`ServesLeave`, `OutcomesLeave`,
`BlocksAreProcessed`, `ApprovalsAreTaken`, `RolesConverge`, `ConfirmingSettles`,
`QueuesDrain`), which are out of the prover's reach.

## 7. Not modelled

The components marked so in the inventory of `PROJECT.json`, each with its
reason. Within the modelled ones: signatures, ciphertexts, capsules and vectors
(a request of a model is one that passed validation), the wording of errors,
vote weights and keyword votes, and the content of transactions beyond the rows
they carry. Epoch 0 outcomes, which intake accepts and `chain/submit.go:129`
refuses, are not in the instances.

Of the dashboard: two tabs that share the verification queue's localStorage key;
the sign-in of `Identity` is one step, so a sign-in cut off half-way is one that
did not happen (it installs its record last); model lists, the embedding test and
the risk settings of the provider page; the keyword section and the close dialog of the
organisation settings; billing's fall-back to the first organisation; the wording
of errors on the list pages, which allow one action in flight. In `ReportDesk` the
three recommendations are one, and malicious dismissals count as dismissals. The
pages that only display, and `lib/hub-client.ts`, whose functions are the requests
the modules have as steps, have no state to check. The message builders and
protobuf encoders of `lib/chain-client.ts` are data. Cryptography
(`lib/wevibe-crypto.ts`, `lib/passkey.ts`) is the question whose key opens what.
