---------------------------- MODULE MCDashboard ----------------------------
(***************************************************************************)
(* Instances of the dashboard's components for TLC, in one run: each       *)
(* behaviour plays in the scene of one component, which its initial state  *)
(* chooses, while the variables of the others rest.  The components are    *)
(* modules of their own, with variables of their own; nothing is assumed   *)
(* of how they would interleave.                                           *)
(***************************************************************************)
EXTENDS Naturals, FiniteSets, Sequences

CONSTANTS
  Memories, Bannable, NoBatch, Refreshes, QueueFaults, MaxQueueFaults, Sessions, MaxMcpJobs,
  ExtractFaults, MaxExtractFaults, Items, Orgs, Views, MaxDrafts, MaxClicks, ReviewFaults,
  MaxReviewFaults, NoSession, Calls, Msgs, BroadcastFaults, MaxBroadcastFaults, SlotCap,
  MaxSetups, LaunchFaults, MaxLaunchFaults, Tabs, Wallets, Passkey, NoWallet, MaxKeys,
  MaxSignIns, UserOrgs, Leads, NoOrg, MaxSwitches, Keys, NoKey, MaskOfKey, Models, NoModel,
  MaxSaves, MaxReads, Desks, JoinFaults, MaxJoinFaults, MaxApprovals, Reports, LeaderTabs,
  Moderators,
  Observed  \* the sessions QueuesDrain is checked for; all of them are alike

\* What the proofs need to know of the sets and bounds.
ASSUME SetsAssumption == IsFiniteSet(Reports) /\ IsFiniteSet(Calls) /\ IsFiniteSet(Memories)
ASSUME BoundsAssumption ==
  /\ MaxApprovals \in Nat /\ MaxSetups \in Nat /\ MaxMcpJobs \in Nat /\ MaxDrafts \in Nat
  /\ MaxKeys \in Nat \ {0} /\ SlotCap \in Nat /\ MaxSignIns \in Nat /\ MaxSwitches \in Nat
  /\ MaxSaves \in Nat /\ MaxReads \in Nat /\ MaxQueueFaults \in Nat
  /\ MaxExtractFaults \in Nat /\ MaxReviewFaults \in Nat /\ MaxBroadcastFaults \in Nat
  /\ MaxLaunchFaults \in Nat /\ MaxJoinFaults \in Nat /\ MaxClicks \in Nat
ASSUME KeysAssumption == NoKey \notin Keys /\ MaskOfKey \notin Keys \cup {NoKey}
ASSUME ViewsAssumption == Views \cap {"none", "gone", "several"} = {}
ASSUME OrgsAssumption == Leads \subseteq UserOrgs /\ NoOrg \notin UserOrgs

VARIABLES
  scene,  \* the component that moves
  status, onChain, jobs, step, reply, batchOf, verified, failed, inputs, review, ready,
  load, sending, mcp, queueFaults,
  mcpJobs, xjobs, poll, parked, failure, resuming, listing, draft, orphans, extractFaults,
  heldDraft, made, viewed, submission, submitter, clicks, accepted, twice, warnedOf,
  dropped, reviewFaults,
  open, opened, detail, detailLoading, extractionError, fetching, asking, providerReady,
  hubExtracted, extracting, drafted, parkedShown, failedShown, unasked,
  msg, phase, tx, retried, doubtful, mempool, cache, sequence, executed, reverted,
  broadcastFaults,
  hasIdentity, hasWallet, production, slot, sold, confirmOpen, buying, setups, keysFor,
  recorded, shown, phrasePhase, warned, seenPhrase, unshown, launchFaults,
  record, keys, blobs, mcpKey, known, memory, session, unlocking, editing, signIns,
  form, activeOrg, visit, requests, loading, error, holds, saving, late, dismissed, editor,
  stored, typed, verdict, checks, copy, put, saves,
  page, current, switches, identifying, reads, waiting, rows, strayed, kept, unread,
  staged, dialog, acting, connected,
  request, tier, row, listed, desk, call, choice, relayed, included, joined, event, landed,
  loosened, abandoned, approvals, joinFaults,
  state, votes, overdue, holder, dismissedCount, active, uncounted, raced, answer, onRecord

VQ == INSTANCE VerifyQueue
XQ == INSTANCE ExtractionQueue
DR == INSTANCE DraftReview
SP == INSTANCE SessionsPage
BC == INSTANCE Broadcast
OL == INSTANCE OrgLaunch
ID == INSTANCE Identity
OS == INSTANCE OrgSettings
PS == INSTANCE ProviderSettings
LI == INSTANCE OrgLists WITH UserOrgs <- Leads,
                             Leads <- {l \in Leads : l = CHOOSE k \in Leads : TRUE}
JD == INSTANCE JoinDesk
RD == INSTANCE ReportDesk

Scenes == {"VQ", "XQ", "DR", "SP", "BC", "OL", "ID", "OS", "PS", "LI", "JD", "RD"}

\* The variables of each component.
ofVQ == <<status, onChain, jobs, step, reply, batchOf, verified, failed, inputs, review, ready,
          load, sending, mcp, queueFaults>>
ofXQ == <<mcpJobs, xjobs, poll, parked, failure, resuming, listing, draft, orphans,
          extractFaults>>
ofDR == <<heldDraft, made, viewed, submission, submitter, clicks, accepted, twice,
          warnedOf, dropped, reviewFaults>>
ofSP == <<open, opened, detail, detailLoading, extractionError, fetching, asking, providerReady,
          hubExtracted, extracting, drafted, parkedShown, failedShown, unasked>>
ofBC == <<msg, phase, tx, retried, doubtful, mempool, cache, sequence, executed, reverted,
          broadcastFaults>>
ofOL == <<hasIdentity, hasWallet, production, slot, sold, confirmOpen, buying, setups, keysFor,
          recorded, shown, phrasePhase, warned, seenPhrase, unshown, launchFaults>>
ofID == <<record, keys, blobs, mcpKey, known, memory, session, unlocking, editing, signIns>>
ofOS == <<form, activeOrg, visit, requests, loading, error, holds, saving, late, dismissed,
          editor>>
ofPS == <<stored, typed, verdict, checks, copy, put, saves>>
ofLI == <<page, current, switches, identifying, reads, waiting, rows, strayed, kept, unread,
          staged, dialog, acting, connected>>
ofJD == <<request, tier, row, listed, desk, call, choice, relayed, included, joined, event,
          landed, loosened, abandoned, approvals, joinFaults>>
ofRD == <<state, votes, overdue, holder, dismissedCount, active, uncounted, raced, answer,
          onRecord>>

\* What rests while the component of a scene moves.
BesideVQ == <<scene, ofXQ, ofDR, ofSP, ofBC, ofOL, ofID, ofOS, ofPS, ofLI, ofJD, ofRD>>
BesideXQ == <<scene, ofVQ, ofDR, ofSP, ofBC, ofOL, ofID, ofOS, ofPS, ofLI, ofJD, ofRD>>
BesideDR == <<scene, ofVQ, ofXQ, ofSP, ofBC, ofOL, ofID, ofOS, ofPS, ofLI, ofJD, ofRD>>
BesideSP == <<scene, ofVQ, ofXQ, ofDR, ofBC, ofOL, ofID, ofOS, ofPS, ofLI, ofJD, ofRD>>
BesideBC == <<scene, ofVQ, ofXQ, ofDR, ofSP, ofOL, ofID, ofOS, ofPS, ofLI, ofJD, ofRD>>
BesideOL == <<scene, ofVQ, ofXQ, ofDR, ofSP, ofBC, ofID, ofOS, ofPS, ofLI, ofJD, ofRD>>
BesideID == <<scene, ofVQ, ofXQ, ofDR, ofSP, ofBC, ofOL, ofOS, ofPS, ofLI, ofJD, ofRD>>
BesideOS == <<scene, ofVQ, ofXQ, ofDR, ofSP, ofBC, ofOL, ofID, ofPS, ofLI, ofJD, ofRD>>
BesidePS == <<scene, ofVQ, ofXQ, ofDR, ofSP, ofBC, ofOL, ofID, ofOS, ofLI, ofJD, ofRD>>
BesideLI == <<scene, ofVQ, ofXQ, ofDR, ofSP, ofBC, ofOL, ofID, ofOS, ofPS, ofJD, ofRD>>
BesideJD == <<scene, ofVQ, ofXQ, ofDR, ofSP, ofBC, ofOL, ofID, ofOS, ofPS, ofLI, ofRD>>
BesideRD == <<scene, ofVQ, ofXQ, ofDR, ofSP, ofBC, ofOL, ofID, ofOS, ofPS, ofLI, ofJD>>

vars ==
  <<scene, ofVQ, ofXQ, ofDR, ofSP, ofBC, ofOL, ofID, ofOS, ofPS, ofLI, ofJD, ofRD>>

\* Where a component has several initial states, one of them is taken when it rests.
AtRest ==
  /\ scene # "BC" => msg = [c \in Calls |-> CHOOSE m \in Msgs : TRUE]
  /\ scene # "OL" => ~production
  /\ scene # "ID" => mcpKey = 0 /\ record.key = 0
  /\ scene # "OS" => form = "rate"
  /\ scene # "LI" => page = "billing"

Init ==
  /\ scene \in Scenes
  /\ VQ!Init /\ XQ!Init /\ DR!Init /\ SP!Init /\ BC!Init /\ OL!Init
  /\ ID!Init /\ OS!Init /\ PS!Init /\ LI!Init /\ JD!Init /\ RD!Init
  /\ AtRest

VerifyQueueNext == scene = "VQ" /\ VQ!Next /\ UNCHANGED BesideVQ
ExtractionQueueNext == scene = "XQ" /\ XQ!Next /\ UNCHANGED BesideXQ
DraftReviewNext == scene = "DR" /\ DR!Next /\ UNCHANGED BesideDR
SessionsPageNext == scene = "SP" /\ SP!Next /\ UNCHANGED BesideSP
BroadcastNext == scene = "BC" /\ BC!Next /\ UNCHANGED BesideBC
OrgLaunchNext == scene = "OL" /\ OL!Next /\ UNCHANGED BesideOL
IdentityNext == scene = "ID" /\ ID!Next /\ UNCHANGED BesideID
OrgSettingsNext == scene = "OS" /\ OS!Next /\ UNCHANGED BesideOS
ProviderSettingsNext == scene = "PS" /\ PS!Next /\ UNCHANGED BesidePS
OrgListsNext == scene = "LI" /\ LI!Next /\ UNCHANGED BesideLI
JoinDeskNext == scene = "JD" /\ JD!Next /\ UNCHANGED BesideJD
ReportDeskNext == scene = "RD" /\ RD!Next /\ UNCHANGED BesideRD

Next ==
  \/ VerifyQueueNext \/ ExtractionQueueNext \/ DraftReviewNext \/ SessionsPageNext
  \/ BroadcastNext \/ OrgLaunchNext \/ IdentityNext \/ OrgSettingsNext
  \/ ProviderSettingsNext \/ OrgListsNext \/ JoinDeskNext \/ ReportDeskNext

\* The fairness of VerifyQueue and ExtractionQueue: each condition is about the one scene.
RunQueue ==
  \/ scene = "VQ" /\ VQ!RunJob /\ UNCHANGED ofXQ
  \/ scene = "XQ" /\ XQ!Run /\ UNCHANGED ofVQ
RefreshPanel == scene = "VQ" /\ VQ!Refresh
ConnectMcp == scene = "VQ" /\ VQ!Connect

FairSpec ==
  /\ Init /\ [][Next]_vars
  /\ WF_<<ofVQ, ofXQ>>(RunQueue) /\ WF_ofVQ(RefreshPanel) /\ WF_ofVQ(ConnectMcp)

(***************************************************************************)
(* The components' properties.                                             *)
(***************************************************************************)
\* Every component keeps the types of its variables; the others rest at their initial states.
TypeOK ==
  /\ scene \in Scenes
  /\ scene = "VQ" => VQ!TypeOK
  /\ scene = "XQ" => XQ!TypeOK
  /\ scene = "DR" => DR!TypeOK
  /\ scene = "SP" => SP!TypeOK
  /\ scene = "BC" => BC!TypeOK
  /\ scene = "OL" => OL!TypeOK
  /\ scene = "ID" => ID!TypeOK
  /\ scene = "OS" => OS!TypeOK
  /\ scene = "PS" => PS!TypeOK
  /\ scene = "LI" => LI!TypeOK
  /\ scene = "JD" => JD!TypeOK
  /\ scene = "RD" => RD!TypeOK

\* A memory of a batch on screen is queued, failed with the input a retry needs, or verified
\* and then no longer a pending row of the hub.
QueueIsHonest == scene = "VQ" => VQ!NothingHangs /\ VQ!VerifiedIsVerified

\* A running job of the MCP server is polled, unless the page lost it.
RunningIsWatched == scene = "XQ" => XQ!RunningIsWatched

\* A batch leaves the screen of the verification queue, but for one it cannot take away, and a
\* session the extraction queue: VQ!BatchesClear and XQ!QueueDrains in one formula.
QueuesDrain ==
  \A s \in Observed :
    \/ scene = "VQ" /\ VQ!Shown # {}
    \/ scene = "XQ" /\ s \in XQ!Queued
    ~> \/ scene = "VQ" /\ VQ!Cleared
       \/ scene = "XQ" /\ s \notin XQ!Queued

\* No component sends a memory twice unknowingly, and none is lost with its draft.
DraftsMatchHub == scene = "DR" => DR!DraftsMatchHub

\* A session with a draft or a record is extracted again only after a question.
NeverAgainUnasked == scene = "SP" => SP!NeverAgainUnasked

\* A message is executed no more often than it was asked for, but for doubtful answers.
NeverMoreThanAsked == scene = "BC" => BC!NeverMoreThanAsked

\* The recovery phrase a buyer is shown opens the organisation bought.
PhraseOpensOrg == scene = "OL" => OL!PhraseOpensOrg

\* The seed a tab takes into memory is the stored identity's.
TakesTheStoredSeed == ID!TakesTheStoredSeed

\* What a form can save, and a row that can be acted on, is of the active organisation, but for
\* the gaps the two modules name.
FormShowsItsOrg ==
  /\ scene = "OS" => OS!FormShowsItsOrg
  /\ scene = "LI" => LI!RowsAreOfTheOrg

\* A cached readiness answer is about the stored provider and key.
ReadinessIsCurrent == scene = "PS" => PS!ReadinessIsCurrent

\* A reviewed request and the member it made agree with the message on the chain.
ApprovalMatchesChain == scene = "JD" => JD!ApprovalMatchesChain

\* A report is settled once, and on the chain only if upheld.
ReportsAreSettledOnce == scene = "RD" => RD!ReportsAreSettledOnce
=============================================================================
