----------------------------- MODULE Membership -----------------------------
(***************************************************************************)
(* The members of one organisation.  The chain decides who is a member and *)
(* who leads; the hub keeps its own rows, beside the join requests that    *)
(* only the hub knows.  Three writers meet there: requests of applicants,  *)
(* reviewers and the leader; the chain watcher, which does the bookkeeping *)
(* of one chain message after the other; and ReconcileMembership, which    *)
(* once a minute compares the rows with the chain's present member list.   *)
(* One SQL statement is one step.                                          *)
(*                                                                         *)
(* Sources: internal/api/handlers/{join,members}.go, internal/members/     *)
(* members.go, internal/orgs/orgs.go, internal/billing/billing.go,         *)
(* internal/chain/{watcher,reconcile}.go, db/schema.sql.                   *)
(*                                                                         *)
(* Left out: keys and envelopes, wallet addresses, notifications, tiers,   *)
(* trial expiry and the cooldown's end (a denied applicant stays away for  *)
(* seven days).  can_contribute is treated like can_moderate.              *)
(***************************************************************************)
EXTENDS Naturals, Sequences, FiniteSets

CONSTANTS
  People, Founder,        \* pubkeys, and the one that created the org
  NoOne,
  MaxRequests,            \* bound: join requests, numbered as requested_at
  MaxMessages,            \* bound: the org's messages on the chain
  Credits,                \* the org's pool, in subscriptions
  Acts,                   \* bound: chain messages, "join", "invite", "deny", "recall"
  FaultKinds,             \* "miss", "update", "pass", "crash"
  MaxFaults               \* bound: how many faults happen

ASSUME PeopleAssumption == Founder \in People /\ NoOne \notin People
ASSUME BoundsAssumption ==
  /\ MaxRequests \in Nat /\ MaxMessages \in Nat /\ MaxFaults \in Nat /\ Credits \in Nat

VARIABLES
  log,            \* the org's messages on the chain, oldest first
  roster,         \* the chain's members: pubkey -> [role, mod]
  closing,        \* the chain has closed the org
  sent,           \* people whose MsgAddMember the leader's wallet has sent
  row,            \* members: pubkey -> [role, mod], role "none" without a row
  active, confirmed,      \* members.active, members.chain_confirmed
  recall, trial,          \* members.membership_active, members.is_trial
  leader, closed,         \* orgs.leader_pubkey, orgs.status = 'closed'
  balance,        \* org_credits.balance
  status,         \* join_requests.status; before the INSERT "checked", or "lost" in a crash
  who, onTrial,   \* requester_pubkey, approval_is_trial
  stale,          \* confirming requests reviewed more than ten minutes ago
  denying,        \* deny handlers that have seen their request pending
  seen,           \* how many messages the watcher has gone past
  step, chosen,   \* the watcher's place in a message, and the join request it read
  pass, snapshot, \* the reconciler's place, and the member list it was given
  heals, confirms,        \* the rows it will correct, and only confirm
  faults          \* history: the faults so far

chainVars == <<log, roster, closing, sent>>
rowVars == <<row, active, confirmed, recall, trial>>
orgVars == <<leader, closed, balance>>
requestVars == <<status, who, onTrial, stale, denying>>
watcherVars == <<seen, step, chosen>>
passVars == <<pass, snapshot, heals, confirms>>
vars == <<chainVars, rowVars, orgVars, requestVars, watcherVars, passVars, faults>>

Requests == 1..MaxRequests
Nobody == [role |-> "none", mod |-> FALSE]
Membership == [role : {"member", "leader"}, mod : BOOLEAN] \cup {Nobody}
Plain == [role |-> "member", mod |-> FALSE]
Message == [op : {"add", "caps", "remove", "transfer", "close"}, who : People, mod : BOOLEAN]
Open == {"pending", "confirming"}
NoRequest == [request |-> 0, trial |-> FALSE]

TypeOK ==
  /\ log \in Seq(Message) /\ roster \in [People -> Membership]
  /\ closing \in BOOLEAN /\ sent \subseteq People
  /\ row \in [People -> Membership]
  /\ active \subseteq People /\ confirmed \subseteq People
  /\ recall \subseteq People /\ trial \subseteq People
  /\ leader \in People /\ closed \in BOOLEAN /\ balance \in Nat
  /\ status \in [Requests -> {"none", "checked", "approved", "denied", "lost"} \cup Open]
  /\ who \in [Requests -> People \cup {NoOne}] /\ onTrial \in [Requests -> BOOLEAN]
  /\ stale \subseteq Requests /\ denying \subseteq Requests
  /\ seen \in Nat /\ chosen \in [request : Requests \cup {0}, trial : BOOLEAN]
  /\ step \in {"idle", "select", "insert", "approve",
               "promote", "point", "deactivate", "save"}
  /\ pass \in {"idle", "rows", "heal"}
  /\ snapshot \in [People -> Membership]
  /\ heals \subseteq People /\ confirms \subseteq People
  /\ faults \in Seq(FaultKinds)

\* orgs.CreateOrg has committed, and the chain knows the org.
Init ==
  /\ log = <<>> /\ closing = FALSE /\ sent = {}
  /\ roster = [p \in People |-> IF p = Founder THEN [role |-> "leader", mod |-> FALSE] ELSE Nobody]
  /\ row = roster
  /\ active = {Founder} /\ confirmed = {Founder} /\ recall = {Founder} /\ trial = {}
  /\ leader = Founder /\ closed = FALSE /\ balance = Credits
  /\ status = [r \in Requests |-> "none"] /\ who = [r \in Requests |-> NoOne]
  /\ onTrial = [r \in Requests |-> FALSE] /\ stale = {} /\ denying = {}
  /\ seen = 0 /\ step = "idle" /\ chosen = NoRequest
  /\ pass = "idle" /\ snapshot = [p \in People |-> Nobody] /\ heals = {} /\ confirms = {}
  /\ faults = <<>>

Fault(kind) ==
  /\ kind \in FaultKinds /\ Len(faults) < MaxFaults
  /\ faults' = Append(faults, kind)
Happened(kind) == \E i \in 1..Len(faults) : faults[i] = kind

(***************************************************************************)
(* The chain's org module and the wallets that talk to it.                 *)
(***************************************************************************)
OnChain(op, p, mod, newRoster) ==
  /\ op \in Acts /\ ~ closing /\ Len(log) < MaxMessages
  /\ log' = Append(log, [op |-> op, who |-> p, mod |-> mod])
  /\ roster' = newRoster
  /\ closing' = (op = "close")
  /\ sent' = IF op = "add" THEN sent \ {p} ELSE sent
  /\ UNCHANGED <<rowVars, orgVars, requestVars, watcherVars, passVars, faults>>

AddMember(p) ==
  /\ p \in sent /\ roster[p] = Nobody
  /\ OnChain("add", p, FALSE, [roster EXCEPT ![p] = Plain])
SetMemberCapabilities(p) ==
  /\ roster[p].role = "member"
  /\ OnChain("caps", p, ~ roster[p].mod, [roster EXCEPT ![p].mod = ~ @])
RemoveMember(p) ==
  /\ roster[p].role = "member"
  /\ OnChain("remove", p, FALSE, [roster EXCEPT ![p] = Nobody])
TransferLeadership(p) ==
  /\ roster[p].role = "member"
  /\ OnChain("transfer", p, FALSE,
       [q \in People |-> IF q = p THEN [roster[q] EXCEPT !.role = "leader"]
                         ELSE IF roster[q].role = "leader" THEN [roster[q] EXCEPT !.role = "member"]
                         ELSE roster[q]])
CloseOrg == OnChain("close", leader, FALSE, roster)

\* The wallet gives up, or the transaction is evicted.
AddNotIncluded(p) ==
  /\ p \in sent /\ sent' = sent \ {p}
  /\ UNCHANGED <<log, roster, closing, rowVars, orgVars, requestVars, watcherVars, passVars, faults>>

(***************************************************************************)
(* Applicants and reviewers.                                               *)
(***************************************************************************)
\* SubmitJoinRequest looks for an active row, a pending request and a denial
\* that is still cooling down, ...
CheckJoinRequest(r, p) ==
  /\ "join" \in Acts /\ status[r] = "none" /\ \A q \in Requests : q < r => status[q] # "none"
  /\ p \notin active
  /\ \A q \in Requests : who[q] = p => status[q] \notin {"pending", "denied"}
  /\ status' = [status EXCEPT ![r] = "checked"] /\ who' = [who EXCEPT ![r] = p]
  /\ UNCHANGED <<chainVars, rowVars, orgVars, onTrial, stale, denying, watcherVars, passVars, faults>>

\* ... and inserts the request.
SubmitJoinRequest(r) ==
  /\ status[r] = "checked"
  /\ status' = [status EXCEPT ![r] = "pending"]
  /\ UNCHANGED <<chainVars, rowVars, orgVars, who, onTrial, stale, denying, watcherVars, passVars, faults>>

\* Someone may review: an active leader or moderator.
CanReview == \E q \in active : row[q].role = "leader" \/ row[q].mod

\* The reviewer's wallet sends MsgAddMember next.
ApproveJoinRequest(r) ==
  /\ status[r] = "pending" /\ CanReview
  /\ status' = [status EXCEPT ![r] = "confirming"]
  /\ \E t \in BOOLEAN : onTrial' = [onTrial EXCEPT ![r] = t]
  /\ sent' = sent \cup {who[r]}
  /\ UNCHANGED <<log, roster, closing, rowVars, orgVars, who, stale, denying, watcherVars, passVars, faults>>

Revert(R) ==
  /\ status' = [r \in Requests |-> IF r \in R THEN "pending" ELSE status[r]]
  /\ onTrial' = [r \in Requests |-> r \notin R /\ onTrial[r]]
  /\ stale' = stale \ R

CancelJoinApproval(r) ==
  /\ status[r] = "confirming" /\ CanReview
  /\ Revert({r})
  /\ UNCHANGED <<chainVars, rowVars, orgVars, who, denying, watcherVars, passVars, faults>>

\* DenyJoinRequest: the status is read, ...
CheckDenial(r) ==
  /\ "deny" \in Acts /\ status[r] = "pending" /\ CanReview /\ denying' = denying \cup {r}
  /\ UNCHANGED <<chainVars, rowVars, orgVars, status, who, onTrial, stale, watcherVars, passVars, faults>>

\* ... and the UPDATE does not ask for it again.
DenyJoinRequest(r) ==
  /\ r \in denying /\ denying' = denying \ {r}
  /\ status' = [status EXCEPT ![r] = "denied"] /\ stale' = stale \ {r}
  /\ UNCHANGED <<chainVars, rowVars, orgVars, who, onTrial, watcherVars, passVars, faults>>

\* Ten minutes pass.
TenMinutes(r) ==
  /\ status[r] = "confirming" /\ r \notin stale /\ stale' = stale \cup {r}
  /\ UNCHANGED <<chainVars, rowVars, orgVars, status, who, onTrial, denying, watcherVars, passVars, faults>>

\* A row the leader writes ahead of the chain; any row at all is a conflict.
InviteMember(p) ==
  /\ "invite" \in Acts /\ row[p] = Nobody
  /\ row' = [row EXCEPT ![p] = Plain] /\ active' = active \cup {p}
  /\ sent' = sent \cup {p}
  /\ UNCHANGED <<log, roster, closing, confirmed, recall, trial, orgVars, requestVars,
                 watcherVars, passVars, faults>>

(***************************************************************************)
(* Recall, as the leader buys, grants and revokes it.                      *)
(***************************************************************************)
IsLeader == \E q \in active : row[q].role = "leader"

\* Variation: the pool's balance is not compared with the cost.
SetRecallOnCredit(p, on, cost) ==
  /\ "recall" \in Acts /\ IsLeader /\ row[p] # Nobody
  /\ balance' = balance - cost
  /\ recall' = IF on THEN recall \cup {p} ELSE recall \ {p}
  /\ UNCHANGED <<chainVars, row, active, confirmed, trial, leader, closed, requestVars,
                 watcherVars, passVars, faults>>

SetRecall(p, on, cost) ==
  /\ "recall" \in Acts /\ IsLeader /\ row[p] # Nobody /\ balance >= cost
  /\ balance' = balance - cost
  /\ recall' = IF on THEN recall \cup {p} ELSE recall \ {p}
  /\ UNCHANGED <<chainVars, row, active, confirmed, trial, leader, closed, requestVars,
                 watcherVars, passVars, faults>>

Subscribe(p) == SetRecall(p, TRUE, 1)
GrantFreeRecall(p) == SetRecall(p, TRUE, 0)
RevokeRecall(p) == SetRecall(p, FALSE, 0)

(***************************************************************************)
(* The chain watcher's bookkeeping, one statement a step.  "save" is the   *)
(* cursor; an error is logged, and the cursor moves past the message.      *)
(***************************************************************************)
Current == log[seen + 1]
Begins(op) == step = "idle" /\ seen < Len(log) /\ Current.op = op
GoesTo(s) ==
  /\ step' = s
  /\ UNCHANGED <<seen, chainVars, passVars, faults>>

\* Variation: the row of a former member stays inactive.
AddConfirms ==
  /\ Begins("add")
  /\ IF row[Current.who] = Nobody
     THEN GoesTo("select") /\ UNCHANGED rowVars
     ELSE /\ confirmed' = confirmed \cup {Current.who}
          /\ GoesTo("save") /\ UNCHANGED <<row, active, recall, trial>>
  /\ UNCHANGED <<orgVars, requestVars, chosen>>

\* processAddMemberBookkeeping: a row there is brought up to date.
AddUpdates ==
  /\ Begins("add")
  /\ LET p == Current.who IN
       IF row[p] = Nobody
       THEN GoesTo("select") /\ UNCHANGED rowVars
       ELSE /\ row' = [row EXCEPT ![p] = [Plain EXCEPT !.mod = Current.mod]]
            /\ active' = active \cup {p} /\ confirmed' = confirmed \cup {p}
            /\ recall' = IF p \in trial THEN recall \ {p} ELSE recall \cup {p}
            /\ trial' = trial
            /\ GoesTo("save")
  /\ UNCHANGED <<orgVars, requestVars, chosen>>

\* Confirming requests come first, and the newest among them.
IsFor(r, p) == who[r] = p /\ status[r] \in Open
IsBest(r, p) ==
  /\ IsFor(r, p)
  /\ \A q \in Requests : IsFor(q, p) =>
       /\ status[q] = "confirming" => status[r] = "confirming"
       /\ status[q] = status[r] => q <= r

\* Variation: the request is approved before the member row is written.
AddSelectsAndApproves ==
  /\ step = "select" /\ GoesTo("insert")
  /\ \/ /\ \A r \in Requests : ~ IsFor(r, Current.who)
        /\ UNCHANGED <<status, stale>>
     \/ \E r \in Requests :
          /\ IsBest(r, Current.who)
          /\ status' = [status EXCEPT ![r] = "approved"] /\ stale' = stale \ {r}
  /\ UNCHANGED <<chosen, rowVars, orgVars, who, onTrial, denying>>

AddSelects ==
  /\ step = "select" /\ GoesTo("insert")
  /\ \/ /\ \A r \in Requests : ~ IsFor(r, Current.who)
        /\ chosen' = NoRequest
     \/ \E r \in Requests :
          /\ IsBest(r, Current.who)
          /\ chosen' = [request |-> r, trial |-> onTrial[r]]
  /\ UNCHANGED <<rowVars, orgVars, requestVars>>

\* INSERT ... ON CONFLICT DO UPDATE.
AddInserts ==
  /\ step = "insert"
  /\ LET p == Current.who
         new == row[p] = Nobody
     IN /\ row' = [row EXCEPT ![p] = [Plain EXCEPT !.mod = Current.mod]]
        /\ active' = active \cup {p} /\ confirmed' = confirmed \cup {p}
        /\ trial' = IF new /\ chosen.trial THEN trial \cup {p} ELSE trial
        /\ recall' = IF new /\ ~ chosen.trial THEN recall \cup {p} ELSE recall
  /\ GoesTo(IF chosen.request = 0 THEN "save" ELSE "approve")
  /\ UNCHANGED <<orgVars, requestVars, chosen>>

AddApproves ==
  /\ step = "approve" /\ GoesTo("save")
  /\ status' = [status EXCEPT ![chosen.request] = "approved"]
  /\ stale' = stale \ {chosen.request}
  /\ UNCHANGED <<rowVars, orgVars, who, onTrial, denying, chosen>>

CapabilitiesUpdate ==
  /\ Begins("caps") /\ GoesTo("save")
  /\ LET p == Current.who IN
       IF row[p] = Nobody THEN UNCHANGED <<row, confirmed>>
       ELSE row' = [row EXCEPT ![p].mod = Current.mod] /\ confirmed' = confirmed \cup {p}
  /\ UNCHANGED <<active, recall, trial, orgVars, requestVars, chosen>>

RemoveUpdates ==
  /\ Begins("remove") /\ GoesTo("save")
  /\ active' = active \ {Current.who}
  /\ UNCHANGED <<row, confirmed, recall, trial, orgVars, requestVars, chosen>>

\* Variation: a leader who is there already ends the bookkeeping.
TransferDemotesOnce ==
  /\ Begins("transfer")
  /\ LET p == Current.who IN
       IF p \in active /\ row[p].role = "leader"
       THEN GoesTo("save") /\ UNCHANGED row
       ELSE /\ GoesTo("promote")
            /\ row' = [q \in People |->
                 IF row[q].role = "leader" THEN [row[q] EXCEPT !.role = "member"] ELSE row[q]]
  /\ UNCHANGED <<active, confirmed, recall, trial, orgVars, requestVars, chosen>>

TransferDemotes ==
  /\ Begins("transfer") /\ GoesTo("promote")
  /\ row' = [p \in People |-> IF row[p].role = "leader" THEN [row[p] EXCEPT !.role = "member"]
                              ELSE row[p]]
  /\ UNCHANGED <<active, confirmed, recall, trial, orgVars, requestVars, chosen>>
TransferPromotes ==
  /\ step = "promote" /\ GoesTo("point")
  /\ LET p == Current.who IN
       IF row[p] = Nobody THEN UNCHANGED <<row, active, confirmed>>
       ELSE /\ row' = [row EXCEPT ![p].role = "leader"]
            /\ active' = active \cup {p} /\ confirmed' = confirmed \cup {p}
  /\ UNCHANGED <<recall, trial, orgVars, requestVars, chosen>>
TransferPoints ==
  /\ step = "point" /\ GoesTo("save") /\ leader' = Current.who
  /\ UNCHANGED <<rowVars, closed, balance, requestVars, chosen>>

CloseCloses ==
  /\ Begins("close") /\ GoesTo("deactivate") /\ closed' = TRUE
  /\ UNCHANGED <<rowVars, leader, balance, requestVars, chosen>>
CloseDeactivates ==
  /\ step = "deactivate" /\ GoesTo("save") /\ active' = {}
  /\ UNCHANGED <<row, confirmed, recall, trial, orgVars, requestVars, chosen>>

SaveCursor ==
  /\ step = "save" /\ step' = "idle" /\ seen' = seen + 1 /\ chosen' = NoRequest
  /\ UNCHANGED <<chainVars, rowVars, orgVars, requestVars, passVars, faults>>

StatementFails ==
  /\ step # "save" /\ seen < Len(log) /\ Fault("update")
  /\ step' = "save" /\ chosen' = NoRequest
  /\ UNCHANGED <<seen, chainVars, rowVars, orgVars, requestVars, passVars>>
\* A block the watcher never fetches.
BlockMissed ==
  /\ step = "idle" /\ seen < Len(log) /\ Fault("miss")
  /\ seen' = seen + 1
  /\ UNCHANGED <<step, chosen, chainVars, rowVars, orgVars, requestVars, passVars>>

Watcher ==
  \/ AddUpdates \/ AddSelects \/ AddInserts \/ AddApproves
  \/ CapabilitiesUpdate \/ RemoveUpdates
  \/ TransferDemotes \/ TransferPromotes \/ TransferPoints
  \/ CloseCloses \/ CloseDeactivates \/ SaveCursor

(***************************************************************************)
(* ReconcileMembership: the chain's list first, the hub's rows after it.   *)
(***************************************************************************)
QueryChain ==
  /\ pass = "idle" /\ ~ closed /\ pass' = "rows" /\ snapshot' = roster
  /\ UNCHANGED <<heals, confirms, chainVars, rowVars, orgVars, requestVars, watcherVars, faults>>

OnBoth == {p \in active : snapshot[p] # Nobody}
\* Variation: capabilities are not compared.
LoadRoles ==
  /\ pass = "rows" /\ pass' = "heal"
  /\ heals' = {p \in OnBoth : row[p].role # snapshot[p].role}
  /\ confirms' = {p \in OnBoth : row[p].role = snapshot[p].role /\ p \notin confirmed}
  /\ UNCHANGED <<snapshot, chainVars, rowVars, orgVars, requestVars, watcherVars, faults>>

LoadRows ==
  /\ pass = "rows" /\ pass' = "heal"
  /\ heals' = {p \in OnBoth : row[p] # snapshot[p]}
  /\ confirms' = {p \in OnBoth : row[p] = snapshot[p] /\ p \notin confirmed}
  /\ UNCHANGED <<snapshot, chainVars, rowVars, orgVars, requestVars, watcherVars, faults>>

Corrects(p) ==
  /\ heals' = heals \ {p} /\ confirms' = confirms \ {p}
  /\ UNCHANGED <<pass, snapshot, chainVars, orgVars, requestVars, watcherVars>>
Heal(p) ==
  /\ pass = "heal" /\ p \in heals /\ Corrects(p)
  /\ row' = [row EXCEPT ![p] = snapshot[p]] /\ confirmed' = confirmed \cup {p}
  /\ UNCHANGED <<active, recall, trial, faults>>
Confirm(p) ==
  /\ pass = "heal" /\ p \in confirms /\ Corrects(p)
  /\ confirmed' = confirmed \cup {p}
  /\ UNCHANGED <<row, active, recall, trial, faults>>
HealFails(p) ==
  /\ pass = "heal" /\ p \in heals \cup confirms /\ Fault("pass") /\ Corrects(p)
  /\ UNCHANGED rowVars

PassEnds ==
  /\ pass' = "idle" /\ snapshot' = [p \in People |-> Nobody] /\ heals' = {} /\ confirms' = {}
  /\ UNCHANGED <<chainVars, rowVars, orgVars, watcherVars>>
\* Variation: whoever is active already needs no second look.
RevertStaleOfStrangers ==
  /\ pass = "heal" /\ heals \cup confirms = {}
  /\ Revert({r \in stale : status[r] = "confirming" /\ who[r] \notin active})
  /\ PassEnds /\ UNCHANGED <<who, denying, faults>>

RevertStale ==
  /\ pass = "heal" /\ heals \cup confirms = {}
  /\ Revert({r \in stale : status[r] = "confirming"})
  /\ PassEnds /\ UNCHANGED <<who, denying, faults>>
PassFails ==
  /\ pass = "rows" \/ (pass = "heal" /\ heals \cup confirms = {})
  /\ Fault("pass") /\ PassEnds /\ UNCHANGED requestVars

Reconcile ==
  \/ QueryChain \/ LoadRows \/ RevertStale
  \/ \E p \in People : Heal(p) \/ Confirm(p)

\* The hub restarts: no handler, no pass and no message in hand survives.
Crash ==
  /\ Fault("crash")
  /\ status' = [r \in Requests |-> IF status[r] = "checked" THEN "lost" ELSE status[r]]
  /\ denying' = {} /\ step' = "idle" /\ chosen' = NoRequest
  /\ pass' = "idle" /\ snapshot' = [p \in People |-> Nobody] /\ heals' = {} /\ confirms' = {}
  /\ UNCHANGED <<seen, who, onTrial, stale, chainVars, rowVars, orgVars>>

Next ==
  \/ \E p \in People :
       \/ AddMember(p) \/ SetMemberCapabilities(p) \/ RemoveMember(p) \/ TransferLeadership(p)
       \/ AddNotIncluded(p) \/ InviteMember(p)
       \/ Subscribe(p) \/ GrantFreeRecall(p) \/ RevokeRecall(p)
       \/ Heal(p) \/ Confirm(p) \/ HealFails(p)
  \/ \E r \in Requests :
       \/ \E p \in People : CheckJoinRequest(r, p)
       \/ SubmitJoinRequest(r) \/ ApproveJoinRequest(r) \/ CancelJoinApproval(r)
       \/ CheckDenial(r) \/ DenyJoinRequest(r) \/ TenMinutes(r)
  \/ CloseOrg \/ Watcher \/ StatementFails \/ BlockMissed
  \/ QueryChain \/ LoadRows \/ RevertStale \/ PassFails \/ Crash

Spec == Init /\ [][Next]_vars
\* The watcher and the ticker run for ever, and time passes; nothing makes
\* people or wallets act.
Fairness ==
  /\ WF_vars(Watcher) /\ WF_vars(Reconcile)
  /\ \A r \in Requests : WF_vars(TenMinutes(r))
FairSpec == Spec /\ Fairness

(***************************************************************************)
(* Properties.                                                             *)
(***************************************************************************)
\* Once the watcher has read all of the chain, with every statement run, the rows
\* agree with it: whoever was added last is an
\* active, confirmed member, whoever was removed last is not active, and the org
\* points to the leader the last transfer made, whatever the reviewers, the
\* reconciler and restarts did in between.
IsLast(i, ops, P) ==
  /\ log[i].op \in ops /\ log[i].who \in P
  /\ \A j \in i + 1..Len(log) : log[j].op \in ops => log[j].who \notin P
MembersFollowChain ==
  seen = Len(log) /\ ~ closed /\ ~ Happened("miss") /\ ~ Happened("update") =>
    \A i \in 1..Len(log) :
      /\ IsLast(i, {"add", "remove"}, {log[i].who}) =>
           IF log[i].op = "add" THEN log[i].who \in active \cap confirmed
           ELSE log[i].who \notin active
      /\ IsLast(i, {"transfer"}, People) => leader = log[i].who

\* No applicant is told "approved" before the member row is there, not even when
\* the hub restarts between the two statements.
ApprovedAreMembers ==
  \A r \in Requests : status[r] = "approved" => row[who[r]] # Nobody

\* Races between a pass that holds an old member list and the watcher can leave
\* two leaders or none, and so can a failed statement; in the end every active
\* member of the chain has the chain's role and capabilities again.
Agrees(p) == roster[p] # Nobody /\ p \in active => row[p] = roster[p] /\ p \in confirmed
RolesConverge == <>[](closed \/ \A p \in People : Agrees(p))

\* A request does not hang in confirming when the leader's MsgAddMember is lost.
ConfirmingSettles ==
  \A r \in Requests : status[r] = "confirming" ~> status[r] # "confirming" \/ closed

\* handlers/members.go: recall stays gated until somebody enables it explicitly.
RecallIsExplicit ==
  [][\A p \in People : p \in recall' \ recall => Subscribe(p) \/ GrantFreeRecall(p)]_vars

=============================================================================
