------------------------------ MODULE OrgLists ------------------------------
(***************************************************************************)
(* The pages that list things of the active organisation and act on them:  *)
(* its members, its join requests, its reports, its review queue and its   *)
(* billing.  Unlike the forms of OrgSettings they do not cancel a read     *)
(* when the organisation changes: whatever is answered is shown, and an    *)
(* action that ends after a change reads the organisation it was made for. *)
(* A behaviour follows one page.                                           *)
(***************************************************************************)
EXTENDS Naturals, FiniteSets

CONSTANTS UserOrgs,     \* organisations of the user
          Leads,        \* those the user leads
          NoOrg,        \* none is active, or nothing is shown
          MaxSwitches,  \* bound: changes of the active organisation
          MaxReads      \* bound: reads of one organisation in flight

VARIABLES
  page,        \* "members", "joins", "reports", "review" or "billing"
  current,     \* the active organisation
  switches,    \* changes so far
  identifying, \* (members) the organisations whose effect waits for the identity
  reads,       \* reads of each organisation in flight
  waiting,     \* the page is marked as loading
  rows,        \* the organisation whose rows (or address) the page holds
  strayed,     \* they came when another organisation was active
  kept,        \* the last read failed and left them
  unread,      \* (review) the organisation has changed and nothing was read for it
  staged,      \* (members) capabilities are ticked and not approved
  dialog,      \* (members) the dialog on screen
  acting,      \* the action in flight and its organisation
  connected    \* (review) the MCP server is reachable

vars == <<page, current, switches, identifying, reads, waiting, rows, strayed, kept, unread,
          staged, dialog, acting, connected>>
shownRows == <<rows, strayed, kept>>
asked == <<identifying, reads, waiting>>

Init ==
  /\ page \in {"members", "joins", "reports", "review", "billing"}
  /\ current = NoOrg /\ switches = 0
  /\ identifying = {} /\ reads = [o \in UserOrgs |-> 0]
  /\ waiting = FALSE /\ rows = NoOrg /\ strayed = FALSE /\ kept = FALSE /\ unread = FALSE
  /\ staged = FALSE /\ dialog = "none" /\ acting = {} /\ connected = FALSE

(***************************************************************************)
(* Reading.                                                                *)
(***************************************************************************)
\* Variation: the page is not marked.
BeginUnmarked(o) ==
  /\ reads[o] < MaxReads /\ reads' = [reads EXCEPT ![o] = @ + 1]
  /\ UNCHANGED waiting

Begin(o) ==
  /\ reads[o] < MaxReads /\ reads' = [reads EXCEPT ![o] = @ + 1]
  /\ waiting' = TRUE

RefreshMembers(o) == page = "members" /\ Begin(o)
LoadRequests(o) == page = "joins" /\ Begin(o)
RefreshReports(o) == page = "reports" /\ Begin(o)
LoadQueue(o) == page = "review" /\ Begin(o)
LoadFinances(o) == page = "billing" /\ Begin(o)

\* What a page reads on its own.
Load(o) == RefreshMembers(o) \/ LoadRequests(o) \/ RefreshReports(o) \/ LoadQueue(o)
           \/ LoadFinances(o)

\* The effects that follow a change.  The members' page asks for the identity first; the
\* review panel has read once since it was connected and reads no more.
MembersEffect(o) ==
  /\ page = "members" /\ UNCHANGED reads
  /\ IF o = NoOrg THEN waiting' = FALSE /\ UNCHANGED identifying
     ELSE identifying' = identifying \cup {o} /\ UNCHANGED waiting

ReviewEffect == page = "review" /\ UNCHANGED asked

ListEffect(o) ==
  /\ page \in {"joins", "reports", "billing"} /\ UNCHANGED identifying
  /\ IF o = NoOrg THEN waiting' = FALSE /\ UNCHANGED reads ELSE Load(o)

SetActiveOrg(o) ==
  /\ o # current /\ switches < MaxSwitches
  /\ current' = o /\ switches' = switches + 1
  /\ MembersEffect(o) \/ ReviewEffect \/ ListEffect(o)
  /\ unread' = (page = "review") /\ strayed' = FALSE /\ kept' = FALSE
  /\ UNCHANGED <<page, rows, staged, dialog, acting, connected>>

Identified(o) ==
  /\ o \in identifying /\ identifying' = identifying \ {o}
  /\ RefreshMembers(o)
  /\ UNCHANGED <<page, current, switches, shownRows, unread, staged, dialog, acting, connected>>

\* Any answer takes the mark away.  A failed read leaves the rows, but the join requests.
Answer(o) ==
  /\ reads[o] > 0 /\ reads' = [reads EXCEPT ![o] = @ - 1] /\ waiting' = FALSE
  /\ \/ rows' = o /\ strayed' = (o # current) /\ kept' = FALSE
     \/ page = "joins" /\ rows' = NoOrg /\ strayed' = FALSE /\ kept' = FALSE
     \/ page # "joins" /\ kept' = TRUE /\ UNCHANGED <<rows, strayed>>
  /\ UNCHANGED <<page, current, switches, identifying, unread, staged, dialog, acting, connected>>

\* The tabs of the requests and the reports, and the Refresh buttons.
Reread ==
  /\ current # NoOrg
  /\ \/ LoadRequests(current) \/ RefreshReports(current)
     \/ connected /\ ~waiting /\ LoadQueue(current)
  /\ unread' = FALSE
  /\ UNCHANGED <<page, current, switches, identifying, shownRows, staged, dialog, acting,
                 connected>>

\* The panel reads when the server is reached, if it knows the organisation by then ...
Connect ==
  /\ page = "review" /\ ~connected /\ connected' = TRUE
  /\ IF current = NoOrg THEN UNCHANGED <<reads, waiting, unread>>
     ELSE LoadQueue(current) /\ unread' = FALSE
  /\ UNCHANGED <<page, current, switches, identifying, shownRows, staged, dialog, acting>>

\* ... and forgets what it has when the server is gone.
Disconnect ==
  /\ page = "review" /\ connected /\ connected' = FALSE
  /\ rows' = NoOrg /\ strayed' = FALSE /\ kept' = FALSE
  /\ UNCHANGED <<page, current, switches, asked, unread, staged, dialog, acting>>

(***************************************************************************)
(* What the rows offer.                                                    *)
(***************************************************************************)
Leader == current \in Leads
MembersOffered == page = "members" /\ ~waiting /\ Leader
RequestsOffered == page = "joins" /\ ~waiting
ReportsOffered == page = "reports"
VotesOffered == page = "review" /\ connected /\ ~waiting
TopUpOffered == page = "billing" /\ ~waiting /\ Leader

Actionable ==
  /\ current # NoOrg /\ rows # NoOrg /\ dialog = "none"
  /\ \/ MembersOffered \/ RequestsOffered \/ ReportsOffered \/ VotesOffered \/ TopUpOffered

\* Choices are kept per member, whatever the organisation.
ToggleStagedCapability ==
  /\ Actionable /\ page = "members" /\ staged' = ~staged
  /\ UNCHANGED <<page, current, switches, asked, shownRows, unread, dialog, acting, connected>>

AskRemove == Actionable /\ page = "members" /\ dialog' = "remove"
AskClose == page = "members" /\ Leader /\ dialog = "none" /\ dialog' = "close"
CancelDialog == dialog # "none" /\ dialog' = "none"
Dialog ==
  /\ AskRemove \/ AskClose \/ CancelDialog
  /\ UNCHANGED <<page, current, switches, asked, shownRows, unread, staged, acting, connected>>

\* The actions, for the organisation that is active at the click.
Invite == page = "members" /\ Leader /\ dialog = "none"
Remove == dialog = "remove" /\ current # NoOrg
ApproveCapabilities == Actionable /\ page = "members" /\ staged
SetRecall == Actionable /\ page = "members"
CloseOrg == dialog = "close" /\ Leader
AnswerReport == Actionable /\ page = "reports"
Vote == Actionable /\ page = "review"
TopUp == Actionable /\ page = "billing"

May(a) ==
  \/ a = "invite" /\ Invite
  \/ a = "remove" /\ Remove
  \/ a = "caps" /\ ApproveCapabilities
  \/ a = "recall" /\ SetRecall
  \/ a = "close" /\ CloseOrg
  \/ a = "report" /\ AnswerReport
  \/ a = "vote" /\ Vote
  \/ a = "topup" /\ TopUp

Actions == {"invite", "remove", "caps", "recall", "close", "report", "vote", "topup"}

\* Bound: one action is in flight at a time.
Act(a) ==
  /\ acting = {} /\ May(a) /\ acting' = {<<a, current>>}
  /\ UNCHANGED <<page, current, switches, asked, shownRows, unread, staged, dialog, connected>>

\* When it has succeeded the page closes what it was asked in, and reads again.
Succeeded(a, o) ==
  /\ IF a = "topup" THEN UNCHANGED <<reads, waiting, unread>>
     ELSE Load(o) /\ unread' = (unread /\ o # current)
  /\ staged' = (staged /\ a # "caps")
  /\ dialog' = IF a \in {"remove", "close"} THEN "none" ELSE dialog

Failed == UNCHANGED <<reads, waiting, unread, staged, dialog>>

ActionEnds(a, o) ==
  /\ <<a, o>> \in acting /\ acting' = {}
  /\ Succeeded(a, o) \/ Failed
  /\ UNCHANGED <<page, current, switches, identifying, shownRows, connected>>

Next ==
  \/ \E o \in UserOrgs \cup {NoOrg} : SetActiveOrg(o)
  \/ \E o \in UserOrgs : Identified(o) \/ Answer(o)
  \/ Reread \/ Connect \/ Disconnect \/ ToggleStagedCapability \/ Dialog
  \/ \E a \in Actions : Act(a)
  \/ \E a \in Actions, o \in UserOrgs : ActionEnds(a, o)

Spec == Init /\ [][Next]_vars

(***************************************************************************)
(* Properties.                                                             *)
(***************************************************************************)
OrgIds == UserOrgs \cup {NoOrg}

TypeOK ==
  /\ page \in {"members", "joins", "reports", "review", "billing"}
  /\ current \in OrgIds /\ switches \in 0..MaxSwitches
  /\ identifying \subseteq UserOrgs /\ reads \in [UserOrgs -> 0..MaxReads]
  /\ waiting \in BOOLEAN /\ rows \in OrgIds /\ strayed \in BOOLEAN /\ kept \in BOOLEAN
  /\ unread \in BOOLEAN /\ staged \in BOOLEAN /\ dialog \in {"none", "remove", "close"}
  /\ acting \subseteq Actions \X UserOrgs /\ Cardinality(acting) <= 1
  /\ connected \in BOOLEAN

\* The rows a page lets the user act on are those of the active organisation, to which the
\* action is sent.  What is left are the page's own gaps: an answer that comes after a
\* change of the organisation, a failed read that leaves the rows, the review panel that
\* does not read for the new organisation, the members' page until it knows the identity,
\* and the reports, which stay on screen while the new ones are read.
RowsAreOfTheOrg ==
  /\ Actionable /\ ~strayed /\ ~kept /\ ~unread
  /\ identifying = {} /\ (page = "reports" => ~waiting)
  => rows = current
=============================================================================
