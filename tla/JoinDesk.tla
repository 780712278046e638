------------------------------ MODULE JoinDesk ------------------------------
(***************************************************************************)
(* One request to join, reviewed on the join request pages of several      *)
(* reviewers (app/(dashboard)/join-requests/page.tsx).  A page first asks  *)
(* the hub to mark the request as confirming, then broadcasts MsgAddMember *)
(* with the reviewer's wallet, and asks the hub to take the mark back when *)
(* the broadcast fails or is unsure; the hub's watcher approves the        *)
(* request when the message is in a block.  Membership has the hub's side  *)
(* with its restarts; here the steps of the pages are told apart.          *)
(***************************************************************************)
EXTENDS Naturals, FiniteSets

CONSTANTS Desks,         \* reviewers' pages
          JoinFaults,    \* what may go wrong: "reply", "reload"
          MaxJoinFaults,
          MaxApprovals   \* bound: approvals begun

VARIABLES
  request,    \* the request's status on the hub
  tier,       \* the tier its approval asks for
  row,        \* the tier of the hub's member row
  listed,     \* the desks whose list shows the request, pending
  desk,       \* where each desk is
  call,       \* the approval each desk is busy with, or 0
  choice,     \* the tier of each approval
  relayed,    \* the approvals whose message may still be included
  included,   \* those whose message was
  joined,     \* the requester is a member on the chain
  event,      \* the watcher has not handled that yet
  landed,     \* the tier of the approval that sent the message that was included
  loosened,   \* an approval was undone while its message could still be included
  abandoned,  \* a desk has left the request confirming, and said so or was reloaded
  approvals,  \* approvals begun
  joinFaults  \* what has gone wrong so far

vars == <<request, tier, row, listed, desk, call, choice, relayed, included, joined, event,
          landed, loosened, abandoned, approvals, joinFaults>>
hub == <<request, tier, row>>
desks == <<desk, call>>
chain == <<relayed, included, joined, event, landed>>

Fault(k) == k \in JoinFaults /\ joinFaults < MaxJoinFaults /\ joinFaults' = joinFaults + 1

Init ==
  /\ request = "pending" /\ tier = "none" /\ row = "none" /\ listed = {}
  /\ desk = [d \in Desks |-> "idle"] /\ call = [d \in Desks |-> 0]
  /\ choice = [n \in 1..MaxApprovals |-> "member"]
  /\ relayed = {} /\ included = {} /\ joined = FALSE /\ event = FALSE /\ landed = "none"
  /\ loosened = FALSE /\ abandoned = FALSE /\ approvals = 0 /\ joinFaults = 0

Goto(d, p) ==
  /\ desk' = [desk EXCEPT ![d] = p]
  /\ call' = IF p = "idle" THEN [call EXCEPT ![d] = 0] ELSE call

\* A message that was sent, or is about to be, may yet make the requester a member.
Underway ==
  relayed # {} \/ event \/ \E d \in Desks : desk[d] \in {"broadcasting", "polling"}

(***************************************************************************)
(* The page.                                                               *)
(***************************************************************************)
\* The list of pending requests is read when the page or its tab is opened.
LoadRequests(d) ==
  /\ listed' = IF request = "pending" THEN listed \cup {d} ELSE listed \ {d}
  /\ UNCHANGED <<hub, desks, choice, chain, loosened, abandoned, approvals, joinFaults>>

Offered(d) == d \in listed /\ desk[d] = "idle"

HandleApprove(d) ==
  /\ Offered(d) /\ approvals < MaxApprovals /\ approvals' = approvals + 1
  /\ desk' = [desk EXCEPT ![d] = "approving"] /\ call' = [call EXCEPT ![d] = approvals']
  /\ \E t \in {"member", "trial"} : choice' = [choice EXCEPT ![approvals'] = t]
  /\ UNCHANGED <<hub, listed, chain, loosened, abandoned, joinFaults>>

HandleDeny(d) ==
  /\ Offered(d) /\ Goto(d, "denying")
  /\ UNCHANGED <<hub, listed, choice, chain, loosened, abandoned, approvals, joinFaults>>

\* The user rejects, the node refuses, or the message is with the chain.
Broadcast(d) ==
  /\ desk[d] = "broadcasting"
  /\ \/ Goto(d, "cancelling") /\ UNCHANGED <<relayed, joinFaults>>
     \/ Goto(d, "polling") /\ relayed' = relayed \cup {call[d]} /\ UNCHANGED joinFaults
     \/ Goto(d, "cancelling") /\ relayed' = relayed \cup {call[d]} /\ Fault("reply")
  /\ UNCHANGED <<hub, listed, choice, included, joined, event, landed, loosened, abandoned,
                 approvals>>

\* A message that is not in a block after thirty seconds counts as failed, too.
BroadcastEnds(d) ==
  /\ desk[d] = "polling"
  /\ IF call[d] \in included THEN Goto(d, "idle") /\ listed' = listed \ {d}
     ELSE Goto(d, "cancelling") /\ UNCHANGED listed
  /\ UNCHANGED <<hub, choice, chain, loosened, abandoned, approvals, joinFaults>>

Reload(d) ==
  /\ Fault("reload") /\ Goto(d, "idle") /\ listed' = listed \ {d}
  /\ abandoned' = (abandoned \/ desk[d] \in {"broadcasting", "polling", "cancelling"})
  /\ UNCHANGED <<hub, choice, chain, loosened, approvals>>

(***************************************************************************)
(* The hub.                                                                *)
(***************************************************************************)
Confirming(d) == request' = "confirming" /\ tier' = choice[call[d]]

\* Variation: the UPDATE does not ask for a pending request.
ConfirmAnything(d) == Confirming(d) /\ Goto(d, "broadcasting")

ConfirmPending(d) ==
  IF request = "pending" THEN Confirming(d) /\ Goto(d, "broadcasting")
  ELSE Goto(d, "idle") /\ UNCHANGED <<request, tier>>

\* The hub may fail before it marks the request; when the reply is lost, the page takes the
\* request for not approved.
ApproveJoinRequest(d) ==
  /\ desk[d] = "approving"
  /\ \/ ConfirmPending(d) /\ UNCHANGED <<abandoned, joinFaults>>
     \/ Goto(d, "idle") /\ UNCHANGED <<request, tier, abandoned, joinFaults>>
     \/ /\ request = "pending" /\ Confirming(d) /\ Goto(d, "idle")
        /\ abandoned' = TRUE /\ Fault("reply")
  /\ UNCHANGED <<row, listed, choice, chain, loosened, approvals>>

Revert == request' = "pending" /\ tier' = "none"

\* The mark is taken back, whoever has set it; or the call fails, and the page says so.
CancelJoinApproval(d) ==
  /\ desk[d] = "cancelling" /\ Goto(d, "idle")
  /\ \/ /\ request = "confirming" /\ Revert /\ loosened' = (loosened \/ Underway)
        /\ UNCHANGED <<abandoned, joinFaults>>
     \/ request # "confirming" /\ UNCHANGED <<request, tier, loosened, abandoned, joinFaults>>
     \/ Fault("reply") /\ abandoned' = TRUE /\ UNCHANGED <<request, tier, loosened>>
  /\ UNCHANGED <<row, listed, choice, chain, approvals>>

\* DenyJoinRequest reads the status, or fails, ...
CheckDenial(d) ==
  /\ desk[d] = "denying"
  /\ \/ request = "pending" /\ Goto(d, "checked")
     \/ Goto(d, "idle")
  /\ UNCHANGED <<hub, listed, choice, chain, loosened, abandoned, approvals, joinFaults>>

\* ... and writes without asking for it again.
DenyJoinRequest(d) ==
  /\ desk[d] = "checked" /\ Goto(d, "idle") /\ listed' = listed \ {d}
  /\ request' = "denied" /\ loosened' = (loosened \/ Underway \/ joined)
  /\ UNCHANGED <<tier, row, choice, chain, abandoned, approvals, joinFaults>>

\* ReconcileMembership: the request has been confirming for ten minutes.
RevertStale ==
  /\ request = "confirming" /\ Revert /\ abandoned' = FALSE
  /\ loosened' = (loosened \/ Underway)
  /\ UNCHANGED <<row, listed, desks, choice, chain, approvals, joinFaults>>

\* The watcher handles the new member: an open request is approved and gives the tier.
AddMember ==
  /\ event /\ event' = FALSE
  /\ IF request \in {"pending", "confirming"}
     THEN request' = "approved" /\ row' = IF tier = "none" THEN "member" ELSE tier
     ELSE row' = "member" /\ UNCHANGED request
  /\ UNCHANGED <<tier, listed, desks, choice, relayed, included, joined, landed, loosened,
                 abandoned, approvals, joinFaults>>

(***************************************************************************)
(* The chain.                                                              *)
(***************************************************************************)
\* A member is added once.
Include(n) ==
  /\ n \in relayed /\ relayed' = relayed \ {n}
  /\ \/ /\ ~joined /\ joined' = TRUE /\ event' = TRUE
        /\ landed' = choice[n] /\ included' = included \cup {n}
     \/ UNCHANGED <<joined, event, landed, included>>
  /\ UNCHANGED <<hub, listed, desks, choice, loosened, abandoned, approvals, joinFaults>>

Next ==
  \/ RevertStale \/ AddMember
  \/ \E n \in 1..MaxApprovals : Include(n)
  \/ \E d \in Desks :
       \/ LoadRequests(d) \/ HandleApprove(d) \/ HandleDeny(d) \/ Broadcast(d)
       \/ BroadcastEnds(d) \/ Reload(d) \/ ApproveJoinRequest(d) \/ CancelJoinApproval(d)
       \/ CheckDenial(d) \/ DenyJoinRequest(d)

Spec == Init /\ [][Next]_vars

(***************************************************************************)
(* Properties.                                                             *)
(***************************************************************************)
Tiers == {"none", "member", "trial"}
Phases == {"idle", "approving", "broadcasting", "polling", "cancelling", "denying", "checked"}

TypeOK ==
  /\ request \in {"pending", "confirming", "approved", "denied"}
  /\ tier \in Tiers /\ row \in Tiers /\ landed \in Tiers
  /\ listed \subseteq Desks
  /\ relayed \subseteq 1..MaxApprovals /\ included \subseteq 1..MaxApprovals
  /\ desk \in [Desks -> Phases] /\ call \in [Desks -> 0..MaxApprovals]
  /\ choice \in [1..MaxApprovals -> {"member", "trial"}]
  /\ joined \in BOOLEAN /\ event \in BOOLEAN /\ loosened \in BOOLEAN /\ abandoned \in BOOLEAN
  /\ approvals \in 0..MaxApprovals /\ joinFaults \in 0..MaxJoinFaults

\* Whatever several reviewers do with a request at a time: a new member has the tier of the
\* approval whose message made him one, a denied requester is none, and the request is not
\* left confirming with nothing under way.  The one exception is an approval that was
\* undone or overridden while its message could still be included; and a page that could
\* not take its mark back leaves the request confirming for ten minutes.
ApprovalMatchesChain ==
  /\ row # "none" => row = landed \/ loosened
  /\ request = "denied" => ~joined \/ loosened
  /\ request = "confirming" =>
       Underway \/ abandoned \/ \E d \in Desks : desk[d] = "cancelling"
=============================================================================
