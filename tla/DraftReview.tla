---------------------------- MODULE DraftReview ----------------------------
(***************************************************************************)
(* The drafts of extracted sessions and their submission to the hub        *)
(* (lib/draft-store.ts, app/(dashboard)/sessions/extracted/page.tsx,       *)
(* components/sessions/memory-review.tsx, lib/wevibe-submit.ts).  The      *)
(* contributor picks memories of a draft and an organisation for each;     *)
(* they go out one organisation after the other, under hashes made afresh, *)
(* so the hub cannot tell a memory it has seen.  Meanwhile the session may *)
(* be extracted again, which replaces the draft, and the draft be shown a  *)
(* second time: `submitting' is state of the mounted component, while the  *)
(* sending goes on after the page is left, and no other page hears of it.  *)
(***************************************************************************)
EXTENDS Naturals, FiniteSets

CONSTANTS Items,         \* the memories of a draft
          Orgs,          \* the organisations of the contributor
          Views,         \* MemoryReview components, of one tab or of several
          MaxDrafts,     \* bound: extractions of the session
          MaxClicks,     \* bound: submissions
          ReviewFaults,  \* what may go wrong: "reply", "reload"
          MaxReviewFaults

VARIABLES
  heldDraft,    \* the extraction the session's draft holds, 0 for none
  made,         \* extractions of the session so far
  viewed,       \* the extraction each component shows, 0 when it is not mounted
  submission,   \* the submission each component has in flight, mounted or not
  submitter,    \* the component that submitted an extraction: one, now gone, or several
  clicks,       \* submissions so far
  accepted,     \* the memories the hub holds
  twice,        \* extractions with a memory the hub has got twice
  warnedOf,     \* extractions of which a submission was shown to have failed
  dropped,      \* drafts deleted by a submission, with the memories it was for
  reviewFaults  \* what has gone wrong so far

vars == <<heldDraft, made, viewed, submission, submitter, clicks, accepted, twice,
          warnedOf, dropped, reviewFaults>>

NoReview == [draft |-> 0, picked |-> {}, todo |-> {}, ok |-> {}]

Fault(k) == /\ k \in ReviewFaults /\ reviewFaults < MaxReviewFaults
            /\ reviewFaults' = reviewFaults + 1

Init ==
  /\ heldDraft = 0 /\ made = 0 /\ viewed = [v \in Views |-> 0]
  /\ submission = [v \in Views |-> NoReview]
  /\ submitter = [d \in 1..MaxDrafts |-> "none"] /\ clicks = 0
  /\ accepted = {} /\ twice = {} /\ warnedOf = {} /\ dropped = {} /\ reviewFaults = 0

\* saveDraft: an extraction of the session ends, for the first time or again.
SaveDraft ==
  /\ made < MaxDrafts
  /\ made' = made + 1 /\ heldDraft' = made'
  /\ UNCHANGED <<viewed, submission, submitter, clicks, accepted, twice,
                 warnedOf, dropped, reviewFaults>>

\* Variation: the draft stays.
KeepDraft == heldDraft' = heldDraft

DeleteDraft == heldDraft' = 0

(***************************************************************************)
(* The pages.                                                              *)
(***************************************************************************)
\* A component shows d from now on; one that is unmounted is never the same one again.
Render(v, d) ==
  /\ viewed' = [viewed EXCEPT ![v] = d]
  /\ submitter' = [e \in DOMAIN submitter |-> IF d = 0 /\ submitter[e] = v THEN "gone"
                                              ELSE submitter[e]]

\* reloadDrafts: a page opens, or the extraction queue moves.  Other pages that show the
\* drafts are not told.
ReloadDrafts(v) ==
  /\ viewed[v] # heldDraft /\ (viewed[v] # 0 \/ submission[v] = NoReview)
  /\ Render(v, heldDraft)
  /\ UNCHANGED <<heldDraft, made, submission, clicks, accepted, twice, warnedOf,
                 dropped, reviewFaults>>

\* The page is left for another of the dashboard's: a submission goes on.
LeavePage(v) ==
  /\ viewed[v] # 0 /\ Render(v, 0)
  /\ UNCHANGED <<heldDraft, made, submission, clicks, accepted, twice, warnedOf,
                 dropped, reviewFaults>>

\* Discard and Clear all, from a page that may show an earlier draft than the one deleted.
DiscardDraft(v) ==
  /\ viewed[v] # 0 /\ DeleteDraft /\ Render(v, 0)
  /\ UNCHANGED <<made, submission, clicks, accepted, twice, warnedOf, dropped,
                 reviewFaults>>

\* Another hub instance than the one the drafts were saved under: they are deleted unseen.
ReconcileBackendInstance ==
  /\ heldDraft # 0 /\ DeleteDraft
  /\ UNCHANGED <<made, viewed, submission, submitter, clicks, accepted, twice,
                 warnedOf, dropped, reviewFaults>>

(***************************************************************************)
(* Submission.                                                             *)
(***************************************************************************)
\* The Submit button needs a selection; while the component's own submission runs it is
\* disabled.
CanSubmit(v, P) == viewed[v] # 0 /\ P # {} /\ submission[v] = NoReview

\* The memories picked for each organisation.
Groups(P, org) == {{i \in P : org[i] = o} : o \in Orgs} \ {{}}

SubmitSelected(v, P) ==
  LET d == viewed[v]
  IN  /\ CanSubmit(v, P) /\ clicks < MaxClicks
      /\ clicks' = clicks + 1
      /\ \E org \in [P -> Orgs] :
           submission' = [submission EXCEPT ![v] =
                            [draft |-> d, picked |-> P, todo |-> Groups(P, org), ok |-> {}]]
      /\ submitter' = [submitter EXCEPT ![d] = IF @ \in {"none", v} THEN v ELSE "several"]
      /\ UNCHANGED <<heldDraft, made, viewed, accepted, twice, warnedOf, dropped, reviewFaults>>

\* The hub's side of submitMemoryBatchToHub: each memory of the group is accepted or refused.
Accept(v, A) ==
  LET M == {<<submission[v].draft, i>> : i \in A}
  IN  /\ accepted' = accepted \cup M
      /\ twice' = IF M \cap accepted = {} THEN twice ELSE twice \cup {submission[v].draft}

\* One group is submitted and its answer counted; an answer that is lost ends the whole
\* submission with the groups behind it unsent.
SubmitGroup(v, G) ==
  /\ G \in submission[v].todo
  /\ \E A \in SUBSET G :
       /\ Accept(v, A)
       /\ \/ /\ submission' = [submission EXCEPT ![v].todo = @ \ {G}, ![v].ok = @ \cup A]
             /\ UNCHANGED reviewFaults
          \/ /\ Fault("reply")
             /\ submission' = [submission EXCEPT ![v].todo = {}]
  /\ UNCHANGED <<heldDraft, made, viewed, submitter, clicks, warnedOf, dropped>>

\* Variation: it is enough that something was accepted.
SomeSuccess(v) == submission[v].ok # {}

\* Every error of the code's list is a memory that is not counted as submitted.
FullSuccess(v) == submission[v].ok = submission[v].picked

\* The end: the session's draft is deleted if everything picked was accepted, and the page
\* reads the drafts again; else a failure is shown.  Neither is seen once the page was left.
SubmitEnds(v) ==
  LET r == submission[v]
  IN  /\ r # NoReview /\ r.todo = {}
      /\ IF FullSuccess(v)
         THEN /\ DeleteDraft /\ Render(v, 0)
              /\ dropped' = IF heldDraft = 0 THEN dropped
                            ELSE dropped \cup {<<heldDraft, r.draft, r.picked>>}
              /\ UNCHANGED warnedOf
         ELSE /\ warnedOf' = IF viewed[v] = 0 THEN warnedOf ELSE warnedOf \cup {r.draft}
              /\ UNCHANGED <<heldDraft, viewed, submitter, dropped>>
      /\ submission' = [submission EXCEPT ![v] = NoReview]
      /\ UNCHANGED <<made, clicks, accepted, twice, reviewFaults>>

\* The browser's page is reloaded during a submission, which dies with it: the draft is kept
\* in localStorage.
Reload(v) ==
  /\ submission[v] # NoReview /\ Fault("reload") /\ Render(v, 0)
  /\ submission' = [submission EXCEPT ![v] = NoReview]
  /\ UNCHANGED <<heldDraft, made, clicks, accepted, twice, warnedOf, dropped>>

Next ==
  \/ SaveDraft \/ ReconcileBackendInstance
  \/ \E v \in Views :
       \/ ReloadDrafts(v) \/ LeavePage(v) \/ DiscardDraft(v) \/ SubmitEnds(v) \/ Reload(v)
       \/ \E P \in SUBSET Items : SubmitSelected(v, P)
       \/ \E G \in SUBSET Items : SubmitGroup(v, G)

Spec == Init /\ [][Next]_vars

(***************************************************************************)
(* Properties.                                                             *)
(***************************************************************************)
TypeOK ==
  /\ made \in 0..MaxDrafts /\ heldDraft \in 0..made
  /\ viewed \in [Views -> 0..made]
  /\ submitter \in [1..MaxDrafts -> Views \cup {"none", "gone", "several"}]
  /\ DOMAIN submission = Views
  /\ \A v \in Views : /\ submission[v].draft \in 0..made /\ submission[v].picked \subseteq Items
                      /\ submission[v].ok \subseteq submission[v].picked
                      /\ submission[v].todo \subseteq SUBSET submission[v].picked
  /\ accepted \subseteq (1..made) \X Items
  /\ twice \subseteq 1..made /\ warnedOf \subseteq 1..made
  /\ clicks \in 0..MaxClicks /\ reviewFaults \in 0..MaxReviewFaults

\* The hub gets a memory of a draft twice only if the contributor was shown that a submission
\* of that draft had not gone through, or clicked Submit on it in a second component: in
\* another tab, or after leaving or reloading the page on which it was submitted first.
TwiceOnlyAfterFailure == \A d \in twice : d \in warnedOf \/ submitter[d] = "several"

\* A submission deletes a draft only when the hub holds every memory that was picked; the
\* draft it deletes is the one it read unless the session was extracted again meanwhile.
DeletedAfterAcceptance ==
  \A d \in dropped :
    /\ \A i \in d[3] : <<d[2], i>> \in accepted
    /\ d[1] # d[2] => d[1] > d[2]

\* The drafts the contributor sees agree with what the hub holds: a component neither sends a
\* memory again unknowingly, nor is one lost with its draft.
DraftsMatchHub == TwiceOnlyAfterFailure /\ DeletedAfterAcceptance
=============================================================================
