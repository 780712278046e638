----------------------------- MODULE PageProofs -----------------------------
(***************************************************************************)
(* Proofs about pages of one user, for every number of drafts, tabs, keys, *)
(* organisations, calls, jobs and faults: the review of an extraction's    *)
(* drafts, the provider settings, the identity, the purchase of an         *)
(* organisation, its settings and lists, the sessions page, the chain      *)
(* client and the extraction queue. At the end are the types of their      *)
(* variables, and with those of the other modules TypeOK of the whole      *)
(* dashboard.                                                              *)
(***************************************************************************)
EXTENDS DeskProofs

(***************************************************************************)
(* Draft review.                                                           *)
(***************************************************************************)
Reviews == [draft : Nat, picked : SUBSET Items, todo : SUBSET SUBSET Items, ok : SUBSET Items]

Submitters == Views \cup {"none", "gone", "several"}

\* The drafts are numbered up to the bound, and a submission is about one of them.
TypeDR ==
  /\ made \in 0..MaxDrafts /\ heldDraft \in {0, made}
  /\ viewed \in [Views -> 0..MaxDrafts] /\ \A v \in Views : viewed[v] <= made
  /\ submission \in [Views -> Reviews]
  /\ \A v \in Views : submission[v].draft <= made
  /\ \A v \in Views : submission[v].ok \subseteq submission[v].picked
  /\ \A v \in Views : \A G \in submission[v].todo : G \subseteq submission[v].picked
  /\ \A v \in Views : submission[v] # DR!NoReview => submission[v].draft # 0
  /\ submitter \in [1..MaxDrafts -> Submitters]
  /\ \A d \in 1..MaxDrafts : d > made => submitter[d] = "none"
  /\ accepted \subseteq (1..made) \X Items
  /\ twice \subseteq 1..made /\ warnedOf \subseteq 1..made
  /\ clicks \in 0..MaxClicks /\ reviewFaults \in 0..MaxReviewFaults

\* A draft the contributor has reason to think the hub may hold.
Excused(d) == d \in warnedOf \/ submitter[d] = "several"

\* What the hub holds of the submission a component has under way: what was counted, and, but
\* for an excused draft, nothing of the groups that are still to be sent.
Underway ==
  \A v \in Views : submission[v] # DR!NoReview =>
    LET d == submission[v].draft
    IN  /\ submitter[d] \in {v, "gone", "several"}
        /\ \A i \in submission[v].ok : <<d, i>> \in accepted
        /\ \A G, H \in submission[v].todo : G = H \/ G \cap H = {}
        /\ Excused(d) \/ \A G \in submission[v].todo : \A i \in G : <<d, i>> \notin accepted

\* Two components submit one draft only if it counts as submitted from several.
Alone ==
  \A v, w \in Views :
    v # w /\ submission[v] # DR!NoReview /\ submission[v].draft = submission[w].draft
      => submitter[submission[v].draft] = "several"

\* The hub holds nothing of a draft nobody has submitted.
Untouched == \A d \in 1..made : submitter[d] = "none" => \A i \in Items : <<d, i>> \notin accepted

\* The one component that has submitted a draft is mounted, and still at it unless its failure
\* was shown.
Own ==
  \A v \in Views, d \in 1..made :
    submitter[d] = v => /\ viewed[v] # 0
                        /\ d \in warnedOf \/ submission[v].draft = d

InvDR == TypeDR /\ Underway /\ Alone /\ Untouched /\ Own /\ DR!DraftsMatchHub

\* No submission, as a record of that shape.
LEMMA NoReviewIsReview ==
  /\ DR!NoReview \in Reviews /\ DR!NoReview.draft = 0
  /\ DR!NoReview.todo = {} /\ DR!NoReview.ok = {} /\ DR!NoReview.picked = {}
  BY DEF DR!NoReview, Reviews

\* It holds before the first extraction.
LEMMA InitDR == DR!Init => InvDR
<1> SUFFICES ASSUME DR!Init PROVE InvDR
  OBVIOUS
<1> USE NoReviewIsReview DEF DR!Init
<1>1. TypeDR
  BY BoundsAssumption DEF TypeDR, Submitters
<1>2. Underway /\ Alone /\ Untouched /\ Own
  BY <1>1 DEF Underway, Alone, Untouched, Own
<1>3. DR!DraftsMatchHub
  BY DEF DR!DraftsMatchHub, DR!TwiceOnlyAfterFailure, DR!DeletedAfterAcceptance
<1> QED
  BY <1>1, <1>2, <1>3 DEF InvDR

\* What a component's unmounting changes of the record of who submitted what.
LEMMA Rendering ==
  ASSUME TypeDR, NEW v \in Views, NEW d \in {0, heldDraft}, DR!Render(v, d)
  PROVE  /\ viewed' \in [Views -> 0..MaxDrafts] /\ \A w \in Views : viewed'[w] <= made
         /\ submitter' \in [1..MaxDrafts -> Submitters]
         /\ viewed'[v] = d /\ \A w \in Views : w # v => viewed'[w] = viewed[w]
         /\ \A e \in 1..MaxDrafts :
              \/ submitter'[e] = submitter[e] /\ (d = 0 => submitter[e] # v)
              \/ d = 0 /\ submitter[e] = v /\ submitter'[e] = "gone"
<1>1. /\ viewed \in [Views -> 0..MaxDrafts] /\ \A w \in Views : viewed[w] <= made
      /\ submitter \in [1..MaxDrafts -> Submitters] /\ d \in 0..MaxDrafts /\ d <= made
      /\ DOMAIN submitter = 1..MaxDrafts
  BY BoundsAssumption DEF TypeDR
<1>2. /\ viewed' = [viewed EXCEPT ![v] = d]
      /\ submitter' = [e \in 1..MaxDrafts |-> IF d = 0 /\ submitter[e] = v THEN "gone"
                                              ELSE submitter[e]]
  BY <1>1 DEF DR!Render
<1> QED
  BY <1>1, <1>2 DEF Submitters

\* A page that shows the drafts, is left, or deletes the draft it shows, keeps the invariant,
\* and so does a submission's end that was shown to have failed or has not left the component.
LEMMA PagesDR ==
  ASSUME InvDR, NEW v \in Views, NEW d \in {0, heldDraft}, DR!Render(v, d),
         heldDraft' \in {0, heldDraft}, UNCHANGED <<made, clicks, accepted, twice, warnedOf>>,
         reviewFaults' \in 0..MaxReviewFaults,
         \/ UNCHANGED submission
         \/ d = 0 /\ submission' = [submission EXCEPT ![v] = DR!NoReview],
         viewed[v] = 0 => \A e \in 1..made : submitter[e] # v
  PROVE  TypeDR' /\ Underway' /\ Alone' /\ Untouched' /\ Own' /\ DR!TwiceOnlyAfterFailure'
<1> USE ViewsAssumption
<1>0. TypeDR /\ made \in 0..MaxDrafts /\ 1..made \subseteq 1..MaxDrafts
  BY BoundsAssumption DEF InvDR, TypeDR
<1>1. /\ viewed' \in [Views -> 0..MaxDrafts] /\ \A w \in Views : viewed'[w] <= made
      /\ submitter' \in [1..MaxDrafts -> Submitters]
      /\ viewed'[v] = d /\ \A w \in Views : w # v => viewed'[w] = viewed[w]
  BY <1>0, Rendering
<1>2. \A e \in 1..MaxDrafts :
              \/ submitter'[e] = submitter[e] /\ (d = 0 => submitter[e] # v)
              \/ d = 0 /\ submitter[e] = v /\ submitter'[e] = "gone"
  BY <1>0, Rendering
<1>3. /\ submission' \in [Views -> Reviews]
      /\ \A w \in Views : \/ submission'[w] = submission[w]
                          \/ w = v /\ d = 0 /\ submission'[w] = DR!NoReview
  BY <1>0, NoReviewIsReview DEF TypeDR
<1>4. TypeDR'
  <2>1. \A w \in Views : /\ submission'[w].draft <= made
                         /\ submission'[w].ok \subseteq submission'[w].picked
                         /\ \A G \in submission'[w].todo : G \subseteq submission'[w].picked
                         /\ submission'[w] # DR!NoReview => submission'[w].draft # 0
    BY <1>0, <1>3, NoReviewIsReview DEF TypeDR
  <2>2. \A e \in 1..MaxDrafts : e > made => submitter'[e] = "none"
    BY <1>0, <1>2 DEF TypeDR
  <2> QED
    BY <1>0, <1>1, <1>3, <2>1, <2>2 DEF TypeDR
<1>5. \A w \in Views : submission[w] # DR!NoReview => submission[w].draft \in 1..made
  BY <1>0 DEF TypeDR, Reviews
<1>6. \A e \in 1..MaxDrafts : Excused(e) => Excused(e)'
  BY <1>2 DEF Excused
<1>7. Underway'
  BY <1>0, <1>2, <1>3, <1>5, <1>6 DEF InvDR, Underway
<1>8. Alone'
  BY <1>0, <1>2, <1>3, <1>5, NoReviewIsReview DEF InvDR, Alone
<1>9. Untouched'
  BY <1>0, <1>2 DEF InvDR, Untouched
<1>10. Own'
  <2> SUFFICES ASSUME NEW w \in Views, NEW e \in 1..made, submitter'[e] = w
               PROVE  viewed'[w] # 0 /\ (e \in warnedOf \/ submission'[w].draft = e)
    BY DEF Own
  <2>1. submitter[e] = w /\ (d = 0 => w # v)
    BY <1>0, <1>2
  <2>2. viewed[w] # 0 /\ (e \in warnedOf \/ submission[w].draft = e)
    BY <2>1 DEF InvDR, Own
  <2> QED
    BY <1>1, <1>3, <2>1, <2>2
<1>11. DR!TwiceOnlyAfterFailure'
  BY <1>0, <1>2, <1>6 DEF InvDR, TypeDR, DR!DraftsMatchHub, DR!TwiceOnlyAfterFailure, Excused
<1> QED
  BY <1>4, <1>7, <1>8, <1>9, <1>10, <1>11

\* Every answer of the hub, page, extraction and deletion keeps it.
LEMMA NextDR == InvDR /\ [DR!Next]_ofDR => InvDR'
<1> SUFFICES ASSUME InvDR, [DR!Next]_ofDR PROVE InvDR'
  OBVIOUS
<1> USE ViewsAssumption
<1>p. /\ TypeDR /\ made \in 0..MaxDrafts /\ 1..made \subseteq 1..MaxDrafts
      /\ \A w \in Views : submission[w] # DR!NoReview => submission[w].draft \in 1..made
  BY BoundsAssumption DEF InvDR, TypeDR, Reviews
<1>q. ASSUME dropped' = dropped, UNCHANGED accepted PROVE DR!DeletedAfterAcceptance'
  BY <1>q DEF InvDR, DR!DraftsMatchHub, DR!DeletedAfterAcceptance
<1>f. ASSUME NEW k, DR!Fault(k) PROVE reviewFaults' \in 0..MaxReviewFaults
  BY <1>f, BoundsAssumption DEF InvDR, TypeDR, DR!Fault
<1>0. CASE UNCHANGED ofDR
  BY <1>0 DEF ofDR, InvDR, TypeDR, Underway, Excused, Alone, Untouched, Own, DR!DraftsMatchHub,
              DR!TwiceOnlyAfterFailure, DR!DeletedAfterAcceptance
<1>1. CASE DR!SaveDraft
  <2>1. /\ made' = made + 1 /\ heldDraft' = made' /\ made' \in 0..MaxDrafts
        /\ UNCHANGED <<viewed, submission, submitter, clicks, accepted, twice, warnedOf, dropped,
                       reviewFaults>>
    BY <1>1, <1>p, BoundsAssumption DEF DR!SaveDraft
  <2>2. TypeDR'
    BY <1>p, <2>1 DEF TypeDR, Reviews
  <2>3. Underway' /\ Alone'
    BY <2>1 DEF InvDR, Underway, Alone, Excused
  <2>4. made' \notin 1..made /\ 1..made' = (1..made) \cup {made'}
    BY <1>p, <2>1
  <2>5. \A i \in Items : <<made', i>> \notin accepted
    BY <1>p, <2>4 DEF TypeDR
  <2>6. submitter[made'] = "none"
    BY <1>p, <2>1 DEF TypeDR
  <2>7. Untouched' /\ Own'
    BY <2>1, <2>4, <2>5, <2>6 DEF InvDR, Untouched, Own
  <2>8. DR!TwiceOnlyAfterFailure'
    BY <2>1 DEF InvDR, DR!DraftsMatchHub, DR!TwiceOnlyAfterFailure
  <2> QED
    BY <1>q, <2>1, <2>2, <2>3, <2>7, <2>8 DEF InvDR, DR!DraftsMatchHub
<1>2. CASE DR!ReconcileBackendInstance
  <2>1. heldDraft' = 0 /\ UNCHANGED <<made, viewed, submission, submitter, clicks, accepted,
                                     twice, warnedOf, dropped, reviewFaults>>
    BY <1>2 DEF DR!ReconcileBackendInstance, DR!DeleteDraft
  <2> QED
    BY <2>1 DEF InvDR, TypeDR, Underway, Excused, Alone, Untouched, Own, DR!DraftsMatchHub,
                DR!TwiceOnlyAfterFailure, DR!DeletedAfterAcceptance
<1>3. ASSUME NEW v \in Views, DR!ReloadDrafts(v) PROVE InvDR'
  <2>1. /\ DR!Render(v, heldDraft)
        /\ UNCHANGED <<heldDraft, made, submission, clicks, accepted, twice, warnedOf, dropped,
                       reviewFaults>>
    BY <1>3 DEF DR!ReloadDrafts
  <2>2. viewed[v] = 0 => \A e \in 1..made : submitter[e] # v
    BY DEF InvDR, Own
  <2>3. reviewFaults' \in 0..MaxReviewFaults
    BY <2>1 DEF InvDR, TypeDR
  <2> QED
    BY <1>q, <2>1, <2>2, <2>3, PagesDR DEF InvDR, DR!DraftsMatchHub
<1>4. ASSUME NEW v \in Views, DR!LeavePage(v) \/ DR!DiscardDraft(v) \/ DR!Reload(v) PROVE InvDR'
  <2>1. /\ DR!Render(v, 0) /\ heldDraft' \in {0, heldDraft}
        /\ UNCHANGED <<made, clicks, accepted, twice, warnedOf, dropped>>
        /\ \/ UNCHANGED submission
           \/ submission' = [submission EXCEPT ![v] = DR!NoReview]
    BY <1>4 DEF DR!LeavePage, DR!DiscardDraft, DR!DeleteDraft, DR!Reload
  <2>2. viewed[v] = 0 => \A e \in 1..made : submitter[e] # v
    BY DEF InvDR, Own
  <2>3. reviewFaults' \in 0..MaxReviewFaults
    BY <1>4, <1>f, <1>p DEF TypeDR, DR!LeavePage, DR!DiscardDraft, DR!Reload
  <2> QED
    BY <1>q, <2>1, <2>2, <2>3, PagesDR DEF InvDR, DR!DraftsMatchHub
<1>5. ASSUME NEW v \in Views, NEW P \in SUBSET Items, DR!SubmitSelected(v, P) PROVE InvDR'
  <2> DEFINE d == viewed[v]
  <2>1. PICK org \in [P -> Orgs] :
           submission' = [submission EXCEPT ![v] =
                            [draft |-> d, picked |-> P, todo |-> DR!Groups(P, org), ok |-> {}]]
    BY <1>5 DEF DR!SubmitSelected
  <2>2. /\ d \in 1..made /\ submission[v] = DR!NoReview /\ clicks' = clicks + 1
        /\ clicks < MaxClicks
        /\ UNCHANGED <<heldDraft, made, viewed, accepted, twice, warnedOf, dropped,
                       reviewFaults>>
    BY <1>5, <1>p DEF TypeDR, DR!SubmitSelected, DR!CanSubmit
  <2>3. submitter' = [submitter EXCEPT ![d] = IF @ \in {"none", v} THEN v ELSE "several"]
    BY <1>5 DEF DR!SubmitSelected
  <2>g. /\ DR!Groups(P, org) \in SUBSET SUBSET P
        /\ \A G, H \in DR!Groups(P, org) : G = H \/ G \cap H = {}
    BY DEF DR!Groups
  <2> HIDE DEF d
  <2>s. /\ submitter' \in [1..MaxDrafts -> Submitters]
        /\ submitter'[d] = IF submitter[d] \in {"none", v} THEN v ELSE "several"
        /\ \A e \in 1..MaxDrafts : e # d => submitter'[e] = submitter[e]
    BY <1>p, <2>2, <2>3 DEF TypeDR, Submitters
  <2>r. /\ submission' \in [Views -> Reviews]
        /\ submission'[v] = [draft |-> d, picked |-> P, todo |-> DR!Groups(P, org), ok |-> {}]
        /\ submission'[v].draft = d /\ submission'[v].picked = P /\ submission'[v].ok = {}
        /\ submission'[v].todo = DR!Groups(P, org) /\ submission'[v] # DR!NoReview
        /\ \A w \in Views : w # v => submission'[w] = submission[w]
    BY <1>p, <2>1, <2>2, <2>g, NoReviewIsReview DEF TypeDR, Reviews
  <2>4. TypeDR'
    <3>1. clicks' \in 0..MaxClicks
      BY <1>p, <2>2, BoundsAssumption DEF TypeDR
    <3>2. \A w \in Views : /\ submission'[w].draft <= made
                           /\ submission'[w].ok \subseteq submission'[w].picked
                           /\ \A G \in submission'[w].todo : G \subseteq submission'[w].picked
                           /\ submission'[w] # DR!NoReview => submission'[w].draft # 0
      BY <1>p, <2>2, <2>g, <2>r DEF TypeDR
    <3> QED
      BY <1>p, <2>2, <2>s, <2>r, <3>1, <3>2 DEF TypeDR
  <2>5. d \in warnedOf \/ submitter'[d] = "several" \/ \A i \in Items : <<d, i>> \notin accepted
    BY <2>2, <2>s, NoReviewIsReview DEF InvDR, Own, Untouched
  <2>6. \A w \in Views : w # v /\ submission[w] # DR!NoReview /\ submission[w].draft = d
                           => submitter'[d] = "several"
    BY <2>s DEF InvDR, Underway
  <2>7. Underway'
    <3> SUFFICES ASSUME NEW w \in Views, submission'[w] # DR!NoReview
                 PROVE  /\ submitter'[submission'[w].draft] \in {w, "gone", "several"}
                        /\ \A i \in submission'[w].ok : <<submission'[w].draft, i>> \in accepted
                        /\ \A G, H \in submission'[w].todo : G = H \/ G \cap H = {}
                        /\ \/ submission'[w].draft \in warnedOf
                           \/ submitter'[submission'[w].draft] = "several"
                           \/ \A G \in submission'[w].todo : \A i \in G :
                                 <<submission'[w].draft, i>> \notin accepted
      BY <2>2 DEF Underway, Excused
    <3>1. CASE w = v
      <4>1. DR!Groups(P, org) \in SUBSET SUBSET Items
        BY <2>g
      <4> QED
        BY <2>2, <2>5, <2>g, <2>r, <2>s, <3>1, <4>1 DEF Excused
    <3>2. CASE w # v
      <4>1. submission'[w] = submission[w] /\ submission[w].draft \in 1..MaxDrafts
        BY <1>p, <2>r, <3>2
      <4>2. \/ submitter'[submission[w].draft] = submitter[submission[w].draft]
            \/ submitter'[submission[w].draft] = "several"
        BY <2>6, <2>s, <3>2, <4>1
      <4> QED
        BY <2>2, <4>1, <4>2 DEF InvDR, Underway, Excused
    <3> QED
      BY <3>1, <3>2
  <2>8. Alone'
    <3> SUFFICES ASSUME NEW u \in Views, NEW w \in Views, u # w, submission'[u] # DR!NoReview,
                        submission'[u].draft = submission'[w].draft
                 PROVE  submitter'[submission'[u].draft] = "several"
      BY DEF Alone
    <3>1. CASE u = v \/ w = v
      BY <1>p, <2>2, <2>6, <2>r, <3>1, NoReviewIsReview
    <3>2. CASE u # v /\ w # v
      <4>1. submitter[submission[u].draft] = "several" /\ submission[u].draft \in 1..MaxDrafts
        BY <1>p, <2>r, <3>2 DEF InvDR, Alone
      <4> QED
        BY <2>r, <2>s, <3>2, <4>1
    <3> QED
      BY <3>1, <3>2
  <2>9. Untouched' /\ Own'
    <3>1. Untouched'
      BY <1>p, <2>2, <2>s DEF InvDR, Untouched
    <3>2. Own'
      <4> SUFFICES ASSUME NEW w \in Views, NEW e \in 1..made, submitter'[e] = w
                   PROVE  viewed[w] # 0 /\ (e \in warnedOf \/ submission'[w].draft = e)
        BY <2>2 DEF Own
      <4>1. CASE e = d
        BY <2>2, <2>r, <2>s, <4>1 DEF d
      <4>2. CASE e # d
        BY <1>p, <2>2, <2>r, <2>s, <4>2, NoReviewIsReview DEF InvDR, Own
      <4> QED
        BY <4>1, <4>2
    <3> QED
      BY <3>1, <3>2
  <2>10. DR!TwiceOnlyAfterFailure'
    BY <1>p, <2>2, <2>s DEF InvDR, TypeDR, DR!DraftsMatchHub, DR!TwiceOnlyAfterFailure
  <2> QED
    BY <1>q, <2>2, <2>4, <2>7, <2>8, <2>9, <2>10 DEF InvDR, DR!DraftsMatchHub
<1>6. ASSUME NEW v \in Views, NEW G \in SUBSET Items, DR!SubmitGroup(v, G) PROVE InvDR'
  <2> DEFINE d == submission[v].draft
  <2>1. PICK A \in SUBSET G :
          /\ DR!Accept(v, A)
          /\ \/ submission' = [submission EXCEPT ![v].todo = @ \ {G}, ![v].ok = @ \cup A]
             \/ submission' = [submission EXCEPT ![v].todo = {}]
          /\ reviewFaults' \in 0..MaxReviewFaults
    BY <1>6, <1>f, <1>p DEF DR!SubmitGroup, TypeDR
  <2> DEFINE M == {<<d, i>> : i \in A}
  <2>2. /\ G \in submission[v].todo /\ submission[v] # DR!NoReview
        /\ UNCHANGED <<heldDraft, made, viewed, submitter, clicks, warnedOf, dropped>>
    BY <1>6, NoReviewIsReview DEF DR!SubmitGroup
  <2>3. /\ accepted' = accepted \cup M
        /\ twice' = IF M \cap accepted = {} THEN twice ELSE twice \cup {d}
    BY <2>1 DEF DR!Accept
  <2>4. d \in 1..made /\ A \in SUBSET Items /\ A \subseteq submission[v].picked
    BY <1>p, <2>2 DEF TypeDR
  <2>5. /\ submission' \in [Views -> Reviews] /\ submission'[v].draft = d
        /\ submission'[v].picked = submission[v].picked
        /\ submission'[v].todo \subseteq submission[v].todo \ {G}
        /\ submission[v].ok \subseteq submission'[v].ok
        /\ submission'[v].ok \subseteq submission[v].ok \cup A
        /\ \A w \in Views : w # v => submission'[w] = submission[w]
    <3>1. submission[v] \in Reviews /\ submission \in [Views -> Reviews]
      BY <1>p DEF TypeDR
    <3> QED
      BY <2>1, <2>4, <3>1 DEF Reviews
  <2>6. M \cap accepted = {} \/ Excused(d)
    BY <2>2 DEF InvDR, Underway
  <2>7. TypeDR'
    <3>1. accepted' \subseteq (1..made) \X Items /\ twice' \subseteq 1..made
      <4>1. accepted \subseteq (1..made) \X Items /\ twice \subseteq 1..made
        BY <1>p DEF TypeDR
      <4>2. M \subseteq (1..made) \X Items
        BY <2>4
      <4> HIDE DEF M, d
      <4> QED BY <2>3, <2>4, <4>1, <4>2
    <3>2. \A w \in Views : /\ submission'[w].draft <= made
                           /\ submission'[w].ok \subseteq submission'[w].picked
                           /\ \A H \in submission'[w].todo : H \subseteq submission'[w].picked
                           /\ submission'[w] # DR!NoReview => submission'[w].draft # 0
      BY <1>p, <2>4, <2>5 DEF TypeDR
    <3> QED
      BY <1>p, <2>1, <2>2, <2>5, <3>1, <3>2 DEF TypeDR
  <2>8. submission'[v] # DR!NoReview
    BY <2>4, <2>5, NoReviewIsReview
  <2> HIDE DEF d
  <2>9. Underway'
    <3> SUFFICES ASSUME NEW w \in Views, submission'[w] # DR!NoReview
                 PROVE  /\ submitter[submission'[w].draft] \in {w, "gone", "several"}
                        /\ \A i \in submission'[w].ok : <<submission'[w].draft, i>> \in accepted'
                        /\ \A F, H \in submission'[w].todo : F = H \/ F \cap H = {}
                        /\ \/ Excused(submission'[w].draft)
                           \/ \A H \in submission'[w].todo : \A i \in H :
                                 <<submission'[w].draft, i>> \notin accepted'
      BY <2>2 DEF Underway, Excused
    <3>1. CASE w = v
      <4>1. /\ submitter[d] \in {v, "gone", "several"}
            /\ \A i \in submission[v].ok : <<d, i>> \in accepted
            /\ \A F, H \in submission[v].todo : F = H \/ F \cap H = {}
            /\ Excused(d) \/ \A H \in submission[v].todo : \A i \in H : <<d, i>> \notin accepted
        BY <2>2 DEF InvDR, Underway, d
      <4>2. \A H \in submission'[v].todo : \A i \in H : i \notin A
        BY <2>2, <2>5, <4>1
      <4> QED
        BY <2>3, <2>5, <3>1, <4>1, <4>2
    <3>2. CASE w # v
      <4>1. submission'[w] = submission[w]
        BY <2>5, <3>2
      <4>2. submission[w].draft = d => Excused(d)
        BY <2>2, <3>2, <4>1 DEF InvDR, Alone, Excused, d
      <4> QED
        BY <2>3, <4>1, <4>2 DEF InvDR, Underway
    <3> QED
      BY <3>1, <3>2
  <2>10. Alone' /\ Own'
    BY <2>2, <2>5 DEF InvDR, Alone, Own, d
  <2>11. Untouched'
    BY <2>2, <2>3, ViewsAssumption DEF InvDR, Untouched, Underway, d
  <2>12. DR!TwiceOnlyAfterFailure'
    BY <2>2, <2>3, <2>6 DEF InvDR, DR!DraftsMatchHub, DR!TwiceOnlyAfterFailure, Excused
  <2>13. DR!DeletedAfterAcceptance'
    BY <2>2, <2>3 DEF InvDR, DR!DraftsMatchHub, DR!DeletedAfterAcceptance
  <2> QED
    BY <2>7, <2>9, <2>10, <2>11, <2>12, <2>13 DEF InvDR, DR!DraftsMatchHub
<1>7. ASSUME NEW v \in Views, DR!SubmitEnds(v) PROVE InvDR'
  <2> DEFINE r == submission[v]
  <2>1. /\ r # DR!NoReview /\ submission' = [submission EXCEPT ![v] = DR!NoReview]
        /\ UNCHANGED <<made, clicks, accepted, twice, reviewFaults>>
    BY <1>7 DEF DR!SubmitEnds
  <2>2. r.draft \in 1..made /\ reviewFaults' \in 0..MaxReviewFaults
    BY <1>p, <2>1 DEF TypeDR
  <2>3. CASE DR!FullSuccess(v)
    <3>1. /\ heldDraft' = 0 /\ DR!Render(v, 0) /\ UNCHANGED warnedOf
          /\ dropped' = IF heldDraft = 0 THEN dropped
                        ELSE dropped \cup {<<heldDraft, r.draft, r.picked>>}
      BY <1>7, <2>3 DEF DR!SubmitEnds, DR!DeleteDraft
    <3>2. viewed[v] = 0 => \A e \in 1..made : submitter[e] # v
      BY DEF InvDR, Own
    <3>3. TypeDR' /\ Underway' /\ Alone' /\ Untouched' /\ Own' /\ DR!TwiceOnlyAfterFailure'
      BY <2>1, <2>2, <3>1, <3>2, PagesDR
    <3>4. \A i \in r.picked : <<r.draft, i>> \in accepted
      BY <2>1, <2>3 DEF DR!FullSuccess, InvDR, Underway
    <3>5. heldDraft # 0 => heldDraft = made
      BY <1>p DEF TypeDR
    <3>6. DR!DeletedAfterAcceptance'
      BY <2>1, <2>2, <3>1, <3>4, <3>5, <1>p
         DEF InvDR, DR!DraftsMatchHub, DR!DeletedAfterAcceptance
    <3> QED
      BY <3>3, <3>6 DEF InvDR, DR!DraftsMatchHub
  <2>4. CASE ~DR!FullSuccess(v)
    <3>1. /\ warnedOf' = IF viewed[v] = 0 THEN warnedOf ELSE warnedOf \cup {r.draft}
          /\ UNCHANGED <<heldDraft, viewed, submitter, dropped>>
      BY <1>7, <2>4 DEF DR!SubmitEnds
    <3>2. submission' \in [Views -> Reviews] /\ warnedOf' \subseteq 1..made
      BY <1>p, <2>1, <2>2, <3>1, NoReviewIsReview DEF TypeDR
    <3>3. /\ submission'[v] = DR!NoReview
          /\ \A w \in Views : w # v => submission'[w] = submission[w]
          /\ warnedOf \subseteq warnedOf'
      BY <1>p, <2>1, <3>1 DEF TypeDR
    <3>4. TypeDR'
      BY <1>p, <2>1, <2>2, <3>1, <3>2, <3>3, NoReviewIsReview DEF TypeDR
    <3>5. Underway' /\ Untouched'
      BY <2>1, <3>1, <3>3 DEF InvDR, Underway, Untouched, Excused
    <3>6. Alone'
      BY <1>p, <3>1, <3>3, NoReviewIsReview DEF InvDR, Alone
    <3>7. Own'
      BY <2>1, <3>1, <3>3 DEF InvDR, Own
    <3>8. DR!TwiceOnlyAfterFailure'
      BY <2>1, <3>1, <3>3 DEF InvDR, DR!DraftsMatchHub, DR!TwiceOnlyAfterFailure
    <3> QED
      BY <1>q, <2>1, <3>1, <3>4, <3>5, <3>6, <3>7, <3>8 DEF InvDR, DR!DraftsMatchHub
  <2> QED
    BY <2>3, <2>4
<1> QED
  BY <1>0, <1>1, <1>2, <1>3, <1>4, <1>5, <1>6, <1>7 DEF DR!Next

\* SubmitSelected's loop over the organisations and the deletion at its end: a memory reaches
\* the hub twice only after a failure was shown or from a second component, and a draft is
\* deleted only when the hub has accepted everything that was picked.
THEOREM DraftsMatch == FairSpec => []DraftsMatchHub
<1>1. Init => InvDR
  BY InitDR DEF Init
<1>2. InvDR /\ [Next]_vars => InvDR'
  BY MovesDR, NextDR
<1>3. InvDR => DraftsMatchHub
  BY DEF InvDR, DraftsMatchHub
<1> QED
  BY <1>1, <1>2, <1>3, PTL DEF FairSpec

(***************************************************************************)
(* Provider settings.                                                      *)
(***************************************************************************)
Bodies == [provider : PS!Providers, key : Keys \cup {NoKey, MaskOfKey},
           pinned : Models \cup {NoModel}]
Probes == [phase : PS!CheckPhases, of : PS!Questions, late : BOOLEAN]

Verdicts == [held : BOOLEAN, of : PS!Questions, ready : BOOLEAN, late : BOOLEAN]
Copies == [open : BOOLEAN, of : Bodies]
Puts == [phase : {"idle", "sent", "answered"}, body : Bodies]

\* A question about the stored provider and key.
OfStored(q) == q.provider = stored.provider /\ q.key = stored.key

\* The stored key is the last one typed: a mask never takes its place.
Stored == stored \in Bodies /\ stored.key = typed /\ typed \in Keys \cup {NoKey}

\* The cached answer, and every probe under way, is about the stored provider and key, but
\* for one that was overtaken by a save.
Cached == verdict \in Verdicts /\ (verdict.held /\ ~verdict.late => OfStored(verdict.of))

Probing(x) == x.phase = "probing" /\ ~x.late => OfStored(x.of)
Checking == checks \in [PS!Checkers -> Probes] /\ \A c \in PS!Checkers : Probing(checks[c])

Shown == copy \in [PS!Pages -> Copies] /\ put \in [PS!Pages -> Puts]

InvPS == Stored /\ Cached /\ Checking /\ Shown

\* The checks after a step that moves one of them.
Moved(c) == \E x \in Probes : checks' = [checks EXCEPT ![c] = x] /\ Probing(x)

\* A step that moves one check and leaves the settings keeps the checks in order.
LEMMA MovedChecks == ASSUME Checking, UNCHANGED stored, NEW c \in PS!Checkers, Moved(c)
                     PROVE  Checking'
  BY DEF Checking, Moved, Probing, OfStored

\* The constant states of checks, cache and saves are states.
LEMMA RestsPS ==
  /\ PS!Idle \in Probes /\ PS!Idle.phase = "idle"
  /\ PS!Asked \in Probes /\ PS!Asked.phase = "asked"
  /\ \A x \in {"idle", "answered", "transient"} :
       [PS!Idle EXCEPT !.phase = x] \in Probes /\ [PS!Idle EXCEPT !.phase = x].phase = x
  /\ PS!NoVerdict \in Verdicts /\ ~PS!NoVerdict.held
  /\ PS!Defaults \in Bodies /\ PS!Defaults.key = NoKey
  /\ PS!NoPut \in Puts
<1> USE DEF PS!Idle, PS!NoVerdict, PS!NoPut, PS!Asked
<1>1. PS!Defaults \in Bodies /\ PS!Defaults.key = NoKey
  BY DEF PS!Defaults, Bodies, PS!Providers
<1>2. PS!NoQuestion \in PS!Questions
  BY DEF PS!NoQuestion, PS!Question, PS!Defaults, PS!Questions, PS!Providers
<1>3. PS!Idle \in Probes /\ PS!Idle.phase = "idle"
  BY <1>2 DEF Probes, PS!CheckPhases
<1>4. /\ PS!Asked \in Probes /\ PS!Asked.phase = "asked"
      /\ \A x \in {"idle", "answered", "transient"} :
           [PS!Idle EXCEPT !.phase = x] \in Probes /\ [PS!Idle EXCEPT !.phase = x].phase = x
  BY <1>2 DEF Probes, PS!CheckPhases
<1>5. PS!NoVerdict \in Verdicts /\ ~PS!NoVerdict.held /\ PS!NoPut \in Puts
  BY <1>1, <1>2 DEF Verdicts, Puts
<1> QED
  BY <1>1, <1>3, <1>4, <1>5

\* An answered check is not a probe any more.
LEMMA ReplyMoves == ASSUME NEW c, NEW x \in {"answered", "transient"}, PS!Reply(c, x)
                    PROVE  Moved(c)
  BY RestsPS DEF PS!Reply, Moved, Probing

\* It holds of the default settings.
LEMMA InitPS == PS!Init => InvPS
<1> SUFFICES ASSUME PS!Init PROVE InvPS
  OBVIOUS
<1> USE RestsPS DEF PS!Init
<1>1. Stored /\ Cached
  BY DEF Stored, Cached
<1>2. Checking
  BY DEF Checking, Probing
<1>3. Shown
  BY DEF Shown, Copies
<1> QED
  BY <1>1, <1>2, <1>3 DEF InvPS

\* Every check, save, lost answer and expiry keeps it.
LEMMA NextPS == InvPS /\ [PS!Next]_ofPS => InvPS'
<1> SUFFICES ASSUME InvPS, [PS!Next]_ofPS PROVE InvPS'
  OBVIOUS
<1> USE DEF InvPS
<1>0. CASE UNCHANGED ofPS
  BY <1>0 DEF ofPS, Stored, Cached, Checking, Probing, Shown, OfStored
<1>1. CASE PS!Expire
  BY <1>1, RestsPS DEF PS!Expire, Stored, Cached, Checking, Probing, Shown, OfStored
<1>2. ASSUME NEW c \in PS!Checkers, PS!GetCertifiedReadiness(c) PROVE InvPS'
  <2>1. \/ PS!Reply(c, "answered")
        \/ \E model \in Models :
             checks' = [checks EXCEPT ![c].phase = "probing",
                                      ![c].of = PS!Question(stored, model)]
    BY <1>2 DEF PS!GetCertifiedReadiness, Stored, Bodies
  <2>2. ASSUME NEW model \in Models,
               checks' = [checks EXCEPT ![c].phase = "probing",
                                        ![c].of = PS!Question(stored, model)]
        PROVE  Moved(c)
    <3>1. PS!Question(stored, model) \in PS!Questions /\ OfStored(PS!Question(stored, model))
      BY DEF PS!Question, PS!Questions, OfStored, Stored, Bodies
    <3> DEFINE x == [checks[c] EXCEPT !.phase = "probing", !.of = PS!Question(stored, model)]
    <3>2. x \in Probes /\ x.of = PS!Question(stored, model)
      BY <3>1 DEF Checking, Probes, PS!CheckPhases
    <3>3. checks' = [checks EXCEPT ![c] = x]
      BY <2>2 DEF Checking
    <3> HIDE DEF x
    <3> QED
      BY <3>1, <3>2, <3>3 DEF Moved, Probing
  <2>3. Checking'
    BY <1>2, <2>1, <2>2, ReplyMoves, MovedChecks DEF PS!GetCertifiedReadiness
  <2> QED
    BY <1>2, <2>3 DEF PS!GetCertifiedReadiness, Stored, Cached, Shown, OfStored
<1>3. ASSUME NEW c \in PS!Checkers, PS!Probe(c) PROVE InvPS'
  <2>1. Checking'
    BY <1>3, ReplyMoves, MovedChecks DEF PS!Probe
  <2>2. Cached'
    <3>1. ASSUME NEW b \in BOOLEAN,
                 verdict' = [held |-> TRUE, of |-> checks[c].of, ready |-> b,
                             late |-> checks[c].late]
          PROVE  Cached'
      <4>1. checks[c] \in Probes /\ Probing(checks[c]) /\ checks[c].phase = "probing"
        BY <1>3 DEF PS!Probe, Checking
      <4> QED
        BY <1>3, <3>1, <4>1 DEF PS!Probe, Cached, Verdicts, Probing, Probes, OfStored
    <3>2. CASE UNCHANGED verdict
      BY <1>3, <3>2 DEF PS!Probe, Cached, OfStored
    <3> QED
      BY <1>3, <3>1, <3>2 DEF PS!Probe
  <2> QED
    BY <1>3, <2>1, <2>2 DEF PS!Probe, Stored, Shown
<1>4. ASSUME NEW c \in PS!Checkers, PS!CheckEnds(c) PROVE InvPS'
  <2>1. Moved(c)
    BY <1>4, RestsPS DEF PS!CheckEnds, Moved, Probing
  <2> QED
    BY <1>4, <2>1, MovedChecks DEF PS!CheckEnds, Stored, Cached, Shown, OfStored
<1>5. ASSUME NEW p \in PS!Pages, PS!Load(p) PROVE InvPS'
  <2>1. Checking'
    BY <1>5, RestsPS, MovedChecks
       DEF PS!Load, PS!RunReadinessCheck, Moved, Probing, PS!Checkers, Checking, OfStored
  <2>2. PS!Read(p) \in Bodies
    BY DEF PS!Read, PS!Masked, Stored, Bodies
  <2> QED
    BY <1>5, <2>1, <2>2 DEF PS!Load, Stored, Cached, Shown, Copies, OfStored
<1>6. ASSUME NEW p \in PS!Pages, PS!Save(p) PROVE InvPS'
  <2>1. PS!Edited(p) \subseteq Bodies
    BY DEF PS!Edited, PS!Settings, Bodies, Shown, Copies
  <2>2. Shown'
    BY <1>6, <2>1 DEF PS!Save, Shown, Copies, Puts
  <2> QED
    BY <1>6, <2>2 DEF PS!Save, Stored, Cached, Checking, Probing, OfStored
<1>7. ASSUME NEW p \in PS!Pages, PS!Put(p) PROVE InvPS'
  <2> DEFINE body == put[p].body
  <2>1. body \in Bodies
    BY DEF Shown, Puts
  <2>2. Stored'
    BY <1>7, <2>1, KeysAssumption
       DEF PS!Put, PS!Merge, PS!KeyToStore, Stored, Bodies
  <2>3. PS!Masked(stored') \in Bodies
    BY <2>2 DEF PS!Masked, Stored, Bodies
  <2>4. Shown'
    <3>1. put' = [put EXCEPT ![p] = [phase |-> "answered", body |-> PS!Masked(stored')]]
      BY <1>7 DEF PS!Put
    <3>2. [phase |-> "answered", body |-> PS!Masked(stored')] \in Puts
      BY <2>3 DEF Puts
    <3> QED
      BY <1>7, <3>1, <3>2 DEF PS!Put, Shown
  <2>5. Checking'
    BY <1>7 DEF PS!Put, Checking, Probing, Probes
  <2>6. Cached'
    BY <1>7, RestsPS DEF PS!Put, PS!InvalidateReadinessCache, Cached
  <2> QED
    BY <2>2, <2>4, <2>5, <2>6
<1>8. ASSUME NEW p \in PS!Pages, PS!SaveAnswered(p) PROVE InvPS'
  <2>1. Checking'
    BY <1>8, RestsPS, MovedChecks
       DEF PS!SaveAnswered, PS!RunReadinessCheck, Moved, Probing, PS!Checkers, Checking, OfStored
  <2>2. Shown'
    BY <1>8, RestsPS DEF PS!SaveAnswered, Shown, Copies, Puts
  <2> QED
    BY <1>8, <2>1, <2>2 DEF PS!SaveAnswered, Stored, Cached, OfStored
<1>9. ASSUME NEW p \in PS!Pages, PS!SaveLost(p) PROVE InvPS'
  <2>1. Shown'
    BY <1>9, RestsPS DEF PS!SaveLost, Shown
  <2> QED
    BY <1>9, <2>1 DEF PS!SaveLost, Stored, Cached, Checking, Probing, OfStored
<1> QED
  BY <1>0, <1>1, <1>2, <1>3, <1>4, <1>5, <1>6, <1>7, <1>8, <1>9 DEF PS!Next

\* updateSettings merges the key and drops the cached readiness: what is cached is about the
\* stored provider and the last key typed, whichever page has saved a stale copy since.
THEOREM ReadinessStaysCurrent == FairSpec => []ReadinessIsCurrent
<1>1. Init => InvPS
  BY InitPS DEF Init
<1>2. InvPS /\ [Next]_vars => InvPS'
  BY MovesPS, NextPS
<1>3. InvPS => ReadinessIsCurrent
  BY DEF InvPS, Stored, Cached, OfStored, ReadinessIsCurrent, PS!ReadinessIsCurrent
<1> QED
  BY <1>1, <1>2, <1>3, PTL DEF FairSpec

(***************************************************************************)
(* Identity.                                                               *)
(***************************************************************************)
\* Every tab has a memory, if only an empty one.
HasMemory == memory = [t \in Tabs |-> memory[t]]

\* The seed a tab takes into memory in a step is the stored record's.
TakesStored(t) ==
  memory'[t] \notin {ID!None, memory[t]} =>
    \/ memory'[t] = record'.key
    \/ unlocking[t] # ID!NoRecord /\ memory'[t] = unlocking[t].key

\* Installing a record gives the tab its seed.
LEMMA InstallTakesStored ==
  ASSUME HasMemory, NEW t \in Tabs, NEW r, ID!Install(t, r)
  PROVE  HasMemory' /\ \A u \in Tabs : TakesStored(u)
  BY DEF HasMemory, ID!Install, TakesStored

\* Every way to sign in installs a record.
LEMMA SignInTakesStored ==
  ASSUME HasMemory, NEW t \in Tabs,
         ID!PasskeySignIn(t) \/ \E w \in Wallets : ID!WalletSignIn(t, w)
  PROVE  HasMemory' /\ \A u \in Tabs : TakesStored(u)
<1>1. \E r : ID!Install(t, r)
  BY DEF ID!PasskeySignIn, ID!WalletSignIn, ID!CreateGuestIdentity, ID!AdoptIdentityFromLocalMcp,
         ID!AdoptIdentityFromPasskey, ID!AdoptIdentityFromWallet, ID!ImportIdentityFromPhrase,
         ID!Adopt, ID!Fetch
<1> QED
  BY <1>1, InstallTakesStored

\* So does every other step of a tab that takes a seed.
LEMMA NextID ==
  HasMemory /\ [ID!Next]_ofID => HasMemory' /\ (UNCHANGED ofID \/ \A u \in Tabs : TakesStored(u))
<1> SUFFICES ASSUME HasMemory, [ID!Next]_ofID
             PROVE  HasMemory' /\ (UNCHANGED ofID \/ \A u \in Tabs : TakesStored(u))
  OBVIOUS
<1>0. CASE UNCHANGED ofID
  BY <1>0 DEF ofID, HasMemory
<1>1. CASE ID!McpIdentity \/ ID!SetWalletAddress
  BY <1>1 DEF ID!McpIdentity, ID!SetWalletAddress, HasMemory, TakesStored
<1>2. ASSUME NEW t \in Tabs, ID!UnlockIdentity(t)
      PROVE  HasMemory' /\ \A u \in Tabs : TakesStored(u)
  BY <1>2 DEF ID!UnlockIdentity, ID!CachedSeed, HasMemory, TakesStored
<1>3. ASSUME NEW t \in Tabs, ID!FinishUnlock(t)
      PROVE  HasMemory' /\ \A u \in Tabs : TakesStored(u)
  BY <1>3 DEF ID!FinishUnlock, HasMemory, TakesStored
<1>4. ASSUME NEW t \in Tabs, ID!PasskeySignIn(t) \/ \E w \in Wallets : ID!WalletSignIn(t, w)
      PROVE  HasMemory' /\ \A u \in Tabs : TakesStored(u)
  BY <1>4, SignInTakesStored
<1>5. ASSUME NEW t \in Tabs, ID!Refresh(t) \/ ID!ReadForAddress(t)
      PROVE  HasMemory' /\ \A u \in Tabs : TakesStored(u)
  BY <1>5 DEF ID!Refresh, ID!ReadForAddress, HasMemory, TakesStored
<1>6. ASSUME NEW t \in Tabs, ID!ClearIdentity(t) \/ ID!Reload(t)
      PROVE  HasMemory' /\ \A u \in Tabs : TakesStored(u)
  BY <1>6 DEF ID!ClearIdentity, ID!Reload, HasMemory, TakesStored
<1> QED
  BY <1>0, <1>1, <1>2, <1>3, <1>4, <1>5, <1>6 DEF ID!Next

\* A tab's seed is the one of the record it will sign under, from the prompt, the session or
\* a sign-in, unless another tab replaced the record while the prompt was open.
THEOREM TabsTakeTheStoredSeed == FairSpec => TakesTheStoredSeed
<1>1. Init => HasMemory
  BY DEF Init, ID!Init, HasMemory
<1>2. HasMemory /\ [Next]_vars => HasMemory'
  BY MovesID, NextID
<1>3. HasMemory /\ [Next]_vars =>
        [\A t \in Tabs :
           memory'[t] \notin {ID!None, memory[t]} =>
             \/ memory'[t] = record'.key
             \/ unlocking[t] # ID!NoRecord /\ memory'[t] = unlocking[t].key]_(ID!vars)
  BY MovesID, NextID DEF ofID, ID!vars, TakesStored
<1> QED
  BY <1>1, <1>2, <1>3, PTL DEF FairSpec, TakesTheStoredSeed, ID!TakesTheStoredSeed

(***************************************************************************)
(* The purchase of an organisation.                                        *)
(***************************************************************************)
Unpaid == {"idle", "wallet", "setup"}
Paid == {"finalize", "record", "show", "confirm"}
Purchasing == [step : Unpaid \cup Paid \cup {"broadcast"}, setup : 0..MaxSetups, org : Nat]

TypeOL ==
  /\ sold \in Seq(Nat) /\ setups \in 0..MaxSetups /\ recorded \in Nat
  /\ keysFor \in [1..MaxSetups -> Nat]
  /\ buying \in [OL!Purchases -> Purchasing]
  /\ shown \in [setup : 0..MaxSetups, org : Nat]

\* A setup is sold once, and the one about to be paid for is not sold yet.
SoldOnce ==
  /\ \A i, j \in 1..Len(sold) : sold[i] # 0 /\ sold[i] = sold[j] => i = j
  /\ \A i \in 1..Len(sold) : sold[i] <= setups

\* How far a purchase under way has come.
BuysRight(w) ==
  /\ buying[w].step \in Unpaid => buying[w].setup = 0
  /\ buying[w].step = "broadcast" =>
       /\ buying[w].setup # 0 /\ buying[w].setup <= setups
       /\ \A i \in 1..Len(sold) : sold[i] # buying[w].setup
  /\ buying[w].step \in Paid =>
       /\ buying[w].setup # 0 /\ buying[w].org \in 1..Len(sold)
       /\ sold[buying[w].org] = buying[w].setup
  /\ buying[w].step \in Paid \ {"finalize"} => keysFor[buying[w].setup] = buying[w].org
  /\ buying[w].step \in {"show", "confirm"} => recorded = buying[w].org
  /\ buying[w].step = "confirm" => buying[w].setup \in seenPhrase \cup unshown

\* The page's purchase and the one that runs on are of different setups.
Buys ==
  /\ \A w \in OL!Purchases : BuysRight(w)
  /\ \A v, w \in OL!Purchases :
       v # w /\ buying[v].setup # 0 => buying[v].setup # buying[w].setup

\* The phrase on screen is that of an organisation sold, finalised and recorded.
PhraseShown ==
  shown # OL!NoPhrase =>
    /\ shown.setup # 0 /\ shown.org \in 1..Len(sold) /\ sold[shown.org] = shown.setup
    /\ keysFor[shown.setup] = shown.org /\ recorded = shown.org

\* A setup that was paid for has been seen, was reported, was left or is under way.
Told(i) ==
  \/ sold[i] \in seenPhrase \cup warned \cup unshown
  \/ \E w \in OL!Purchases : buying[w].setup = sold[i] /\ buying[w].org = i

NeverSilent == \A i \in 1..Len(sold) : sold[i] # 0 => Told(i)

InvOL == TypeOL /\ SoldOnce /\ Buys /\ PhraseShown /\ NeverSilent

\* It holds before anything is sold.
LEMMA InitOL == OL!Init => InvOL
<1> SUFFICES ASSUME OL!Init PROVE InvOL
  OBVIOUS
<1>n. MaxSetups \in Nat
  BY BoundsAssumption
<1> USE <1>n DEF OL!Init, OL!AtRest, OL!NoPhrase, OL!None
<1>1. Len(sold) = 0
  OBVIOUS
<1>2. TypeOL
  BY DEF TypeOL, Purchasing, Unpaid, Paid
<1>3. \A w \in OL!Purchases : buying[w].step = "idle" /\ buying[w].setup = 0
  OBVIOUS
<1>4. Buys
  BY <1>3 DEF Buys, BuysRight, Unpaid, Paid
<1> QED
  BY <1>1, <1>2, <1>4 DEF InvOL, SoldOnce, PhraseShown, NeverSilent

\* A step of one purchase leaves the other as it was.
LEMMA OneOL ==
  ASSUME TypeOL, NEW w \in OL!Purchases, buying'[w] \in Purchasing,
         buying' = [buying EXCEPT ![w] = buying'[w]]
  PROVE  /\ buying' \in [OL!Purchases -> Purchasing]
         /\ \A v \in OL!Purchases \ {w} : buying'[v] = buying[v]
  BY DEF TypeOL

\* A purchase that comes to rest is told of, and the other is as before.
LEMMA RestsOL ==
  ASSUME InvOL, NEW w \in OL!Purchases, OL!Rest(w),
         UNCHANGED <<sold, setups, seenPhrase, unshown>>,
         warned \subseteq warned',
         buying[w].setup \in {0} \cup seenPhrase \cup unshown \cup warned',
         PhraseShown',
         keysFor' \in [1..MaxSetups -> Nat], recorded' \in Nat,
         \A s \in 1..MaxSetups : s # buying[w].setup => keysFor'[s] = keysFor[s],
         recorded' = recorded \/ recorded = 0,
         shown' \in [setup : 0..MaxSetups, org : Nat]
  PROVE  InvOL'
<1>n. MaxSetups \in Nat
  BY BoundsAssumption
<1>1. /\ buying'[w] = OL!AtRest /\ buying' \in [OL!Purchases -> Purchasing]
      /\ buying'[w].step = "idle" /\ buying'[w].setup = 0
      /\ \A v \in OL!Purchases \ {w} : buying'[v] = buying[v]
  BY <1>n DEF InvOL, TypeOL, OL!Rest, OL!AtRest, Purchasing, Unpaid
<1>2. TypeOL' /\ SoldOnce'
  BY <1>1 DEF InvOL, TypeOL, SoldOnce
<1>3. BuysRight(w)'
  BY <1>1 DEF BuysRight, Unpaid, Paid
<1>4. ASSUME NEW v \in OL!Purchases \ {w} PROVE BuysRight(v)'
  <2>1. buying'[v] = buying[v] /\ BuysRight(v) /\ buying[v] \in Purchasing
    BY <1>1 DEF InvOL, Buys, TypeOL
  <2>2. buying[v].setup # 0 => /\ buying[v].setup # buying[w].setup
                               /\ buying[v].setup \in 1..MaxSetups
    BY <1>n, <2>1 DEF InvOL, Buys, Purchasing
  <2>3. buying[v].step \in Paid => buying[v].setup # 0 /\ buying[v].org # 0
    BY <2>1 DEF BuysRight
  <2>4. buying[v].step \in Paid => keysFor'[buying[v].setup] = keysFor[buying[v].setup]
    BY <2>2, <2>3
  <2> QED BY <2>1, <2>3, <2>4 DEF BuysRight, Paid
<1>5. Buys'
  BY <1>1, <1>3, <1>4 DEF InvOL, Buys
<1>6. ASSUME NEW i \in 1..Len(sold), sold[i] # 0, Told(i) PROVE Told(i)'
  <2>1. CASE \E v \in OL!Purchases \ {w} : buying[v].setup = sold[i] /\ buying[v].org = i
    BY <1>1, <2>1 DEF Told
  <2>2. CASE buying[w].setup = sold[i]
    BY <1>6, <2>2 DEF Told
  <2>3. CASE sold[i] \in seenPhrase \cup warned \cup unshown
    BY <2>3 DEF Told
  <2> QED BY <1>6, <2>1, <2>2, <2>3 DEF Told
<1>7. NeverSilent'
  BY <1>6 DEF InvOL, NeverSilent
<1> QED
  BY <1>2, <1>5, <1>7 DEF InvOL

\* A purchase goes on to its next step: what is asked of it, and of the other.
LEMMA GoesOnOL ==
  ASSUME InvOL, NEW w \in OL!Purchases, buying' = [buying EXCEPT ![w] = buying'[w]],
         buying'[w] \in Purchasing, BuysRight(w)',
         buying'[w].setup = buying[w].setup, buying'[w].org = buying[w].org,
         UNCHANGED <<sold, setups, warned>>, PhraseShown',
         seenPhrase \subseteq seenPhrase', unshown \subseteq unshown',
         keysFor' \in [1..MaxSetups -> Nat], recorded' \in Nat,
         \A s \in 1..MaxSetups : s # buying[w].setup => keysFor'[s] = keysFor[s],
         recorded' = recorded \/ recorded = 0,
         shown' \in [setup : 0..MaxSetups, org : Nat]
  PROVE  InvOL'
<1>n. MaxSetups \in Nat
  BY BoundsAssumption
<1>1. /\ buying' \in [OL!Purchases -> Purchasing]
      /\ \A v \in OL!Purchases \ {w} : buying'[v] = buying[v]
  BY OneOL DEF InvOL
<1>2. TypeOL' /\ SoldOnce'
  BY <1>1 DEF InvOL, TypeOL, SoldOnce
<1>4. ASSUME NEW v \in OL!Purchases \ {w} PROVE BuysRight(v)'
  <2>1. buying'[v] = buying[v] /\ BuysRight(v) /\ buying[v] \in Purchasing
    BY <1>1 DEF InvOL, Buys, TypeOL
  <2>2. buying[v].setup # 0 => /\ buying[v].setup # buying[w].setup
                               /\ buying[v].setup \in 1..MaxSetups
    BY <1>n, <2>1 DEF InvOL, Buys, Purchasing
  <2>3. buying[v].step \in Paid => buying[v].setup # 0 /\ buying[v].org # 0
    BY <2>1 DEF BuysRight
  <2>4. buying[v].step \in Paid => keysFor'[buying[v].setup] = keysFor[buying[v].setup]
    BY <2>2, <2>3
  <2> QED BY <2>1, <2>3, <2>4 DEF BuysRight, Paid
<1>5. Buys'
  BY <1>1, <1>4 DEF InvOL, Buys
<1>7. NeverSilent'
  BY <1>1 DEF InvOL, NeverSilent, Told
<1> QED
  BY <1>2, <1>5, <1>7 DEF InvOL

\* The chain sells a slot to a purchase, or to nobody here.
LEMMA SellsOL ==
  ASSUME InvOL, NEW s \in Nat, sold' = Append(sold, s),
         \A i \in 1..Len(sold) : s # 0 => sold[i] # s,
         s <= setups, UNCHANGED <<setups, keysFor, recorded, shown>>
  PROVE  /\ sold' \in Seq(Nat) /\ Len(sold') = Len(sold) + 1 /\ Len(sold) \in Nat
         /\ sold'[Len(sold) + 1] = s
         /\ \A i \in 1..Len(sold) : i \in 1..Len(sold') /\ sold'[i] = sold[i]
         /\ 1..Len(sold') = (1..Len(sold)) \cup {Len(sold) + 1}
         /\ SoldOnce' /\ PhraseShown'
<1>1. /\ sold' \in Seq(Nat) /\ Len(sold') = Len(sold) + 1 /\ Len(sold) \in Nat
      /\ sold'[Len(sold) + 1] = s
      /\ \A i \in 1..Len(sold) : i \in 1..Len(sold') /\ sold'[i] = sold[i]
  BY DEF InvOL, TypeOL
<1>2. 1..Len(sold') = (1..Len(sold)) \cup {Len(sold) + 1}
  BY <1>1
<1>3. \A i, j \in 1..Len(sold') : sold'[i] # 0 /\ sold'[i] = sold'[j] => i = j
  BY <1>1, <1>2 DEF InvOL, SoldOnce
<1>4. \A i \in 1..Len(sold') : sold'[i] <= setups'
  BY <1>1, <1>2 DEF InvOL, SoldOnce
<1>5. PhraseShown'
  BY <1>1 DEF InvOL, PhraseShown
<1> QED
  BY <1>1, <1>2, <1>3, <1>4, <1>5 DEF SoldOnce

\* After a sale the purchases it is not of are right as before.
LEMMA SoldToOther ==
  ASSUME InvOL, NEW s \in Nat, NEW v \in OL!Purchases, buying'[v] = buying[v],
         buying[v].setup # s \/ s = 0,
         \A i \in 1..Len(sold) : i \in 1..Len(sold') /\ sold'[i] = sold[i],
         \A i \in 1..Len(sold') : i \in 1..Len(sold) \/ sold'[i] = s,
         UNCHANGED <<setups, keysFor, recorded, seenPhrase, unshown>>
  PROVE  BuysRight(v)'
<1>1. BuysRight(v)
  BY DEF InvOL, Buys
<1>2. buying[v].step = "broadcast" => \A i \in 1..Len(sold') : sold'[i] # buying[v].setup
  BY <1>1 DEF BuysRight
<1> QED BY <1>1, <1>2 DEF BuysRight, Paid

\* Every step of a purchase keeps it.
LEMMA PurchaseOL == ASSUME InvOL, NEW w \in OL!Purchases, OL!Purchase(w) PROVE InvOL'
<1>n. MaxSetups \in Nat
  BY BoundsAssumption
<1> DEFINE b == buying[w]
<1>t. /\ b \in Purchasing /\ BuysRight(w)
      /\ buying = [buying EXCEPT ![w] = b]
      /\ keysFor \in [1..MaxSetups -> Nat] /\ recorded \in Nat
      /\ shown \in [setup : 0..MaxSetups, org : Nat] /\ PhraseShown
  BY DEF InvOL, TypeOL, Buys
<1>b. /\ b.setup \in 0..MaxSetups /\ b.org \in Nat /\ b.setup \in Nat
      /\ \A v \in OL!Purchases \ {w} : b.setup # 0 => buying[v].setup # b.setup
  BY <1>n, <1>t DEF InvOL, Buys, Purchasing
<1> HIDE DEF b
<1>a. ASSUME NEW p \in Unpaid \cup Paid \cup {"broadcast"}, OL!Advance(w, p)
      PROVE  /\ buying' = [buying EXCEPT ![w] = buying'[w]]
             /\ buying'[w] \in Purchasing /\ buying'[w].step = p
             /\ buying'[w].setup = b.setup /\ buying'[w].org = b.org
  BY <1>a, <1>t DEF OL!Advance, InvOL, TypeOL, Purchasing, b
<1>r. ASSUME OL!Fail(w)
      PROVE  OL!Rest(w) /\ warned \subseteq warned' /\ b.setup \in {0} \cup warned'
  BY <1>r DEF OL!Fail, b
<1>1. CASE OL!CheckWallet(w)
  <2>1. /\ UNCHANGED <<sold, setups, keysFor, recorded, shown, warned, seenPhrase, unshown>>
        /\ b.step = "wallet" /\ b.setup = 0
        /\ OL!Advance(w, "setup") \/ OL!Rest(w)
    BY <1>1, <1>t DEF OL!CheckWallet, OL!At, OL!page, BuysRight, Unpaid, b
  <2>2. PhraseShown'
    BY <1>t, <2>1 DEF PhraseShown
  <2>3. CASE OL!Rest(w)
    BY <1>t, <2>1, <2>2, <2>3, RestsOL DEF b
  <2>4. CASE OL!Advance(w, "setup")
    <3>1. /\ buying' = [buying EXCEPT ![w] = buying'[w]] /\ buying'[w] \in Purchasing
          /\ buying'[w].step = "setup" /\ buying'[w].setup = b.setup /\ buying'[w].org = b.org
      BY <1>a, <2>4 DEF Unpaid
    <3>2. BuysRight(w)'
      BY <2>1, <3>1 DEF BuysRight, Unpaid, Paid
    <3> QED BY <1>t, <2>1, <2>2, <3>1, <3>2, GoesOnOL DEF b
  <2> QED BY <2>1, <2>3, <2>4
<1>2. CASE OL!RequestOrgCryptoSetup(w)
  <2>1. /\ UNCHANGED <<sold, keysFor, recorded, shown, warned, seenPhrase, unshown>>
        /\ b.step = "setup" /\ b.setup = 0
    BY <1>2, <1>t DEF OL!RequestOrgCryptoSetup, OL!At, OL!page, BuysRight, Unpaid, b
  <2>2. PhraseShown'
    BY <1>t, <2>1 DEF PhraseShown
  <2>3. CASE OL!Rest(w) /\ UNCHANGED setups
    BY <1>t, <2>1, <2>2, <2>3, RestsOL DEF b
  <2>4. CASE /\ setups < MaxSetups /\ setups' = setups + 1
             /\ buying' = [buying EXCEPT ![w].step = "broadcast", ![w].setup = setups']
    <3>1. setups \in Nat /\ setups + 1 \in 0..MaxSetups
      BY <1>n, <2>4 DEF InvOL, TypeOL
    <3>2. /\ buying'[w] \in Purchasing /\ buying'[w].step = "broadcast"
          /\ buying'[w].setup = setups + 1
          /\ buying' = [buying EXCEPT ![w] = buying'[w]]
      BY <2>4, <3>1, <1>t DEF InvOL, TypeOL, Purchasing, b
    <3>3. /\ buying' \in [OL!Purchases -> Purchasing]
          /\ \A v \in OL!Purchases \ {w} : buying'[v] = buying[v]
      BY <3>2, OneOL DEF InvOL
    <3>4. \A i \in 1..Len(sold) : sold[i] \in Nat /\ sold[i] <= setups
      BY DEF InvOL, TypeOL, SoldOnce
    <3>5. TypeOL' /\ SoldOnce'
      <4>1. setups' \in 0..MaxSetups
        BY <2>4, <3>1
      <4>2. SoldOnce'
        BY <2>1, <2>4, <3>1, <3>4 DEF InvOL, SoldOnce
      <4> QED BY <2>1, <3>3, <4>1, <4>2 DEF InvOL, TypeOL
    <3>6. \A v \in OL!Purchases : buying[v].setup <= setups
      <4>1. ASSUME NEW v \in OL!Purchases, buying[v].step \in Paid PROVE buying[v].setup <= setups
        BY <3>4, <4>1 DEF InvOL, Buys, BuysRight
      <4>2. ASSUME NEW v \in OL!Purchases, buying[v].step \in Unpaid
            PROVE  buying[v].setup <= setups
        BY <3>1, <4>2 DEF InvOL, Buys, BuysRight
      <4>3. ASSUME NEW v \in OL!Purchases, buying[v].step = "broadcast"
            PROVE  buying[v].setup <= setups
        BY <4>3 DEF InvOL, Buys, BuysRight
      <4>4. \A v \in OL!Purchases : buying[v].step \in Unpaid \cup Paid \cup {"broadcast"}
        BY DEF InvOL, TypeOL, Purchasing
      <4> QED BY <4>1, <4>2, <4>3, <4>4
    <3>7. BuysRight(w)'
      <4>1. \A i \in 1..Len(sold) : sold[i] # setups + 1
        BY <3>1, <3>4
      <4>2. setups' = setups + 1 /\ setups + 1 # 0 /\ setups + 1 <= setups + 1
        BY <2>4, <3>1
      <4> QED BY <2>1, <3>2, <4>1, <4>2 DEF BuysRight, Unpaid, Paid
    <3>8. ASSUME NEW v \in OL!Purchases \ {w} PROVE BuysRight(v)'
      <4>1. BuysRight(v) /\ buying'[v] = buying[v]
        BY <3>3 DEF InvOL, Buys
      <4>2. buying[v].setup <= setups'
        <5>1. buying[v].setup <= setups /\ buying[v].setup \in Nat
          BY <1>n, <3>6 DEF InvOL, TypeOL, Purchasing
        <5> QED BY <2>4, <3>1, <5>1
      <4> QED BY <2>1, <4>1, <4>2 DEF BuysRight
    <3>9. \A v \in OL!Purchases : buying[v].setup \in Nat
      BY <1>n DEF InvOL, TypeOL, Purchasing
    <3>10. Buys'
      <4>1. \A v \in OL!Purchases \ {w} : buying'[v].setup # setups + 1
        BY <3>1, <3>3, <3>6, <3>9
      <4> QED BY <3>2, <3>3, <3>7, <3>8, <4>1 DEF InvOL, Buys
    <3>11. ASSUME NEW i \in 1..Len(sold), sold[i] # 0, Told(i) PROVE Told(i)'
      <4>1. buying[w].setup # sold[i]
        BY <2>1, <3>11 DEF b
      <4> QED BY <2>1, <3>3, <3>11, <4>1 DEF Told
    <3>12. NeverSilent'
      BY <2>1, <3>11 DEF InvOL, NeverSilent
    <3> QED BY <2>2, <3>5, <3>10, <3>12 DEF InvOL
  <2> QED
    BY <1>2, <2>3, <2>4 DEF OL!RequestOrgCryptoSetup
<1>3. CASE OL!BroadcastRegisterOrg(w)
  <2>1. /\ UNCHANGED <<setups, keysFor, recorded, shown, seenPhrase, unshown>>
        /\ b.step = "broadcast" /\ b.setup # 0 /\ b.setup <= setups
        /\ \A i \in 1..Len(sold) : sold[i] # b.setup
    BY <1>3, <1>t DEF OL!BroadcastRegisterOrg, OL!At, OL!page, BuysRight, b
  <2>2. CASE OL!Fail(w) /\ UNCHANGED sold
    <3>1. PhraseShown'
      BY <1>t, <2>1, <2>2 DEF PhraseShown
    <3> QED BY <1>t, <1>r, <2>1, <2>2, <3>1, RestsOL DEF b
  <2>3. CASE /\ sold' = Append(sold, b.setup)
             /\ \/ /\ UNCHANGED warned
                   /\ buying' = [buying EXCEPT ![w].step = "finalize", ![w].org = Len(sold')]
                \/ OL!Fail(w)
    <3>1. /\ sold' \in Seq(Nat) /\ Len(sold') = Len(sold) + 1 /\ Len(sold) \in Nat
          /\ sold'[Len(sold) + 1] = b.setup
          /\ \A i \in 1..Len(sold) : i \in 1..Len(sold') /\ sold'[i] = sold[i]
          /\ 1..Len(sold') = (1..Len(sold)) \cup {Len(sold) + 1}
          /\ SoldOnce' /\ PhraseShown'
      BY <1>b, <2>1, <2>3, SellsOL
    <3>2. /\ buying'[w] \in Purchasing /\ buying' = [buying EXCEPT ![w] = buying'[w]]
          /\ \/ /\ UNCHANGED warned /\ buying'[w].step = "finalize"
                /\ buying'[w].setup = b.setup /\ buying'[w].org = Len(sold) + 1
             \/ /\ buying'[w].step = "idle" /\ buying'[w].setup = 0
                /\ warned \subseteq warned' /\ b.setup \in warned'
      <4>1. Len(sold') \in Nat
        BY <3>1
      <4>2. CASE OL!Fail(w)
        BY <1>n, <1>t, <2>1, <4>2
           DEF OL!Fail, OL!Rest, OL!AtRest, Purchasing, Unpaid, InvOL, TypeOL, b
      <4>3. CASE /\ UNCHANGED warned
                 /\ buying' = [buying EXCEPT ![w].step = "finalize", ![w].org = Len(sold')]
        BY <1>t, <3>1, <4>1, <4>3 DEF Purchasing, Paid, InvOL, TypeOL, b
      <4> QED BY <2>3, <4>2, <4>3
    <3>3. /\ buying' \in [OL!Purchases -> Purchasing]
          /\ \A v \in OL!Purchases \ {w} : buying'[v] = buying[v]
      BY <3>2, OneOL DEF InvOL
    <3>4. TypeOL'
      BY <2>1, <3>1, <3>3 DEF InvOL, TypeOL
    <3>5. BuysRight(w)'
      <4>1. Len(sold) + 1 \in 1..Len(sold')
        BY <3>1
      <4> QED BY <3>1, <3>2, <2>1, <4>1 DEF BuysRight, Unpaid, Paid
    <3>6. ASSUME NEW v \in OL!Purchases \ {w} PROVE BuysRight(v)'
      <4>1. \A i \in 1..Len(sold') : i \in 1..Len(sold) \/ sold'[i] = b.setup
        BY <3>1
      <4> QED BY <1>b, <2>1, <3>1, <3>3, <4>1, SoldToOther
    <3>7. Buys'
      BY <1>b, <2>1, <3>2, <3>3, <3>5, <3>6 DEF InvOL, Buys
    <3>8. ASSUME NEW i \in 1..Len(sold), sold[i] # 0, Told(i) PROVE Told(i)'
      <4>1. buying[w].setup # sold[i] /\ sold'[i] = sold[i] /\ warned \subseteq warned'
        BY <2>1, <3>1, <3>2 DEF b
      <4> QED BY <2>1, <3>3, <3>8, <4>1 DEF Told
    <3>9. ASSUME NEW i, i = Len(sold) + 1 PROVE Told(i)'
      <4>1. sold'[i] = b.setup
        BY <3>1, <3>9
      <4>2. b.setup \in warned' \/ (buying'[w].setup = b.setup /\ buying'[w].org = i)
        BY <3>2, <3>9
      <4> QED BY <4>1, <4>2 DEF Told
    <3>10. NeverSilent'
      <4> SUFFICES ASSUME NEW i \in 1..Len(sold'), sold'[i] # 0 PROVE Told(i)'
        BY DEF NeverSilent
      <4>1. CASE i = Len(sold) + 1
        BY <3>9, <4>1
      <4>2. CASE i # Len(sold) + 1
        <5>1. i \in 1..Len(sold)
          BY <3>1, <4>2
        <5>2. sold[i] # 0
          BY <3>1, <5>1
        <5>3. Told(i)
          BY <5>1, <5>2 DEF InvOL, NeverSilent
        <5>4. Told(i)'
          BY <3>8, <5>1, <5>2, <5>3
        <5> QED BY <5>4
      <4> QED BY <4>1, <4>2
    <3> QED BY <3>1, <3>4, <3>7, <3>10 DEF InvOL
  <2> QED
    BY <1>3, <2>2, <2>3 DEF OL!BroadcastRegisterOrg, b
<1>4. CASE OL!FinalizeOrgSetup(w)
  <2>1. /\ UNCHANGED <<sold, setups, recorded, shown, seenPhrase, unshown>>
        /\ b.step = "finalize" /\ b.setup \in 1..MaxSetups /\ b.org \in 1..Len(sold)
        /\ sold[b.org] = b.setup
        /\ UNCHANGED keysFor \/ keysFor' = [keysFor EXCEPT ![b.setup] = b.org]
        /\ OL!Fail(w) \/ (/\ keysFor' = [keysFor EXCEPT ![b.setup] = b.org]
                          /\ UNCHANGED warned /\ OL!Advance(w, "record"))
    BY <1>4, <1>t, <1>b DEF OL!FinalizeOrgSetup, OL!TakeId, OL!At, OL!page, BuysRight, Paid, b
  <2>2. /\ keysFor' \in [1..MaxSetups -> Nat]
        /\ keysFor'[b.setup] \in {b.org, keysFor[b.setup]}
        /\ \A s \in 1..MaxSetups : s # b.setup => keysFor'[s] = keysFor[s]
    BY <1>t, <1>b, <2>1
  <2>3. shown # OL!NoPhrase => /\ shown.setup \in 1..MaxSetups
                               /\ shown.setup = b.setup => shown.org = b.org
    BY <1>t, <2>1 DEF PhraseShown, InvOL, SoldOnce
  <2>4. PhraseShown'
    BY <1>t, <2>1, <2>2, <2>3 DEF PhraseShown
  <2>5. CASE OL!Fail(w)
    BY <1>t, <1>r, <2>1, <2>2, <2>4, <2>5, RestsOL DEF b
  <2>6. CASE /\ keysFor' = [keysFor EXCEPT ![b.setup] = b.org]
             /\ UNCHANGED warned /\ OL!Advance(w, "record")
    <3>1. /\ buying' = [buying EXCEPT ![w] = buying'[w]] /\ buying'[w] \in Purchasing
          /\ buying'[w].step = "record" /\ buying'[w].setup = b.setup /\ buying'[w].org = b.org
      BY <1>a, <2>6 DEF Paid
    <3>2. keysFor'[b.setup] = b.org
      BY <1>t, <2>1, <2>6
    <3>3. BuysRight(w)'
      BY <2>1, <3>1, <3>2 DEF BuysRight, Unpaid, Paid
    <3> QED BY <1>t, <2>1, <2>2, <2>4, <2>6, <3>1, <3>3, GoesOnOL DEF b
  <2> QED BY <2>1, <2>5, <2>6
<1>5. CASE OL!RecordOrg(w)
  <2>1. /\ UNCHANGED <<sold, setups, keysFor, shown, seenPhrase, unshown>>
        /\ b.step = "record" /\ b.setup # 0 /\ b.org \in 1..Len(sold) /\ b.org # 0
        /\ sold[b.org] = b.setup /\ keysFor[b.setup] = b.org
        /\ recorded' = recorded \/ (recorded = 0 /\ recorded' = b.org)
        /\ OL!Fail(w) \/ (recorded' = b.org /\ UNCHANGED warned /\ OL!Advance(w, "show"))
    BY <1>5, <1>t DEF OL!RecordOrg, OL!At, OL!page, OL!None, BuysRight, Paid, b
  <2>2. PhraseShown' /\ recorded' \in Nat
    BY <1>t, <1>b, <2>1 DEF PhraseShown
  <2>3. CASE OL!Fail(w)
    BY <1>t, <1>r, <2>1, <2>2, <2>3, RestsOL DEF b
  <2>4. CASE recorded' = b.org /\ UNCHANGED warned /\ OL!Advance(w, "show")
    <3>1. /\ buying' = [buying EXCEPT ![w] = buying'[w]] /\ buying'[w] \in Purchasing
          /\ buying'[w].step = "show" /\ buying'[w].setup = b.setup /\ buying'[w].org = b.org
      BY <1>a, <2>4 DEF Paid
    <3>2. BuysRight(w)'
      BY <2>1, <2>4, <3>1 DEF BuysRight, Unpaid, Paid
    <3> QED BY <1>t, <2>1, <2>2, <2>4, <3>1, <3>2, GoesOnOL DEF b
  <2> QED BY <2>1, <2>3, <2>4
<1>6. CASE OL!ShowPhrase(w)
  <2>1. /\ UNCHANGED <<sold, setups, keysFor, recorded, warned>>
        /\ b.step = "show" /\ OL!Advance(w, "confirm")
        /\ b.setup # 0 /\ b.org \in 1..Len(sold) /\ sold[b.org] = b.setup
        /\ keysFor[b.setup] = b.org /\ recorded = b.org
        /\ seenPhrase \subseteq seenPhrase' /\ unshown \subseteq unshown'
        /\ b.setup \in seenPhrase' \cup unshown'
        /\ shown' = shown \/ shown' = [setup |-> b.setup, org |-> b.org]
    BY <1>6, <1>t DEF OL!ShowPhrase, OL!At, BuysRight, Paid, b
  <2>2. PhraseShown' /\ shown' \in [setup : 0..MaxSetups, org : Nat]
    BY <1>t, <1>b, <2>1 DEF PhraseShown
  <2>3. /\ buying' = [buying EXCEPT ![w] = buying'[w]] /\ buying'[w] \in Purchasing
        /\ buying'[w].step = "confirm" /\ buying'[w].setup = b.setup /\ buying'[w].org = b.org
    BY <1>a, <2>1 DEF Paid
  <2>4. BuysRight(w)'
    BY <2>1, <2>3 DEF BuysRight, Unpaid, Paid
  <2> QED
    BY <1>t, <2>1, <2>2, <2>3, <2>4, GoesOnOL DEF b
<1>7. CASE OL!AwaitConfirmation(w)
  <2>1. /\ UNCHANGED <<sold, setups, keysFor, recorded, shown, warned, seenPhrase, unshown>>
        /\ OL!Rest(w) /\ b.setup \in seenPhrase \cup unshown
    BY <1>7, <1>t DEF OL!AwaitConfirmation, OL!At, OL!page, BuysRight, b
  <2>2. PhraseShown'
    BY <1>t, <2>1 DEF PhraseShown
  <2> QED
    BY <1>t, <2>1, <2>2, RestsOL DEF b
<1> QED
  BY <1>1, <1>2, <1>3, <1>4, <1>5, <1>6, <1>7 DEF OL!Purchase

\* Every step keeps it: a purchase's, another buyer's, a page left and a reload.
LEMMA NextOL == InvOL /\ [OL!Next]_ofOL => InvOL'
<1> SUFFICES ASSUME InvOL, [OL!Next]_ofOL PROVE InvOL'
  OBVIOUS
<1>n. MaxSetups \in Nat
  BY BoundsAssumption
<1>s. ASSUME UNCHANGED <<sold, buying, setups, keysFor, recorded, shown, warned, seenPhrase,
                         unshown>>
      PROVE  InvOL'
  BY <1>s DEF InvOL, TypeOL, SoldOnce, Buys, BuysRight, PhraseShown, NeverSilent, Told
<1>0. CASE UNCHANGED ofOL
  BY <1>0, <1>s DEF ofOL
<1>1. CASE OL!CreateIdentity \/ OL!LinkWallet \/ OL!LoadCurrentSlot \/ OL!OpenConfirmModal
           \/ OL!Cancel \/ OL!StartRecoveryVerification \/ OL!RecoveryConfirmSubmit
  BY <1>1, <1>s DEF OL!CreateIdentity, OL!LinkWallet, OL!LoadCurrentSlot, OL!OpenConfirmModal,
     OL!Cancel, OL!StartRecoveryVerification, OL!RecoveryConfirmSubmit, OL!page, OL!account
<1>2. CASE OL!OtherBuyer
  <2>1. /\ sold' = Append(sold, 0)
        /\ UNCHANGED <<buying, setups, keysFor, recorded, shown, warned, seenPhrase, unshown>>
    BY <1>2 DEF OL!OtherBuyer, OL!page, OL!None
  <2>0. 0 \in Nat /\ 0 <= setups
    BY <1>n DEF InvOL, TypeOL
  <2>2. /\ sold' \in Seq(Nat) /\ Len(sold') = Len(sold) + 1 /\ Len(sold) \in Nat
        /\ sold'[Len(sold) + 1] = 0
        /\ \A i \in 1..Len(sold) : i \in 1..Len(sold') /\ sold'[i] = sold[i]
        /\ 1..Len(sold') = (1..Len(sold)) \cup {Len(sold) + 1}
        /\ SoldOnce' /\ PhraseShown'
    BY <2>0, <2>1, SellsOL
  <2>3. TypeOL'
    BY <2>1, <2>2 DEF InvOL, TypeOL
  <2>4. \A i \in 1..Len(sold') : i \in 1..Len(sold) \/ sold'[i] = 0
    BY <2>2
  <2>5. \A w \in OL!Purchases : BuysRight(w)'
    BY <2>0, <2>1, <2>2, <2>4, SoldToOther
  <2>6. Buys'
    BY <2>1, <2>5 DEF InvOL, Buys
  <2>7. NeverSilent'
    BY <2>1, <2>2, <2>4 DEF InvOL, NeverSilent, Told
  <2> QED
    BY <2>2, <2>3, <2>6, <2>7 DEF InvOL
<1>3. CASE OL!ConfirmBuy
  <2>0. "here" \in OL!Purchases
    BY DEF OL!Purchases
  <2>1. /\ UNCHANGED <<sold, setups, keysFor, recorded, shown, warned, seenPhrase, unshown>>
        /\ buying["here"].step = "idle" /\ OL!Advance("here", "wallet")
    BY <1>3 DEF OL!ConfirmBuy, OL!Submitting, OL!Advance, OL!page
  <2>2. /\ buying' = [buying EXCEPT !["here"] = buying'["here"]]
        /\ buying'["here"] \in Purchasing /\ buying'["here"].step = "wallet"
        /\ buying'["here"].setup = buying["here"].setup
        /\ buying'["here"].org = buying["here"].org
    BY <2>0, <2>1 DEF InvOL, TypeOL, OL!Advance, Purchasing, Unpaid
  <2>3. buying["here"].setup = 0
    BY <2>0, <2>1 DEF InvOL, Buys, BuysRight, Unpaid
  <2>4. BuysRight("here")'
    BY <2>2, <2>3 DEF BuysRight, Unpaid, Paid
  <2>5. PhraseShown'
    BY <2>1 DEF InvOL, PhraseShown
  <2>6. /\ keysFor' \in [1..MaxSetups -> Nat] /\ recorded' \in Nat
        /\ shown' \in [setup : 0..MaxSetups, org : Nat]
    BY <2>1 DEF InvOL, TypeOL
  <2> QED
    BY <2>0, <2>1, <2>2, <2>4, <2>5, <2>6, GoesOnOL
<1>4. ASSUME NEW w \in OL!Purchases, OL!Purchase(w) PROVE InvOL'
  BY <1>4, PurchaseOL
<1>5. CASE OL!LeavePage
  <2>1. /\ UNCHANGED <<sold, setups, keysFor, recorded, warned, seenPhrase, unshown>>
        /\ shown' = OL!NoPhrase
        /\ OL!AtRest \in {buying[w] : w \in OL!Purchases}
        /\ buying'["here"] = OL!AtRest
        /\ buying'["left"] = IF OL!Submitting THEN buying["here"] ELSE buying["left"]
        /\ buying' \in [OL!Purchases -> Purchasing]
    BY <1>5, <1>n DEF OL!LeavePage, OL!Blank, InvOL, TypeOL, OL!Purchases, OL!AtRest, Purchasing,
       Unpaid
  <2>0. "here" \in OL!Purchases /\ "left" \in OL!Purchases
        /\ \A w \in OL!Purchases : w = "here" \/ w = "left"
    BY DEF OL!Purchases
  <2>2. OL!AtRest.step = "idle" /\ OL!AtRest.setup = 0
    BY DEF OL!AtRest
  <2>3. TypeOL' /\ SoldOnce' /\ PhraseShown'
    BY <1>n, <2>1 DEF InvOL, TypeOL, SoldOnce, PhraseShown, OL!NoPhrase
  <2>4. BuysRight("here")'
    BY <2>1, <2>2 DEF BuysRight, Unpaid, Paid
  <2>5. \A w \in OL!Purchases : BuysRight(w)
    BY DEF InvOL, Buys
  <2>6. BuysRight("left")'
    <3>1. CASE OL!Submitting
      BY <2>0, <2>1, <2>5, <3>1 DEF BuysRight
    <3>2. CASE ~OL!Submitting
      BY <2>0, <2>1, <2>5, <3>2 DEF BuysRight
    <3> QED BY <3>1, <3>2
  <2>7. Buys'
    BY <2>0, <2>1, <2>2, <2>4, <2>6 DEF Buys
  <2>8. /\ OL!Submitting => buying["left"].setup = 0
        /\ ~OL!Submitting => buying["here"].setup = 0
    <3>1. CASE OL!Submitting
      <4>1. buying["here"] # OL!AtRest
        BY <2>2, <3>1 DEF OL!Submitting
      <4> QED BY <2>0, <2>1, <2>2, <3>1, <4>1
    <3>2. CASE ~OL!Submitting
      BY <2>0, <2>5, <3>2 DEF OL!Submitting, BuysRight, Unpaid
    <3> QED BY <3>1, <3>2
  <2>9. ASSUME NEW i \in 1..Len(sold), sold[i] # 0, Told(i) PROVE Told(i)'
    <3>1. ASSUME NEW w \in OL!Purchases, buying[w].setup = sold[i], buying[w].org = i
          PROVE  buying'["left"] = buying[w]
      BY <2>0, <2>1, <2>8, <2>9, <3>1
    <3> QED BY <2>0, <2>1, <2>9, <3>1 DEF Told
  <2>10. NeverSilent'
    BY <2>1, <2>9 DEF InvOL, NeverSilent
  <2> QED
    BY <2>3, <2>7, <2>10 DEF InvOL
<1>6. CASE OL!Reload
  <2>1. /\ UNCHANGED <<sold, setups, keysFor, recorded, seenPhrase, unshown>>
        /\ shown' = OL!NoPhrase /\ buying' = [w \in OL!Purchases |-> OL!AtRest]
        /\ warned' = warned \cup ({buying[w].setup : w \in OL!Purchases} \ {0})
    BY <1>6 DEF OL!Reload, OL!Blank
  <2>2. \A w \in OL!Purchases : buying'[w].step = "idle" /\ buying'[w].setup = 0
    BY <2>1 DEF OL!AtRest
  <2>3. TypeOL' /\ SoldOnce' /\ PhraseShown'
    BY <1>n, <2>1 DEF InvOL, TypeOL, SoldOnce, PhraseShown, OL!NoPhrase, OL!AtRest, Purchasing,
       Unpaid
  <2>4. Buys'
    BY <2>2 DEF Buys, BuysRight, Unpaid, Paid
  <2>5. NeverSilent'
    BY <2>1 DEF InvOL, NeverSilent, Told
  <2> QED
    BY <2>3, <2>4, <2>5 DEF InvOL
<1> QED
  BY <1>0, <1>1, <1>2, <1>3, <1>4, <1>5, <1>6 DEF OL!Next

\* The phrase on screen is right, and each sale is told of.
LEMMA InvOLSuffices == InvOL => OL!PhraseOpensOrg
<1> SUFFICES ASSUME InvOL PROVE OL!PhraseOpensOrg
  OBVIOUS
<1>1. shown # OL!NoPhrase => /\ sold[shown.org] = shown.setup
                             /\ keysFor[shown.setup] = shown.org /\ recorded = shown.org
  BY DEF InvOL, PhraseShown
<1>2. DOMAIN sold = 1..Len(sold)
  BY DEF InvOL, TypeOL
<1>3. \A i \in DOMAIN sold : sold[i] # OL!None => Told(i)
  BY <1>2 DEF InvOL, NeverSilent, OL!None
<1> QED BY <1>1, <1>3 DEF OL!PhraseOpensOrg, Told

\* handleConfirmBuy's chain of setup, broadcast, finalize and record: the phrase a buyer is
\* shown opens the organisation named beside it, and none that was paid for is lost unseen
\* but those whose page was left.
THEOREM PhrasesOpenOrgs == FairSpec => []PhraseOpensOrg
<1>1. Init => InvOL
  BY InitOL DEF Init
<1>2. InvOL /\ [Next]_vars => InvOL'
  BY MovesOL, NextOL
<1>3. InvOL => PhraseOpensOrg
  BY InvOLSuffices DEF PhraseOpensOrg
<1> QED
  BY <1>1, <1>2, <1>3, PTL DEF FairSpec

(***************************************************************************)
(* The settings of an organisation, and the lists of its members, join     *)
(* requests, reports, queue and finances.                                  *)
(***************************************************************************)
\* A read that was not cancelled is for the active organisation, and a form that shows no
\* sign of the contrary holds its values.  An editor opened on such a form, and since the last
\* change, began with them.
InvOS ==
  /\ visit \in Nat /\ late \in BOOLEAN
  /\ \A r \in requests :
       r.visit \in 0..visit /\ (r.visit = visit => r.org = activeOrg)
  /\ activeOrg \in Leads /\ ~loading /\ ~error /\ ~late /\ ~dismissed => holds = activeOrg
  /\ form = "serving" => ~dismissed /\ editor.visit \in 0..visit
  /\ form = "serving" /\ editor.open /\ activeOrg \in Leads /\ editor.visit = visit
       /\ ~editor.doubt => editor.org = activeOrg

\* Every change of the organisation, answer and save keeps it.
LEMMA NextOS == InvOS /\ [OS!Next]_ofOS => InvOS'
<1> SUFFICES ASSUME InvOS, [OS!Next]_ofOS PROVE InvOS'
  OBVIOUS
<1> USE OrgsAssumption DEF InvOS, OS!shown
<1>0. CASE UNCHANGED ofOS
  BY <1>0 DEF ofOS
<1>1. ASSUME NEW o \in UserOrgs \cup {NoOrg}, OS!SetActiveOrg(o) PROVE InvOS'
  <2>1. /\ activeOrg' = o /\ visit' = visit + 1 /\ form' = form
        /\ form = "serving" => editor' = editor
    BY <1>1 DEF OS!SetActiveOrg
  <2>e. form = "serving" => editor'.visit \in 0..visit' /\ editor'.visit # visit'
    BY <2>1
  <2>2. CASE OS!Ask(o)
    <3>1. /\ requests' = requests \cup {[org |-> o, visit |-> visit']} /\ late' = late
          /\ loading' /\ ~dismissed'
      BY <2>2 DEF OS!Ask
    <3>2. \A r \in requests' : r.visit \in 0..visit' /\ (r.visit = visit' => r.org = o)
      BY <2>1, <3>1
    <3> QED
      BY <2>1, <2>e, <3>1, <3>2
  <2>3. CASE o \notin Leads /\ UNCHANGED <<requests, late, dismissed>>
    BY <2>1, <2>e, <2>3
  <2>4. CASE o \notin Leads /\ OS!Clear
    <3>1. UNCHANGED requests /\ late' \in BOOLEAN /\ ~dismissed'
      BY <2>4 DEF OS!Clear
    <3> QED
      BY <2>1, <2>e, <2>4, <3>1
  <2> QED
    BY <1>1, <2>2, <2>3, <2>4
       DEF OS!SetActiveOrg, OS!LoadTransferMembers, OS!LoadExtractionProfile,
           OS!LoadRecallRateLimit, OS!LoadChainConfig, OS!LoadServing, OS!AskOrClear
<1>2. ASSUME NEW r \in requests, OS!ReadEnds(r) PROVE InvOS'
  <2>0. UNCHANGED <<form, activeOrg, visit, editor>> /\ requests' = requests \ {r}
    BY <1>2 DEF OS!ReadEnds
  <2>1. CASE OS!Cancelled(r)
    BY <1>2, <2>0, <2>1 DEF OS!ReadEnds
  <2>2. CASE ~OS!Cancelled(r)
    BY <1>2, <2>0, <2>2 DEF OS!ReadEnds, OS!Cancelled
  <2> QED
    BY <2>1, <2>2
<1>3. CASE OS!OpenEditor
  <2>1. UNCHANGED <<form, activeOrg, visit, requests, loading, error, holds, late, dismissed>>
    BY <1>3 DEF OS!OpenEditor
  <2>2. CASE OS!OpenServingEditor
    <3>1. editor'.visit = visit /\ editor'.org = holds
          /\ (~editor'.doubt => ~loading /\ ~error /\ ~late)
      BY <2>2 DEF OS!OpenServingEditor
    <3> QED
      BY <2>1, <3>1
  <2>3. CASE OS!OpenDialog
    BY <2>1, <2>3 DEF OS!OpenDialog
  <2> QED
    BY <1>3, <2>2, <2>3 DEF OS!OpenEditor
<1>4. CASE OS!CancelEditor
  BY <1>4 DEF OS!CancelEditor, OS!Closed
<1>5. CASE OS!SelectExtractionPreset
  BY <1>5 DEF OS!SelectExtractionPreset
<1>6. CASE OS!Save
  BY <1>6 DEF OS!Save
<1>7. CASE OS!SaveEnds
  <2>1. /\ UNCHANGED <<form, activeOrg, visit, requests, loading>>
        /\ form = "serving" => editor' \in {OS!Closed, editor}
        /\ \/ holds' = saving /\ late' = (saving # activeOrg) /\ ~dismissed'
           \/ UNCHANGED <<holds, late, dismissed>> /\ error' \in {error, TRUE}
    BY <1>7 DEF OS!SaveEnds, OS!TransferEnds, OS!ServingEnds, OS!ChainConfigEnds,
                OS!RecallRateLimitEnds, OS!ExtractionProfileEnds, OS!PutInForm
  <2>e. /\ form = "serving" => editor'.visit \in 0..visit
        /\ form = "serving" /\ editor'.open => editor' = editor
    <3>1. visit \in Nat /\ (form = "serving" => editor.visit \in 0..visit)
      OBVIOUS
    <3>2. 0 \in 0..visit /\ OS!Closed.visit = 0 /\ OS!Closed.open = FALSE
      BY <3>1 DEF OS!Closed
    <3> HIDE DEF InvOS
    <3> QED BY <2>1, <3>1, <3>2
  <2>2. CASE holds' = saving /\ late' = (saving # activeOrg) /\ ~dismissed'
    <3>1. late' \in BOOLEAN /\ (~late' => holds' = activeOrg)
      BY <2>2
    <3>2. visit' = visit /\ activeOrg' = activeOrg /\ form' = form /\ requests' = requests
      BY <2>1
    <3> QED BY <2>2, <2>e, <3>1, <3>2
  <2>3. CASE UNCHANGED <<holds, late, dismissed>> /\ error' \in {error, TRUE}
    <3>1. /\ visit' = visit /\ activeOrg' = activeOrg /\ form' = form /\ requests' = requests
          /\ loading' = loading /\ late' = late /\ dismissed' = dismissed /\ holds' = holds
      BY <2>1, <2>3
    <3>2. CASE error' = error
      BY <2>e, <3>1, <3>2
    <3>3. CASE error' = TRUE
      BY <2>e, <3>1, <3>3
    <3> QED BY <2>3, <3>2, <3>3
  <2> QED
    BY <2>1, <2>2, <2>3
<1> QED
  BY <1>0, <1>1, <1>2, <1>3, <1>4, <1>5, <1>6, <1>7 DEF OS!Next

\* Rows without one of the marks are of the active organisation, whatever the page is.
Marked == waiting \/ strayed \/ kept \/ unread \/ identifying # {}

InvLI == Marked \/ NoOrg \in {current, rows} \/ rows = current

\* Every change of the organisation, answer, dialog and action keeps it.
LEMMA NextLI == InvLI /\ [LI!Next]_ofLI => InvLI'
<1> SUFFICES ASSUME InvLI, [LI!Next]_ofLI PROVE InvLI'
  OBVIOUS
<1> USE DEF InvLI, Marked, LI!Load, LI!RefreshMembers, LI!LoadRequests, LI!RefreshReports,
            LI!LoadQueue, LI!LoadFinances, LI!Begin, LI!asked, LI!shownRows
<1>0. CASE UNCHANGED ofLI
  BY <1>0 DEF ofLI
<1>1. ASSUME NEW o \in Leads \cup {NoOrg}, LI!SetActiveOrg(o) PROVE InvLI'
  BY <1>1 DEF LI!SetActiveOrg, LI!MembersEffect, LI!ReviewEffect, LI!ListEffect
<1>2. ASSUME NEW o \in Leads, LI!Identified(o) \/ LI!Answer(o) PROVE InvLI'
  BY <1>2 DEF LI!Identified, LI!Answer
<1>3. CASE LI!Reread \/ LI!Connect
  BY <1>3 DEF LI!Reread, LI!Connect
<1>4. CASE LI!Disconnect
  BY <1>4 DEF LI!Disconnect
<1>5. CASE LI!ToggleStagedCapability \/ LI!Dialog
  BY <1>5 DEF LI!ToggleStagedCapability, LI!Dialog
<1>6. ASSUME NEW a \in LI!Actions, LI!Act(a) PROVE InvLI'
  BY <1>6 DEF LI!Act
<1>7. ASSUME NEW a \in LI!Actions, NEW o \in Leads, LI!ActionEnds(a, o) PROVE InvLI'
  BY <1>7 DEF LI!ActionEnds, LI!Succeeded, LI!Failed
<1> QED
  BY <1>0, <1>1, <1>2, <1>3, <1>4, <1>5, <1>6, <1>7 DEF LI!Next

\* The effects that reload a form or a list when the active organisation changes: outside the
\* gaps that OS!Doubtful and the marks of OrgLists name, what a click writes or acts on is of
\* the active organisation.
THEOREM FormsShowTheirOrg == FairSpec => []FormShowsItsOrg
<1>1. Init => InvOS /\ InvLI
  <2>1. OS!Init => InvOS
    <3> SUFFICES ASSUME OS!Init PROVE InvOS
      OBVIOUS
    <3>1. late = FALSE /\ requests = {} /\ visit = 0 /\ dismissed = FALSE /\ editor.visit = 0
      BY DEF OS!Init, OS!Closed
    <3>2. activeOrg \notin Leads
      BY OrgsAssumption DEF OS!Init
    <3>3. visit \in Nat /\ 0 \in 0..visit
      BY <3>1
    <3> QED
      BY <3>1, <3>2, <3>3, Zenon DEF InvOS
  <2>2. LI!Init => InvLI
    BY DEF LI!Init, InvLI
  <2> QED
    BY <2>1, <2>2 DEF Init
<1>2. InvOS /\ InvLI /\ [Next]_vars => InvOS' /\ InvLI'
  BY MovesOS, MovesLI, NextOS, NextLI
<1>3. InvOS => OS!FormShowsItsOrg
  BY DEF InvOS, OS!FormShowsItsOrg, OS!Doubtful, OS!Written, OS!CanSave, OS!CanTransfer,
         OS!CanSaveServing, OS!CanSaveProfile, OS!CanToggleReceipts, OS!CanSaveRate,
         OS!Enabled, OS!Offered
<1>4. InvLI => LI!RowsAreOfTheOrg
  BY DEF InvLI, Marked, LI!RowsAreOfTheOrg, LI!Actionable, LI!MembersOffered,
         LI!RequestsOffered, LI!ReportsOffered, LI!VotesOffered, LI!TopUpOffered
<1>5. InvOS /\ InvLI => FormShowsItsOrg
  BY <1>3, <1>4 DEF FormShowsItsOrg
<1> QED
  BY <1>1, <1>2, <1>5, PTL DEF FairSpec

(***************************************************************************)
(* The sessions page.                                                      *)
(***************************************************************************)
\* The re-extract question is compared with the transcript that is held when it is answered:
\* no session with a draft or a record is queued without a question about it.
THEOREM NeverUnasked == FairSpec => []NeverAgainUnasked
<1> DEFINE Inv == SP!NeverAgainUnasked
<1>1. Init => Inv
  BY DEF Init, SP!Init, SP!NeverAgainUnasked
<1>2. Inv /\ [SP!Next]_ofSP => Inv'
  BY DEF SP!NeverAgainUnasked, SP!Next, ofSP, SP!OpenPage, SP!LeavePage, SP!LoadReadiness,
         SP!LoadExtractedSessions, SP!TryAgain, SP!RequestExtraction, SP!ConfirmReextract,
         SP!CloseReextractModal, SP!ResumeParkedSession, SP!SelectSession,
         SP!LoadSessionDetail, SP!JobEnds, SP!DraftLeaves, SP!EnqueueActiveSession, SP!queueView
<1>3. Inv /\ [Next]_vars => Inv'
  BY <1>2, MovesSP
<1>4. Inv => NeverAgainUnasked
  BY DEF NeverAgainUnasked
<1> QED
  BY <1>1, <1>3, <1>4, PTL DEF FairSpec

(***************************************************************************)
(* The broadcast client.                                                   *)
(***************************************************************************)
\* The transactions that may be signed: the sequence is that of the account.
Wires == Msgs \X Nat
Started == {"polling", "done", "unsure"}

TypeBC ==
  /\ msg \in [Calls -> Msgs] /\ tx \in [Calls -> Wires]
  /\ phase \in [Calls -> {"idle", "signed", "polling", "done", "failed", "unsure"}]
  /\ mempool \in Seq(Wires) /\ sequence \in Nat
  /\ executed \subseteq Wires /\ reverted \subseteq Wires

\* A call keeps its message, and one that has failed for good signs no more.
Signs ==
  /\ \A c \in Calls : tx[c][1] = msg[c]
  /\ \A c \in doubtful : phase[c] = "failed"

\* The account's sequence: the node's queue continues it, and a block never holds a
\* transaction twice, not even after a restart in which the node forgot it.
InSequence ==
  /\ \A k \in 1..Len(mempool) : mempool[k][2] = sequence + k - 1
  /\ \A t \in executed \cup reverted : t[2] < sequence
  /\ executed \cap reverted = {}

\* What has been executed, or may be, was sent by a call that has not failed plainly.
SentBy(t, c) == tx[c] = t /\ (phase[c] \in Started \/ c \in doubtful)
SentByNext(t) == \E c \in Calls : tx'[c] = t /\ (phase'[c] \in Started \/ c \in doubtful')
Backed ==
  /\ \A t \in executed : \E c \in Calls : SentBy(t, c)
  /\ \A k \in 1..Len(mempool) : \E c \in Calls : SentBy(mempool[k], c)
  /\ \A c \in Calls : phase[c] = "done" => tx[c] \in executed

InvBC == TypeBC /\ Signs /\ InSequence /\ Backed

\* It holds before the first call.
LEMMA InitBC == BC!Init => InvBC
<1> SUFFICES ASSUME BC!Init PROVE InvBC
  OBVIOUS
<1> USE DEF BC!Init
<1>1. TypeBC
  BY DEF TypeBC, Wires
<1>2. Len(mempool) = 0
  OBVIOUS
<1> QED BY <1>1, <1>2 DEF InvBC, Signs, InSequence, Backed

\* A step that leaves the calls but c as they are, and c not yet sent or still sent.
LEMMA StillSent ==
  ASSUME TypeBC, NEW c \in Calls, doubtful \subseteq doubtful',
         \A d \in Calls : d # c => tx'[d] = tx[d] /\ phase'[d] = phase[d],
         NEW t, \E d \in Calls : SentBy(t, d),
         SentBy(t, c) => SentByNext(t)
  PROVE  SentByNext(t)
<1>1. PICK d \in Calls : SentBy(t, d)
  OBVIOUS
<1>2. CASE d # c
  BY <1>1, <1>2 DEF SentBy, SentByNext
<1> QED BY <1>1, <1>2

\* The node takes a transaction in, or has it already.
LEMMA Takes ==
  ASSUME InvBC, NEW c \in Calls, phase[c] = "signed",
         UNCHANGED <<msg, tx, sequence, executed, reverted>>, doubtful \subseteq doubtful',
         \/ UNCHANGED mempool
         \/ BC!Expected(tx[c]) /\ mempool' = Append(mempool, tx[c]),
         NEW q \in {"idle", "polling", "failed"}, phase' = [phase EXCEPT ![c] = q],
         mempool' # mempool => q = "polling" \/ c \in doubtful',
         \A d \in doubtful' : d \in doubtful \/ (d = c /\ q = "failed")
  PROVE  InvBC'
<1> USE DEF InvBC
<1>0. tx[c] \in Wires /\ Len(mempool) \in Nat /\ c \notin doubtful
  BY DEF TypeBC, Signs
<1>1. TypeBC'
  BY <1>0 DEF TypeBC
<1>2. Signs'
  BY DEF Signs, TypeBC
<1>3. ASSUME NEW t, \E d \in Calls : SentBy(t, d) PROVE SentByNext(t)
  <2>1. ~ SentBy(t, c)
    BY <1>0 DEF SentBy, Started
  <2> QED BY <1>3, <2>1, StillSent DEF TypeBC
<1>4. \A d \in Calls : phase'[d] = "done" => tx'[d] \in executed'
  BY DEF Backed, TypeBC
<1>5. CASE UNCHANGED mempool
  <2>1. InSequence'
    BY <1>5 DEF InSequence
  <2>2. \A t \in executed' : SentByNext(t)
    BY <1>3 DEF Backed
  <2>3. \A k \in 1..Len(mempool') : SentByNext(mempool'[k])
    BY <1>3, <1>5 DEF Backed
  <2> QED BY <1>1, <1>2, <1>4, <2>1, <2>2, <2>3 DEF Backed, SentByNext, SentBy
<1>6. CASE BC!Expected(tx[c]) /\ mempool' = Append(mempool, tx[c])
  <2>1. /\ Len(mempool') = Len(mempool) + 1 /\ mempool'[Len(mempool')] = tx[c]
        /\ \A k \in 1..Len(mempool) : mempool'[k] = mempool[k]
        /\ 1..Len(mempool') = (1..Len(mempool)) \cup {Len(mempool')}
    BY <1>0, <1>6 DEF TypeBC
  <2>2. tx[c][2] = sequence + Len(mempool)
    BY <1>6 DEF BC!Expected
  <2>3. InSequence'
    <3>1. \A k \in 1..Len(mempool) : mempool'[k][2] = sequence + k - 1
      BY <2>1 DEF InSequence
    <3>2. mempool'[Len(mempool')][2] = sequence + Len(mempool') - 1
      BY <1>0, <2>1, <2>2 DEF TypeBC
    <3>3. \A k \in 1..Len(mempool') : mempool'[k][2] = sequence' + k - 1
      BY <2>1, <3>1, <3>2
    <3> QED BY <3>3 DEF InSequence
  <2>4. SentByNext(tx[c])
    <3>1. mempool' # mempool
      BY <1>0, <2>1
    <3>2. phase'[c] \in Started \/ c \in doubtful'
      BY <3>1 DEF Started, TypeBC
    <3> QED BY <3>2 DEF SentByNext
  <2>5. ASSUME NEW k \in 1..Len(mempool') PROVE SentByNext(mempool'[k])
    <3>1. CASE k = Len(mempool')
      BY <2>1, <2>4, <3>1
    <3>2. CASE k \in 1..Len(mempool)
      BY <1>3, <2>1, <3>2 DEF Backed
    <3> QED BY <2>1, <3>1, <3>2
  <2>6. \A t \in executed' : SentByNext(t)
    BY <1>3 DEF Backed
  <2> QED BY <1>1, <1>2, <1>4, <2>3, <2>5, <2>6 DEF Backed, SentByNext, SentBy
<1> QED BY <1>5, <1>6

\* Every step of a call, of the chain and of the node keeps it.
LEMMA NextBC == InvBC /\ [BC!Next]_ofBC => InvBC'
<1> SUFFICES ASSUME InvBC, [BC!Next]_ofBC PROVE InvBC'
  OBVIOUS
<1> USE DEF InvBC, BC!Goto, BC!node
<1>0. CASE UNCHANGED ofBC
  BY <1>0 DEF ofBC, TypeBC, Signs, InSequence, Backed, SentBy
<1>1. ASSUME NEW c \in Calls, BC!Sign(c) PROVE InvBC'
  <2>1. c \notin doubtful /\ phase[c] = "idle"
    BY <1>1 DEF BC!Sign, Signs
  <2>0. PICK q \in {"signed", "failed"}, w \in Wires :
          phase' = [phase EXCEPT ![c] = q] /\ tx' = [tx EXCEPT ![c] = w] /\ w[1] = msg[c]
    <3>1. tx[c] \in Wires /\ tx[c][1] = msg[c] /\ tx = [tx EXCEPT ![c] = tx[c]]
      BY DEF TypeBC, Signs
    <3>2. <<msg[c], sequence>> \in Wires /\ <<msg[c], sequence>>[1] = msg[c]
      BY DEF TypeBC, Wires
    <3> QED BY <1>1, <3>1, <3>2 DEF BC!Sign
  <2>2. TypeBC'
    BY <1>1, <2>0 DEF BC!Sign, TypeBC
  <2>3. Signs'
    BY <1>1, <2>0, <2>1 DEF BC!Sign, Signs, TypeBC
  <2>4. ASSUME NEW t, \E d \in Calls : SentBy(t, d) PROVE SentByNext(t)
    <3>1. ~ SentBy(t, c)
      BY <2>1 DEF SentBy, Started
    <3>2. \A d \in Calls : d # c => tx'[d] = tx[d] /\ phase'[d] = phase[d]
      BY <1>1 DEF BC!Sign, TypeBC
    <3> QED BY <1>1, <2>4, <3>1, <3>2, StillSent DEF BC!Sign
  <2>5. UNCHANGED <<mempool, sequence, executed, reverted>>
    BY <1>1 DEF BC!Sign
  <2>6. \A d \in Calls : phase'[d] = "done" => tx'[d] \in executed'
    BY <1>1, <2>5 DEF BC!Sign, Backed, TypeBC
  <2> QED BY <2>2, <2>3, <2>4, <2>5, <2>6 DEF InSequence, Backed, SentByNext, SentBy
<1>2. ASSUME NEW c \in Calls, BC!DirectBroadcast(c) PROVE InvBC'
  <2>0. phase[c] = "signed" /\ UNCHANGED <<msg, tx, sequence, executed, reverted>>
    BY <1>2 DEF BC!DirectBroadcast
  <2>1. CASE BC!Accepted(c)
    BY <2>0, <2>1, Takes DEF BC!Accepted, BC!Enter
  <2>2. CASE BC!SequenceMismatch(c)
    <3>1. phase' = [phase EXCEPT ![c] = "failed"] \/ phase' = [phase EXCEPT ![c] = "idle"]
      BY <2>2 DEF BC!SequenceMismatch
    <3> QED BY <2>0, <2>2, <3>1, Takes DEF BC!SequenceMismatch
  <2>3. CASE BC!Refused(c)
    BY <2>0, <2>3, Takes DEF BC!Refused
  <2>4. CASE BC!ReplyLost(c)
    BY <2>0, <2>4, Takes DEF BC!ReplyLost, BC!Enter
  <2> QED BY <1>2, <2>1, <2>2, <2>3, <2>4 DEF BC!DirectBroadcast
<1>3. ASSUME NEW c \in Calls, BC!PollForInclusion(c) PROVE InvBC'
  <2>0. /\ phase[c] = "polling" /\ c \notin doubtful
        /\ UNCHANGED <<msg, tx, doubtful, mempool, sequence, executed, reverted>>
    BY <1>3 DEF BC!PollForInclusion, Signs
  <2>1. PICK q \in {"done", "failed", "unsure"} :
          /\ phase' = [phase EXCEPT ![c] = q]
          /\ q = "done" => tx[c] \in executed
          /\ q = "failed" => tx[c] \in reverted
    BY <1>3 DEF BC!PollForInclusion
  <2>2. TypeBC'
    BY <2>0, <2>1 DEF TypeBC
  <2>3. Signs' /\ InSequence'
    BY <2>0, <2>1 DEF Signs, InSequence, TypeBC
  <2>4. \A d \in Calls : d # c => tx'[d] = tx[d] /\ phase'[d] = phase[d]
    BY <2>0, <2>1 DEF TypeBC
  <2>5. q # "failed" => phase'[c] \in Started
    BY <2>1 DEF TypeBC, Started
  <2>6. ASSUME NEW t, q = "failed" => t # tx[c], \E d \in Calls : SentBy(t, d)
        PROVE  SentByNext(t)
    <3>1. SentBy(t, c) => SentByNext(t)
      BY <2>0, <2>5, <2>6 DEF SentBy, SentByNext
    <3> QED BY <2>0, <2>4, <2>6, <3>1, StillSent
  <2>7. \A t \in executed : SentByNext(t)
    BY <2>1, <2>6 DEF Backed, InSequence
  <2>8. ASSUME NEW k \in 1..Len(mempool) PROVE SentByNext(mempool[k])
    <3>1. q = "failed" => mempool[k] # tx[c]
      <4>1. mempool[k][2] = sequence + k - 1 /\ k \in Nat /\ k >= 1 /\ sequence \in Nat
        BY DEF InSequence, TypeBC
      <4>2. q = "failed" => tx[c][2] < sequence
        BY <2>1 DEF InSequence
      <4>3. tx[c][2] \in Nat
        BY DEF TypeBC, Wires
      <4> QED BY <4>1, <4>2, <4>3
    <3>2. \E d \in Calls : SentBy(mempool[k], d)
      BY DEF Backed
    <3> QED BY <2>6, <3>1, <3>2
  <2>9. \A d \in Calls : phase'[d] = "done" => tx'[d] \in executed'
    BY <2>0, <2>1, <2>4 DEF Backed, TypeBC
  <2> QED BY <2>0, <2>2, <2>3, <2>7, <2>8, <2>9 DEF Backed, SentByNext, SentBy
<1>4. CASE BC!Include
  <2> DEFINE h == Head(mempool)
  <2>0. /\ mempool # <<>> /\ mempool' = Tail(mempool) /\ sequence' = sequence + 1
        /\ UNCHANGED <<msg, phase, tx, doubtful>>
        /\ \/ executed' = executed \cup {h} /\ reverted' = reverted
           \/ reverted' = reverted \cup {h} /\ executed' = executed
    BY <1>4 DEF BC!Include
  <2>1. /\ Len(mempool) \in Nat /\ Len(mempool) >= 1 /\ h = mempool[1] /\ h \in Wires
        /\ Len(mempool') = Len(mempool) - 1
        /\ \A k \in 1..Len(mempool') : mempool'[k] = mempool[k + 1] /\ k + 1 \in 1..Len(mempool)
        /\ mempool' \in Seq(Wires) /\ 1 \in 1..Len(mempool)
    BY <2>0 DEF TypeBC
  <2>2. TypeBC' /\ Signs'
    BY <2>0, <2>1 DEF TypeBC, Signs
  <2>3. h[2] = sequence /\ h \notin executed \cup reverted /\ sequence \in Nat
    <3>1. h[2] = sequence /\ sequence \in Nat
      BY <2>1 DEF InSequence, TypeBC
    <3> QED BY <3>1 DEF InSequence
  <2>4. InSequence'
    <3>1. \A k \in 1..Len(mempool') : mempool'[k][2] = sequence' + k - 1
      BY <2>0, <2>1, <2>3 DEF InSequence
    <3>2. ASSUME NEW t \in executed' \cup reverted' PROVE t[2] < sequence'
      <4>1. t = h \/ t \in executed \cup reverted
        BY <2>0
      <4>2. t[2] \in Nat
        BY <2>1, <4>1 DEF TypeBC, Wires
      <4> QED BY <2>0, <2>3, <4>1, <4>2 DEF InSequence
    <3>3. executed' \cap reverted' = {}
      BY <2>0, <2>3 DEF InSequence
    <3> QED BY <3>1, <3>2, <3>3 DEF InSequence
  <2>5. ASSUME NEW t, \E d \in Calls : SentBy(t, d) PROVE SentByNext(t)
    BY <2>0, <2>5 DEF SentBy, SentByNext
  <2>6. \E d \in Calls : SentBy(h, d)
    BY <2>1 DEF Backed
  <2>7. \A t \in executed' : SentByNext(t)
    BY <2>0, <2>5, <2>6 DEF Backed
  <2>8. \A k \in 1..Len(mempool') : SentByNext(mempool'[k])
    BY <2>1, <2>5 DEF Backed
  <2>9. \A d \in Calls : phase'[d] = "done" => tx'[d] \in executed'
    BY <2>0 DEF Backed
  <2> QED BY <2>2, <2>4, <2>7, <2>8, <2>9 DEF Backed, SentByNext, SentBy
<1>5. CASE BC!Restart
  <2>1. mempool' = <<>> /\ Len(mempool') = 0
        /\ UNCHANGED <<msg, phase, tx, doubtful, sequence, executed, reverted>>
    BY <1>5 DEF BC!Restart
  <2> QED BY <2>1 DEF TypeBC, Signs, InSequence, Backed, SentBy
<1> QED BY <1>0, <1>1, <1>2, <1>3, <1>4, <1>5 DEF BC!Next

\* The Cardinality that Broadcast takes from its own instance of FiniteSets.
LEMMA CardinalityBC == ASSUME NEW S PROVE BC!Cardinality(S) = Cardinality(S)
  BY DEF BC!Cardinality, Cardinality

\* Distinct transactions of a message were sent by distinct calls for it.
LEMMA InvBCSuffices == InvBC => BC!NeverMoreThanAsked
<1> SUFFICES ASSUME InvBC PROVE BC!NeverMoreThanAsked
  OBVIOUS
<1> USE DEF InvBC
<1>1. ASSUME NEW m \in Msgs
      PROVE  Cardinality({t \in executed : t[1] = m})
               <= Cardinality({c \in Calls : msg[c] = m /\ BC!MayExecute(c)})
  <2> DEFINE T == {t \in executed : t[1] = m}
             C == {c \in Calls : msg[c] = m /\ BC!MayExecute(c)}
             by == [t \in T |-> CHOOSE c \in Calls : SentBy(t, c)]
  <2>1. ASSUME NEW t \in T PROVE by[t] \in C /\ tx[by[t]] = t
    <3>1. by[t] \in Calls /\ SentBy(t, by[t])
      BY DEF Backed
    <3>2. msg[by[t]] = m
      BY <3>1 DEF SentBy, Signs
    <3> QED BY <3>1, <3>2 DEF SentBy, Started, BC!MayExecute
  <2>2. by \in [T -> C]
    BY <2>1
  <2>3. ASSUME NEW t \in T, NEW u \in T, by[t] = by[u] PROVE t = u
    <3>1. tx[by[t]] = t /\ tx[by[u]] = u
      BY <2>1
    <3> HIDE DEF by, T, C
    <3> QED BY <2>3, <3>1
  <2>4. by \in Injection(T, C)
    BY <2>2, <2>3 DEF Injection, IsInjective
  <2>5. IsFiniteSet(C)
    BY SetsAssumption, FS_Subset
  <2> HIDE DEF T, C, by
  <2> QED BY <2>4, <2>5, FS_Injection DEF T, C
<1>2. \A c \in Calls : phase[c] = "done" => tx[c] \in executed
  BY DEF Backed
<1> QED BY <1>1, <1>2, CardinalityBC DEF BC!NeverMoreThanAsked

\* directBroadcast tries again only after a mismatch, with a new sequence: whatever becomes of
\* the replies, and with a node that restarts and forgets what it had, a message is executed
\* no more often than there are calls for it that have not failed plainly, and what a call
\* reports done has been executed.
THEOREM ExecutedAsAsked == FairSpec => []NeverMoreThanAsked
<1>1. Init => InvBC
  BY InitBC DEF Init
<1>2. InvBC /\ [Next]_vars => InvBC'
  BY MovesBC, NextBC
<1>3. InvBC => NeverMoreThanAsked
  BY InvBCSuffices DEF NeverMoreThanAsked
<1> QED
  BY <1>1, <1>2, <1>3, PTL DEF FairSpec

(***************************************************************************)
(* The extraction queue.                                                   *)
(***************************************************************************)
McpJobs == [session : Sessions, state : {"running", "parked", "done", "failed"}]
Entries == [session : Sessions, resume : Nat]
Polls == {p \in [session : Sessions \cup {0}, id : Nat, phase : {"idle", "start", "poll"}] :
            /\ p.phase = "start" => p.id = 0
            /\ p.phase # "idle" => p.session \in Sessions}

TypeXQ ==
  /\ mcpJobs \in Seq(McpJobs) /\ xjobs \in Seq(Entries) /\ poll \in Polls
  /\ resuming \in [Sessions -> Nat]

\* While a resume request is on its way, the queue's entries of its session hold no job: the
\* answer, which replaces them, loses none.
NoneHeld == \A s \in Sessions : resuming[s] # 0 =>
              \A k \in 1..Len(xjobs) : xjobs[k].session = s => xjobs[k].resume = 0

IsWatched(i) ==
  \/ poll.phase = "poll" /\ poll.id = i
  \/ \E k \in 1..Len(xjobs) : xjobs[k].resume = i
  \/ \E s \in Sessions : resuming[s] = i
  \/ i \in orphans
Watching == \A i \in 1..Len(mcpJobs) : mcpJobs[i].state = "running" => IsWatched(i)

InvXQ == TypeXQ /\ NoneHeld /\ Watching

\* It holds when the page opens first.
LEMMA InitXQ == XQ!Init => InvXQ
<1> SUFFICES ASSUME XQ!Init PROVE InvXQ
  OBVIOUS
<1>1. TypeXQ
  BY DEF XQ!Init, XQ!Resting, XQ!NoOne, XQ!None, TypeXQ, McpJobs, Entries, Polls
<1>2. Len(mcpJobs) = 0 /\ Len(xjobs) = 0
  BY DEF XQ!Init
<1> QED BY <1>1, <1>2 DEF InvXQ, NoneHeld, Watching

\* processNext starts the first entry, or leaves the job that runs alone.
LEMMA ProcessNextXQ ==
  ASSUME NEW q \in Seq(Entries), NEW busy \in Polls
  PROVE  /\ XQ!ProcessNext(q, busy) \in Polls
         /\ busy.phase = "poll" => XQ!ProcessNext(q, busy) = busy
<1>1. CASE busy.phase # "idle" \/ q = <<>>
  BY <1>1 DEF XQ!ProcessNext
<1>2. CASE ~ (busy.phase # "idle" \/ q = <<>>)
  <2>1. q[1] \in Entries
    BY <1>2
  <2>2. q[1].session \in Sessions /\ q[1].resume \in Nat
    BY <2>1 DEF Entries
  <2> QED BY <1>2, <2>2 DEF XQ!ProcessNext, XQ!None, Polls
<1> QED BY <1>1, <1>2

\* The entries without those of a session.
LEMMA WithoutSessionXQ ==
  ASSUME TypeXQ, NEW s
  PROVE  /\ XQ!WithoutSession(s) \in Seq(Entries)
         /\ \A k \in 1..Len(XQ!WithoutSession(s)) : \E i \in 1..Len(xjobs) :
              XQ!WithoutSession(s)[k] = xjobs[i] /\ xjobs[i].session # s
         /\ \A i \in 1..Len(xjobs) : xjobs[i].session # s =>
              \E k \in 1..Len(XQ!WithoutSession(s)) : XQ!WithoutSession(s)[k] = xjobs[i]
<1> DEFINE keep == {i \in DOMAIN xjobs : xjobs[i].session # s}
           q == Kept(xjobs, keep)
<1>1. XQ!WithoutSession(s) = q
  BY KeptXQ DEF XQ!WithoutSession
<1>2. /\ q \in Seq(Entries)
      /\ \A k \in DOMAIN q : \E i \in keep : q[k] = xjobs[i]
      /\ \A i \in keep : \E k \in DOMAIN q : q[k] = xjobs[i]
  <2>1. xjobs \in Seq(Entries) /\ keep \in SUBSET (DOMAIN xjobs)
    BY DEF TypeXQ
  <2> HIDE DEF keep
  <2> QED BY <2>1, KeptEntries
<1> HIDE DEF q
<1>3. DOMAIN q = 1..Len(q) /\ DOMAIN xjobs = 1..Len(xjobs)
  BY <1>2 DEF TypeXQ
<1>4. \A i : i \in keep <=> i \in 1..Len(xjobs) /\ xjobs[i].session # s
  BY <1>3
<1> HIDE DEF keep
<1>5. \A k \in 1..Len(q) : \E i \in 1..Len(xjobs) : q[k] = xjobs[i] /\ xjobs[i].session # s
  BY <1>2, <1>3, <1>4
<1>6. \A i \in 1..Len(xjobs) : xjobs[i].session # s => \E k \in 1..Len(q) : q[k] = xjobs[i]
  BY <1>2, <1>3, <1>4
<1> QED BY <1>1, <1>2, <1>5, <1>6

\* The running job leaves, and with it the session's entries: their jobs are lost if they
\* run, and the others stay watched.
LEMMA LeaveXQ ==
  ASSUME TypeXQ, NoneHeld, NEW lost, XQ!Leave(lost), UNCHANGED resuming,
         poll.phase # "idle", mcpJobs' \in Seq(McpJobs)
  PROVE  /\ TypeXQ' /\ NoneHeld'
         /\ \A i \in 1..Len(mcpJobs) : /\ mcpJobs[i].state = "running"
                                       /\ IsWatched(i)
                                       /\ poll.phase = "poll" => i # poll.id \/ i \in lost
                                       => IsWatched(i)'
         /\ \A i \in lost : IsWatched(i)'
<1>1. /\ xjobs' = XQ!WithoutSession(poll.session)
      /\ poll' = XQ!ProcessNext(xjobs', XQ!Resting)
      /\ orphans' = orphans \cup lost \cup XQ!Running(XQ!Overtaken)
  BY DEF XQ!Leave
<1>2. XQ!Resting \in Polls
  BY DEF XQ!Resting, XQ!None, Polls
<1>0. /\ xjobs' \in Seq(Entries)
      /\ \A k \in 1..Len(xjobs') : \E i \in 1..Len(xjobs) : xjobs'[k] = xjobs[i]
      /\ \A i \in 1..Len(xjobs) : xjobs[i].session # poll.session =>
           \E k \in 1..Len(xjobs') : xjobs'[k] = xjobs[i]
  <2> DEFINE q == XQ!WithoutSession(poll.session)
  <2>1. /\ q \in Seq(Entries)
        /\ \A k \in 1..Len(q) : \E i \in 1..Len(xjobs) : q[k] = xjobs[i]
        /\ \A i \in 1..Len(xjobs) : xjobs[i].session # poll.session =>
             \E k \in 1..Len(q) : q[k] = xjobs[i]
    <3>1. ASSUME NEW s, s = poll.session
          PROVE  /\ XQ!WithoutSession(s) \in Seq(Entries)
                 /\ \A k \in 1..Len(XQ!WithoutSession(s)) : \E i \in 1..Len(xjobs) :
                      XQ!WithoutSession(s)[k] = xjobs[i]
                 /\ \A i \in 1..Len(xjobs) : xjobs[i].session # s =>
                      \E k \in 1..Len(XQ!WithoutSession(s)) :
                        XQ!WithoutSession(s)[k] = xjobs[i]
      BY WithoutSessionXQ
    <3> QED BY <3>1
  <2>2. xjobs' = q
    BY <1>1
  <2> HIDE DEF q
  <2> QED BY <2>1, <2>2
<1>3. TypeXQ'
  BY <1>0, <1>1, <1>2, ProcessNextXQ DEF TypeXQ
<1>4. NoneHeld'
  BY <1>0 DEF NoneHeld
<1>5. ASSUME NEW i \in 1..Len(mcpJobs), mcpJobs[i].state = "running", IsWatched(i),
             poll.phase = "poll" => i # poll.id \/ i \in lost
      PROVE  IsWatched(i)'
  <2>1. CASE i \in orphans \cup lost \/ \E s \in Sessions : resuming[s] = i
    BY <1>1, <2>1 DEF IsWatched
  <2>2. ASSUME NEW k \in 1..Len(xjobs), xjobs[k].resume = i, i \notin lost PROVE IsWatched(i)'
    <3>1. CASE xjobs[k].session # poll.session
      BY <1>0, <2>2, <3>1 DEF IsWatched
    <3>2. CASE xjobs[k].session = poll.session
      <4>1. i # poll.id /\ i # 0
        BY <1>5, <2>2 DEF TypeXQ, Polls
      <4>2. xjobs[k] \in XQ!Entries(poll.session)
        BY <3>2 DEF XQ!Entries, XQ!Range, TypeXQ
      <4>3. i \in XQ!Overtaken
        BY <2>2, <4>1, <4>2 DEF XQ!Overtaken, XQ!None
      <4> QED BY <1>1, <1>5, <4>3 DEF XQ!Running, IsWatched
    <3> QED BY <3>1, <3>2
  <2> QED BY <1>5, <2>1, <2>2 DEF IsWatched
<1>6. \A i \in lost : IsWatched(i)'
  BY <1>1 DEF IsWatched
<1> QED BY <1>3, <1>4, <1>5, <1>6

\* A job of the MCP server changes its state.
LEMMA NewStateXQ ==
  ASSUME TypeXQ, NEW i \in 1..Len(mcpJobs), NEW e \in {"running", "parked", "done", "failed"},
         mcpJobs' = [mcpJobs EXCEPT ![i].state = e]
  PROVE  /\ mcpJobs' \in Seq(McpJobs) /\ Len(mcpJobs') = Len(mcpJobs) /\ mcpJobs'[i].state = e
         /\ \A j \in 1..Len(mcpJobs) : j # i => mcpJobs'[j] = mcpJobs[j]
<1> DEFINE r == [mcpJobs[i] EXCEPT !.state = e]
<1>1. mcpJobs \in Seq(McpJobs) /\ mcpJobs[i] \in McpJobs
  BY DEF TypeXQ
<1>2. r \in McpJobs /\ r.state = e
  BY <1>1 DEF McpJobs
<1>3. mcpJobs' = [mcpJobs EXCEPT ![i] = r]
  BY <1>1
<1> HIDE DEF r
<1> QED BY <1>1, <1>2, <1>3

\* Every step of the page and of the MCP server keeps it.
LEMMA NextXQ == InvXQ /\ [XQ!Next]_ofXQ => InvXQ'
<1> SUFFICES ASSUME InvXQ, [XQ!Next]_ofXQ PROVE InvXQ'
  OBVIOUS
<1> USE DEF InvXQ, XQ!None, XQ!queue, XQ!Ids
<1>a. CASE UNCHANGED <<mcpJobs, xjobs, poll, resuming, orphans>>
  BY <1>a DEF TypeXQ, NoneHeld, Watching, IsWatched
<1>b. Len(mcpJobs) \in Nat /\ Len(xjobs) \in Nat /\ poll \in Polls
  BY DEF TypeXQ
<1>1. ASSUME NEW s \in Sessions, XQ!EnqueueExtraction(s) PROVE InvXQ'
  <2>0. UNCHANGED <<mcpJobs, resuming, orphans>>
    BY <1>1 DEF XQ!EnqueueExtraction
  <2> DEFINE e == [session |-> s, resume |-> 0]
  <2>1. CASE xjobs' = Append(xjobs, e) /\ poll' = XQ!ProcessNext(xjobs', poll)
    <3>1. e \in Entries /\ e.resume = 0 /\ xjobs' \in Seq(Entries)
      BY <2>1 DEF Entries, TypeXQ
    <3>2. /\ Len(xjobs') = Len(xjobs) + 1 /\ xjobs'[Len(xjobs')] = e
          /\ \A k \in 1..Len(xjobs) : xjobs'[k] = xjobs[k]
          /\ 1..Len(xjobs') = (1..Len(xjobs)) \cup {Len(xjobs')}
      BY <2>1, <1>b, <3>1 DEF TypeXQ
    <3>3. poll' \in Polls /\ (poll.phase = "poll" => poll' = poll)
      BY <1>b, <2>1, <3>1, ProcessNextXQ
    <3> HIDE DEF e
    <3>4. TypeXQ'
      BY <2>0, <3>1, <3>3 DEF TypeXQ
    <3>5. NoneHeld'
      BY <2>0, <3>1, <3>2 DEF NoneHeld
    <3>6. Watching'
      BY <2>0, <3>2, <3>3 DEF Watching, IsWatched
    <3> QED BY <3>4, <3>5, <3>6
  <2>2. CASE UNCHANGED <<xjobs, poll>>
    BY <1>a, <2>0, <2>2
  <2> QED BY <1>1, <2>1, <2>2 DEF XQ!EnqueueExtraction
<1>2. ASSUME NEW lost, XQ!Leave(lost), poll.phase # "idle", UNCHANGED <<mcpJobs, resuming>>,
             poll.phase = "poll" => mcpJobs[poll.id].state # "running" \/ poll.id \in lost
      PROVE  InvXQ'
  <2>1. /\ TypeXQ' /\ NoneHeld'
        /\ \A i \in 1..Len(mcpJobs) : /\ mcpJobs[i].state = "running"
                                      /\ IsWatched(i)
                                      /\ poll.phase = "poll" => i # poll.id \/ i \in lost
                                      => IsWatched(i)'
    BY <1>2, LeaveXQ DEF TypeXQ
  <2>2. ASSUME NEW i \in 1..Len(mcpJobs), mcpJobs[i].state = "running" PROVE IsWatched(i)'
    <3>1. IsWatched(i)
      BY <2>2 DEF Watching
    <3>2. poll.phase = "poll" => i # poll.id \/ i \in lost
      BY <1>2, <2>2
    <3> QED BY <2>1, <2>2, <3>1, <3>2
  <2> QED BY <1>2, <2>1, <2>2 DEF Watching
<1>3. ASSUME poll.phase = "start", XQ!Create
      PROVE  /\ mcpJobs' \in Seq(McpJobs) /\ Len(mcpJobs') = Len(mcpJobs) + 1
             /\ \A i \in 1..Len(mcpJobs) : mcpJobs'[i] = mcpJobs[i]
             /\ 1..Len(mcpJobs') = (1..Len(mcpJobs)) \cup {Len(mcpJobs')}
  <2> DEFINE j == [session |-> poll.session, state |-> "running"]
  <2>1. j \in McpJobs /\ mcpJobs \in Seq(McpJobs) /\ mcpJobs' = Append(mcpJobs, j)
    BY <1>3 DEF XQ!Create, TypeXQ, Polls, McpJobs
  <2> HIDE DEF j
  <2> QED BY <1>b, <2>1
<1>4. CASE XQ!StartJob
  <2>0. poll.phase = "start" /\ UNCHANGED resuming
    BY <1>4 DEF XQ!StartJob
  <2>1. CASE XQ!JobAccepted
    <3>1. XQ!Create /\ poll' = [poll EXCEPT !.id = Len(mcpJobs'), !.phase = "poll"]
          /\ UNCHANGED <<xjobs, orphans>>
      BY <2>1 DEF XQ!JobAccepted
    <3>2. poll' \in Polls /\ poll'.phase = "poll" /\ poll'.id = Len(mcpJobs')
      <4>1. Len(mcpJobs') \in Nat /\ poll.session \in Sessions
        BY <1>3, <1>b, <2>0, <3>1 DEF Polls
      <4>2. poll \in [session : Sessions \cup {0}, id : Nat, phase : {"idle", "start", "poll"}]
        BY <1>b DEF Polls
      <4>3. /\ poll' \in [session : Sessions \cup {0}, id : Nat,
                           phase : {"idle", "start", "poll"}]
            /\ poll'.session = poll.session
            /\ poll'.phase = "poll" /\ poll'.id = Len(mcpJobs')
        BY <3>1, <4>1, <4>2
      <4> QED BY <4>1, <4>3 DEF Polls
    <3>3. TypeXQ' /\ NoneHeld'
      BY <1>3, <2>0, <3>1, <3>2 DEF TypeXQ, NoneHeld
    <3>4. Watching'
      BY <1>3, <2>0, <3>1, <3>2 DEF Watching, IsWatched
    <3> QED BY <3>3, <3>4
  <2>2. CASE XQ!ProviderMissing
    BY <1>2, <2>0, <2>2 DEF XQ!ProviderMissing
  <2>3. CASE XQ!JobRefused
    BY <1>2, <2>0, <2>3 DEF XQ!JobRefused, XQ!LeaveFailed
  <2>4. CASE XQ!AcceptanceLost
    <3> DEFINE lost == {Len(mcpJobs')}
    <3>0. XQ!Create /\ XQ!Leave(lost)
      BY <2>4 DEF XQ!AcceptanceLost, XQ!LeaveFailed
    <3>1. /\ TypeXQ' /\ NoneHeld'
          /\ \A i \in 1..Len(mcpJobs) : /\ mcpJobs[i].state = "running"
                                        /\ IsWatched(i)
                                        /\ poll.phase = "poll" => i # poll.id \/ i \in lost
                                        => IsWatched(i)'
          /\ \A i \in lost : IsWatched(i)'
      BY <1>3, <2>0, <3>0, LeaveXQ
    <3>2. \A i \in 1..Len(mcpJobs) : mcpJobs[i].state = "running" => IsWatched(i)'
      BY <2>0, <3>1 DEF Watching
    <3>3. \A i : i = Len(mcpJobs') => IsWatched(i)'
      BY <3>1
    <3>4. \A i \in 1..Len(mcpJobs') : mcpJobs'[i].state = "running" => IsWatched(i)'
      BY <1>3, <2>0, <3>0, <3>2, <3>3
    <3> QED BY <3>1, <3>4 DEF Watching
  <2> QED BY <1>4, <2>1, <2>2, <2>3, <2>4 DEF XQ!StartJob
<1>5. CASE XQ!PollJob
  <2>1. \E a \in {"done", "parked", "failed"} : XQ!PollAnswer(a)
    BY <1>5 DEF XQ!PollJob, XQ!PersistDoneExtraction, XQ!Park, XQ!PollFailed
  <2>2. XQ!Leave({}) /\ UNCHANGED <<mcpJobs, resuming>>
    BY <1>5 DEF XQ!PollJob, XQ!PersistDoneExtraction, XQ!Park, XQ!PollFailed, XQ!LeaveFailed
  <2> QED BY <1>2, <2>1, <2>2 DEF XQ!PollAnswer
<1>6. CASE XQ!GiveUp
  BY <1>2, <1>6 DEF XQ!GiveUp, XQ!LeaveFailed, XQ!Running
<1>7. ASSUME NEW i \in 1..Len(mcpJobs), XQ!EndJob(i) PROVE InvXQ'
  <2>1. PICK e \in {"done", "failed", "parked"} : mcpJobs' = [mcpJobs EXCEPT ![i].state = e]
    BY <1>7 DEF XQ!EndJob
  <2>2. orphans' = orphans \ {i} /\ UNCHANGED <<xjobs, poll, resuming>>
    BY <1>7 DEF XQ!EndJob
  <2>3. /\ mcpJobs' \in Seq(McpJobs) /\ Len(mcpJobs') = Len(mcpJobs)
        /\ mcpJobs'[i].state # "running"
        /\ \A j \in 1..Len(mcpJobs) : j # i => mcpJobs'[j] = mcpJobs[j]
    BY <2>1, NewStateXQ
  <2>4. TypeXQ' /\ NoneHeld'
    BY <2>2, <2>3 DEF TypeXQ, NoneHeld
  <2>5. Watching'
    BY <2>2, <2>3 DEF Watching, IsWatched
  <2> QED BY <2>4, <2>5
<1>8. ASSUME NEW s \in Sessions, XQ!ResumeParkedJob(s) PROVE InvXQ'
  <2>1. PICK i \in 1..Len(mcpJobs) :
          /\ mcpJobs' = [mcpJobs EXCEPT ![i].state = "running"]
          /\ resuming' = [resuming EXCEPT ![s] = i]
    BY <1>8 DEF XQ!ResumeParkedJob, XQ!McpResumes, XQ!ParkedJobs
  <2>2. resuming[s] = 0 /\ UNCHANGED <<xjobs, poll, orphans>>
    BY <1>8 DEF XQ!ResumeParkedJob, XQ!CanResume
  <2>3. \A k \in 1..Len(xjobs) : xjobs[k].session # s
    BY <1>8 DEF XQ!ResumeParkedJob, XQ!CanResume, XQ!Queued, TypeXQ
  <2>4. /\ mcpJobs' \in Seq(McpJobs) /\ Len(mcpJobs') = Len(mcpJobs)
        /\ \A j \in 1..Len(mcpJobs) : j # i => mcpJobs'[j] = mcpJobs[j]
    BY <2>1, NewStateXQ
  <2>5. /\ resuming' \in [Sessions -> Nat] /\ resuming'[s] = i
        /\ \A u \in Sessions : u # s => resuming'[u] = resuming[u]
    BY <1>b, <2>1 DEF TypeXQ
  <2>6. TypeXQ' /\ NoneHeld'
    <3>1. TypeXQ'
      BY <2>2, <2>4, <2>5 DEF TypeXQ
    <3>2. NoneHeld'
      BY <2>2, <2>3, <2>5 DEF NoneHeld
    <3> QED BY <3>1, <3>2
  <2>7. ASSUME NEW j \in 1..Len(mcpJobs), mcpJobs'[j].state = "running" PROVE IsWatched(j)'
    <3>1. CASE j = i
      BY <2>5, <3>1 DEF IsWatched
    <3>2. CASE j # i
      <4>1. IsWatched(j) /\ j # 0
        BY <2>4, <2>7, <3>2 DEF Watching
      <4> QED BY <2>2, <2>5, <4>1 DEF IsWatched
    <3> QED BY <3>1, <3>2
  <2> QED BY <2>4, <2>6, <2>7 DEF Watching
<1>9. ASSUME NEW s \in Sessions, XQ!ResumeAnswered(s) PROVE InvXQ'
  <2> DEFINE q == XQ!WithoutSession(s)
             e == [session |-> s, resume |-> resuming[s]]
  <2>0. /\ resuming[s] # 0 /\ resuming' = [resuming EXCEPT ![s] = 0]
        /\ UNCHANGED <<mcpJobs, orphans>>
        /\ xjobs' = Append(q, e) /\ poll' = XQ!ProcessNext(xjobs', poll)
    BY <1>9 DEF XQ!ResumeAnswered, XQ!Resumed
  <2>1. /\ q \in Seq(Entries)
        /\ \A k \in 1..Len(q) : \E i \in 1..Len(xjobs) : q[k] = xjobs[i] /\ xjobs[i].session # s
        /\ \A i \in 1..Len(xjobs) : xjobs[i].session # s => \E k \in 1..Len(q) : q[k] = xjobs[i]
    BY WithoutSessionXQ
  <2>2. e \in Entries /\ e.session = s /\ e.resume = resuming[s]
    BY DEF Entries, TypeXQ
  <2> HIDE DEF q, e
  <2>3. /\ xjobs' \in Seq(Entries) /\ Len(xjobs') = Len(q) + 1 /\ xjobs'[Len(xjobs')] = e
        /\ \A k \in 1..Len(q) : xjobs'[k] = q[k]
        /\ 1..Len(xjobs') = (1..Len(q)) \cup {Len(xjobs')}
    BY <2>0, <2>1, <2>2
  <2>4. poll' \in Polls /\ (poll.phase = "poll" => poll' = poll)
    BY <1>b, <2>0, <2>3, ProcessNextXQ
  <2>5. /\ resuming' \in [Sessions -> Nat] /\ resuming'[s] = 0
        /\ \A u \in Sessions : u # s => resuming'[u] = resuming[u]
    BY <2>0 DEF TypeXQ
  <2>6. TypeXQ'
    BY <2>0, <2>3, <2>4, <2>5 DEF TypeXQ
  <2>7. NoneHeld'
    <3>1. ASSUME NEW u \in Sessions, resuming'[u] # 0,
                 NEW k \in 1..Len(xjobs'), xjobs'[k].session = u
          PROVE  xjobs'[k].resume = 0
      <4>1. u # s /\ resuming[u] # 0
        BY <2>5, <3>1
      <4>2. k \in 1..Len(q)
        BY <2>2, <2>3, <3>1, <4>1
      <4> QED BY <2>1, <2>3, <3>1, <4>1, <4>2 DEF NoneHeld
    <3> QED BY <3>1 DEF NoneHeld
  <2>8. ASSUME NEW i \in 1..Len(mcpJobs), mcpJobs[i].state = "running" PROVE IsWatched(i)'
    <3>0. IsWatched(i) /\ i # 0
      BY <2>8 DEF Watching
    <3>1. CASE resuming[s] = i
      BY <2>2, <2>3, <3>1 DEF IsWatched
    <3>2. CASE poll.phase = "poll" /\ poll.id = i
      BY <2>4, <3>2 DEF IsWatched
    <3>3. ASSUME NEW k \in 1..Len(xjobs), xjobs[k].resume = i PROVE IsWatched(i)'
      <4>1. xjobs[k].session # s
        BY <2>0, <3>0, <3>3 DEF NoneHeld
      <4>2. PICK l \in 1..Len(q) : q[l] = xjobs[k]
        BY <2>1, <4>1
      <4>3. l \in 1..Len(xjobs') /\ xjobs'[l] = xjobs[k]
        BY <2>3, <4>2
      <4> QED BY <3>3, <4>3 DEF IsWatched
    <3>4. ASSUME NEW u \in Sessions, resuming[u] = i, u # s PROVE IsWatched(i)'
      BY <2>5, <3>4 DEF IsWatched
    <3>5. CASE i \in orphans
      BY <2>0, <3>5 DEF IsWatched
    <3> QED BY <3>0, <3>1, <3>2, <3>3, <3>4, <3>5 DEF IsWatched
  <2> QED BY <2>0, <2>6, <2>7, <2>8 DEF Watching
<1>10. ASSUME NEW s \in Sessions, XQ!ResumeLost(s) PROVE InvXQ'
  <2>1. /\ orphans' = orphans \cup XQ!Running({resuming[s]})
        /\ resuming' = [resuming EXCEPT ![s] = 0] /\ UNCHANGED <<mcpJobs, xjobs, poll>>
    BY <1>10 DEF XQ!ResumeLost
  <2>2. /\ resuming' \in [Sessions -> Nat] /\ resuming'[s] = 0
        /\ \A u \in Sessions : u # s => resuming'[u] = resuming[u]
    BY <2>1 DEF TypeXQ
  <2>3. TypeXQ' /\ NoneHeld'
    BY <2>1, <2>2 DEF TypeXQ, NoneHeld
  <2>4. ASSUME NEW i \in 1..Len(mcpJobs), mcpJobs[i].state = "running" PROVE IsWatched(i)'
    <3>1. IsWatched(i)
      BY <2>4 DEF Watching
    <3>2. CASE resuming[s] = i
      BY <2>1, <2>4, <3>2 DEF IsWatched, XQ!Running
    <3>3. CASE resuming[s] # i
      BY <2>1, <2>2, <3>1, <3>3 DEF IsWatched
    <3> QED BY <3>2, <3>3
  <2> QED BY <2>1, <2>3, <2>4 DEF Watching
<1>11. CASE XQ!Reload
  <2>1. /\ xjobs' = <<>> /\ poll' = XQ!Resting /\ resuming' = XQ!NoOne
        /\ orphans' = XQ!Running(1..Len(mcpJobs)) /\ UNCHANGED mcpJobs
    BY <1>11 DEF XQ!Reload
  <2>2. TypeXQ' /\ Len(xjobs') = 0
    BY <2>1 DEF TypeXQ, XQ!Resting, XQ!NoOne, Polls, Entries
  <2>3. Watching'
    BY <2>1 DEF Watching, IsWatched, XQ!Running
  <2> QED BY <2>2, <2>3 DEF NoneHeld
<1>12. CASE XQ!ReadParked \/ XQ!ReattachParkedJobs \/ \E s \in Sessions : XQ!TakeDraft(s)
  BY <1>a, <1>12 DEF XQ!ReadParked, XQ!ReattachParkedJobs, XQ!TakeDraft
<1>13. CASE UNCHANGED ofXQ
  BY <1>a, <1>13 DEF ofXQ
<1> QED BY <1>1, <1>4, <1>5, <1>6, <1>7, <1>8, <1>9, <1>10, <1>11, <1>12, <1>13
        DEF XQ!Next, XQ!Run

\* A job that runs is one of the queue's, or one that the page has lost.
LEMMA InvXQSuffices == InvXQ => XQ!RunningIsWatched
<1> SUFFICES ASSUME InvXQ, NEW i \in 1..Len(mcpJobs), mcpJobs[i].state = "running"
             PROVE  \/ poll.phase = "poll" /\ poll.id = i
                    \/ \E j \in XQ!Range(xjobs) : j.resume = i
                    \/ \E s \in Sessions : resuming[s] = i
                    \/ i \in orphans
  BY DEF XQ!RunningIsWatched, XQ!Ids
<1>1. IsWatched(i)
  BY DEF InvXQ, Watching
<1>2. \A k \in 1..Len(xjobs) : xjobs[k] \in XQ!Range(xjobs)
  BY DEF XQ!Range, InvXQ, TypeXQ
<1> QED BY <1>1, <1>2 DEF IsWatched

\* A job the contributor pays for is polled, is going to be, or waits for the answer of its
\* resume request, however requests, resumed jobs and a new extraction of the session meet,
\* unless the page lost it or gave it up.
THEOREM RunningJobsAreWatched == FairSpec => []RunningIsWatched
<1>1. Init => InvXQ
  BY InitXQ DEF Init
<1>2. InvXQ /\ [Next]_vars => InvXQ'
  BY MovesXQ, NextXQ
<1>3. InvXQ => RunningIsWatched
  BY InvXQSuffices DEF RunningIsWatched
<1> QED
  BY <1>1, <1>2, <1>3, PTL DEF FairSpec

(***************************************************************************)
(* The types of the pages.                                                 *)
(***************************************************************************)
\* The types of the review follow.
LEMMA AllTypesDR == InvDR => DR!TypeOK
<1> SUFFICES ASSUME InvDR PROVE DR!TypeOK
  OBVIOUS
<1>1. TypeDR /\ made \in 0..MaxDrafts
  BY DEF InvDR, TypeDR
<1>2. viewed \in [Views -> 0..made]
  BY <1>1 DEF TypeDR
<1> QED
  BY <1>1, <1>2 DEF TypeDR, Reviews, Submitters, DR!TypeOK

\* The types of the settings follow from their invariant, ...
LEMMA AllTypesPS == InvPS /\ saves \in 0..MaxSaves => PS!TypeOK
<1> SUFFICES ASSUME InvPS, saves \in 0..MaxSaves PROVE PS!TypeOK
  OBVIOUS
<1>1. stored \in PS!Settings /\ stored.key # MaskOfKey /\ typed \in Keys \cup {NoKey}
  BY KeysAssumption DEF InvPS, Stored, Bodies, PS!Settings
<1>2. /\ verdict \in [held : BOOLEAN, of : PS!Questions, ready : BOOLEAN, late : BOOLEAN]
      /\ checks \in [PS!Checkers -> [phase : PS!CheckPhases, of : PS!Questions, late : BOOLEAN]]
  BY DEF InvPS, Cached, Checking, Verdicts, Probes
<1>3. /\ copy \in [PS!Pages -> [open : BOOLEAN, of : PS!Settings]]
      /\ put \in [PS!Pages -> [phase : {"idle", "sent", "answered"}, body : PS!Settings]]
  BY DEF InvPS, Shown, Bodies, Copies, Puts, PS!Settings
<1> QED BY <1>1, <1>2, <1>3 DEF PS!TypeOK

\* ... and from the bound on the saves, which every step keeps.
LEMMA NextSavesPS == saves \in 0..MaxSaves /\ [PS!Next]_ofPS => saves' \in 0..MaxSaves
<1> SUFFICES ASSUME saves \in 0..MaxSaves, [PS!Next]_ofPS PROVE saves' \in 0..MaxSaves
  OBVIOUS
<1>1. ASSUME NEW p \in PS!Pages, PS!Save(p) PROVE saves' \in 0..MaxSaves
  <2>1. MaxSaves \in Nat
    BY BoundsAssumption
  <2> QED BY <1>1, <2>1 DEF PS!Save
<1> QED
  BY <1>1 DEF PS!Next, ofPS, PS!GetCertifiedReadiness, PS!Probe, PS!CheckEnds, PS!Load,
              PS!Put, PS!SaveAnswered, PS!SaveLost, PS!Expire

\* What the purchase may hold: the chain sells SlotCap slots.
TypesOL ==
  /\ hasIdentity \in BOOLEAN /\ hasWallet \in BOOLEAN /\ production \in BOOLEAN
  /\ slot \in 0..SlotCap /\ sold \in Seq(0..MaxSetups) /\ Len(sold) <= SlotCap
  /\ confirmOpen \in BOOLEAN /\ \A w \in OL!Purchases : buying[w].org \in 0..SlotCap
  /\ keysFor \in [1..MaxSetups -> 0..SlotCap] /\ recorded \in 0..SlotCap
  /\ shown.org \in 0..SlotCap /\ phrasePhase \in {"none", "reveal", "confirm", "passed"}
  /\ warned \subseteq 0..MaxSetups /\ seenPhrase \subseteq 0..MaxSetups
  /\ unshown \subseteq 0..MaxSetups /\ launchFaults \in 0..MaxLaunchFaults

\* The types of the purchase follow.
LEMMA AllTypesOL == InvOL /\ TypesOL => OL!TypeOK
<1> SUFFICES ASSUME InvOL, TypesOL PROVE OL!TypeOK
  OBVIOUS
<1>1. buying \in [OL!Purchases ->
                    [step : {"idle", "wallet", "setup", "broadcast", "finalize", "record", "show",
                             "confirm"}, setup : 0..MaxSetups, org : 0..SlotCap]]
  BY DEF InvOL, TypeOL, TypesOL, Purchasing, Unpaid, Paid
<1>2. shown \in [setup : 0..MaxSetups, org : 0..SlotCap]
  BY DEF InvOL, TypeOL, TypesOL
<1> QED BY <1>1, <1>2 DEF InvOL, TypeOL, TypesOL, OL!TypeOK, OL!SetupIds, OL!OrgIds

\* They hold at first.
LEMMA InitTypesOL == OL!Init => TypesOL
<1>1. MaxSetups \in Nat /\ SlotCap \in Nat /\ MaxLaunchFaults \in Nat
  BY BoundsAssumption
<1> SUFFICES ASSUME OL!Init PROVE TypesOL
  OBVIOUS
<1>2. sold = <<>> /\ sold \in Seq(0..MaxSetups) /\ Len(sold) = 0
  BY DEF OL!Init
<1>3. /\ keysFor \in [1..MaxSetups -> 0..SlotCap] /\ shown.org = 0
      /\ \A w \in OL!Purchases : buying[w].org = 0
  BY <1>1 DEF OL!Init, OL!AtRest, OL!NoPhrase, OL!None
<1>4. slot \in 0..SlotCap /\ recorded \in 0..SlotCap /\ launchFaults \in 0..MaxLaunchFaults
  BY <1>1 DEF OL!Init, OL!None
<1>5. /\ hasIdentity \in BOOLEAN /\ hasWallet \in BOOLEAN /\ production \in BOOLEAN
      /\ confirmOpen \in BOOLEAN
  BY DEF OL!Init
<1>6. /\ phrasePhase = "none" /\ warned = {} /\ seenPhrase = {} /\ unshown = {}
  BY DEF OL!Init
<1> QED BY <1>1, <1>2, <1>3, <1>4, <1>5, <1>6 DEF TypesOL

\* Every step of the purchase keeps them.
LEMMA NextTypesOL == InvOL /\ TypesOL /\ [OL!Next]_ofOL => TypesOL'
<1> SUFFICES ASSUME InvOL, TypesOL, [OL!Next]_ofOL PROVE TypesOL'
  OBVIOUS
<1> DEFINE OrgsIn == \A w \in OL!Purchases : buying[w].org \in 0..SlotCap
<1>n. MaxSetups \in Nat /\ SlotCap \in Nat /\ MaxLaunchFaults \in Nat /\ 0 \in 0..SlotCap
      /\ 0 \in 0..MaxSetups
  BY BoundsAssumption
<1>f. ASSUME NEW k, OL!Fault(k) PROVE launchFaults' \in 0..MaxLaunchFaults
  BY <1>f, <1>n DEF OL!Fault, TypesOL
<1>t. /\ buying \in [OL!Purchases -> Purchasing] /\ OrgsIn
      /\ Len(sold) \in Nat /\ Len(sold) \in 0..SlotCap
  BY <1>n DEF InvOL, TypeOL, TypesOL
<1>v. ASSUME NEW w \in OL!Purchases
      PROVE  /\ buying[w] \in Purchasing /\ buying[w].setup \in 0..MaxSetups
             /\ buying[w].org \in 0..SlotCap
  BY <1>t DEF Purchasing
<1>r. ASSUME NEW w \in OL!Purchases, OL!Rest(w) PROVE OrgsIn'
  <2>1. \A v \in OL!Purchases : buying'[v] = OL!AtRest \/ buying'[v] = buying[v]
    BY <1>r, <1>t DEF OL!Rest
  <2> QED BY <2>1, <1>n, <1>t DEF OL!AtRest
<1>w. ASSUME NEW w \in OL!Purchases, OL!Fail(w) PROVE warned' \subseteq 0..MaxSetups /\ OrgsIn'
  <2>1. OrgsIn'
    BY <1>r, <1>w DEF OL!Fail
  <2>2. warned' \subseteq 0..MaxSetups
    BY <1>v, <1>w, <1>n DEF OL!Fail, TypesOL
  <2> QED BY <2>1, <2>2
<1>s. ASSUME NEW s \in 0..MaxSetups, Len(sold) < SlotCap, sold' = Append(sold, s)
      PROVE  sold' \in Seq(0..MaxSetups) /\ Len(sold') <= SlotCap
             /\ Len(sold') \in 0..SlotCap /\ Len(sold') = Len(sold) + 1
  BY <1>s, <1>n, <1>t DEF TypesOL
<1>a. ASSUME NEW w \in OL!Purchases, NEW p, OL!Advance(w, p) PROVE OrgsIn'
  <2>1. \A v \in OL!Purchases : buying'[v].org = buying[v].org
    BY <1>a, <1>t DEF OL!Advance, Purchasing
  <2> QED BY <1>t, <2>1
<1> HIDE DEF OrgsIn
<1>1. CASE \/ OL!CreateIdentity \/ OL!LinkWallet \/ OL!OpenConfirmModal \/ OL!Cancel
           \/ OL!StartRecoveryVerification \/ OL!RecoveryConfirmSubmit \/ UNCHANGED ofOL
  BY <1>1 DEF OL!CreateIdentity, OL!LinkWallet, OL!OpenConfirmModal, OL!Cancel,
     OL!StartRecoveryVerification, OL!RecoveryConfirmSubmit, OL!account, OL!page, ofOL, TypesOL
<1>2. CASE OL!LoadCurrentSlot
  BY <1>2, <1>n, <1>t DEF OL!LoadCurrentSlot, OL!account, TypesOL
<1>3. CASE OL!OtherBuyer
  <2>1. sold' \in Seq(0..MaxSetups) /\ Len(sold') <= SlotCap
    BY <1>3, <1>n, <1>s DEF OL!OtherBuyer, OL!None
  <2> QED BY <1>3, <2>1 DEF OL!OtherBuyer, OL!account, OL!page, TypesOL
<1>4. CASE OL!ConfirmBuy
  <2>1. OrgsIn'
    <3>1. "here" \in OL!Purchases /\ OL!Advance("here", "wallet")
      BY <1>4 DEF OL!ConfirmBuy, OL!Advance, OL!Purchases
    <3> QED BY <1>a, <3>1
  <2> QED BY <1>4, <2>1 DEF OL!ConfirmBuy, OL!account, OL!page, TypesOL, OrgsIn
<1>5. ASSUME NEW w \in OL!Purchases, OL!CheckWallet(w) \/ OL!AwaitConfirmation(w) PROVE TypesOL'
  <2>1. OL!Rest(w) \/ OL!Advance(w, "setup")
    BY <1>5 DEF OL!CheckWallet, OL!AwaitConfirmation
  <2>2. OrgsIn'
    BY <1>a, <1>r, <2>1
  <2> QED BY <1>5, <2>2 DEF OL!CheckWallet, OL!AwaitConfirmation, OL!account, OL!page, TypesOL,
       OrgsIn
<1>6. ASSUME NEW w \in OL!Purchases, OL!RequestOrgCryptoSetup(w) PROVE TypesOL'
  <2>1. OrgsIn'
    <3>1. CASE OL!Rest(w)
      BY <1>r, <3>1
    <3>2. CASE buying' = [buying EXCEPT ![w].step = "broadcast", ![w].setup = setups']
      <4>1. \A v \in OL!Purchases : buying'[v].org = buying[v].org
        BY <1>t, <3>2 DEF Purchasing
      <4> QED BY <1>t, <4>1 DEF OrgsIn
    <3> QED BY <1>6, <3>1, <3>2 DEF OL!RequestOrgCryptoSetup
  <2> QED BY <1>6, <2>1 DEF OL!RequestOrgCryptoSetup, OL!account, OL!page, TypesOL, OrgsIn
<1>7. ASSUME NEW w \in OL!Purchases, OL!BroadcastRegisterOrg(w) PROVE TypesOL'
  <2>1. /\ UNCHANGED <<hasIdentity, hasWallet, production, slot, confirmOpen, shown,
                       phrasePhase, seenPhrase, unshown, keysFor, recorded>>
        /\ \/ launchFaults' = launchFaults
           \/ OL!Fault("broadcast")
        /\ \/ sold' = sold
           \/ Len(sold) < SlotCap /\ sold' = Append(sold, buying[w].setup)
        /\ \/ OL!Fail(w)
           \/ /\ warned' = warned /\ Len(sold) < SlotCap
              /\ sold' = Append(sold, buying[w].setup)
              /\ buying' = [buying EXCEPT ![w].step = "finalize", ![w].org = Len(sold')]
    BY <1>7 DEF OL!BroadcastRegisterOrg, OL!account, OL!page
  <2>2. sold' \in Seq(0..MaxSetups) /\ Len(sold') <= SlotCap
    BY <2>1, <1>s, <1>v, <1>t DEF TypesOL
  <2>3. warned' \subseteq 0..MaxSetups /\ OrgsIn'
    <3>1. CASE OL!Fail(w)
      BY <1>w, <3>1
    <3>2. CASE /\ warned' = warned /\ Len(sold) < SlotCap
               /\ sold' = Append(sold, buying[w].setup)
               /\ buying' = [buying EXCEPT ![w].step = "finalize", ![w].org = Len(sold')]
      <4>1. Len(sold') \in 0..SlotCap
        BY <3>2, <1>s, <1>v
      <4>2. \A v \in OL!Purchases : buying'[v].org \in {buying[v].org, Len(sold')}
        BY <3>2, <1>t DEF Purchasing
      <4> QED BY <1>t, <3>2, <4>1, <4>2 DEF TypesOL, OrgsIn
    <3> QED BY <2>1, <3>1, <3>2
  <2>4. launchFaults' \in 0..MaxLaunchFaults
    BY <2>1, <1>f DEF TypesOL
  <2> QED BY <2>1, <2>2, <2>3, <2>4 DEF TypesOL, OrgsIn
<1>8. ASSUME NEW w \in OL!Purchases, OL!FinalizeOrgSetup(w) \/ OL!RecordOrg(w) PROVE TypesOL'
  <2>1. /\ UNCHANGED <<hasIdentity, hasWallet, production, slot, confirmOpen, shown,
                       phrasePhase, seenPhrase, unshown, sold>>
        /\ launchFaults' = launchFaults \/ \E k : OL!Fault(k)
        /\ OL!Fail(w) \/ (warned' = warned /\ \E p : OL!Advance(w, p))
        /\ keysFor' = keysFor \/ keysFor' = [keysFor EXCEPT ![buying[w].setup] = buying[w].org]
        /\ recorded' = recorded \/ recorded' = buying[w].org
    BY <1>8 DEF OL!FinalizeOrgSetup, OL!RecordOrg, OL!TakeId, OL!account, OL!page
  <2>2. keysFor' \in [1..MaxSetups -> 0..SlotCap] /\ recorded' \in 0..SlotCap
    BY <2>1, <1>v DEF TypesOL
  <2>3. warned' \subseteq 0..MaxSetups /\ OrgsIn'
    BY <2>1, <1>a, <1>w DEF TypesOL
  <2>4. launchFaults' \in 0..MaxLaunchFaults
    BY <2>1, <1>f DEF TypesOL
  <2> QED BY <2>1, <2>2, <2>3, <2>4 DEF TypesOL, OrgsIn
<1>9. ASSUME NEW w \in OL!Purchases, OL!ShowPhrase(w) PROVE TypesOL'
  <2>1. OrgsIn'
    BY <1>9, <1>a DEF OL!ShowPhrase
  <2>2. shown'.org \in 0..SlotCap
    BY <1>9, <1>v DEF OL!ShowPhrase, TypesOL
  <2>3. seenPhrase' \subseteq 0..MaxSetups /\ unshown' \subseteq 0..MaxSetups
    BY <1>9, <1>v DEF OL!ShowPhrase, TypesOL
  <2> QED BY <1>9, <2>1, <2>2, <2>3 DEF OL!ShowPhrase, OL!account, TypesOL, OrgsIn
<1>10. CASE OL!LeavePage \/ OL!Reload
  <2>1. shown'.org = 0 /\ phrasePhase' = "none" /\ slot' = 0 /\ confirmOpen' = FALSE
        /\ UNCHANGED <<hasIdentity, hasWallet, production, sold, keysFor, recorded, seenPhrase,
                       unshown>>
    BY <1>10 DEF OL!LeavePage, OL!Reload, OL!Blank, OL!NoPhrase, OL!account
  <2>2. OrgsIn'
    <3>1. /\ "here" \in OL!Purchases /\ OL!AtRest.org = 0
          /\ \A v \in OL!Purchases : buying'[v] \in {OL!AtRest, buying["here"], buying[v]}
      BY <1>10, <1>t DEF OL!LeavePage, OL!Reload, OL!AtRest, OL!Purchases
    <3> QED BY <3>1, <1>n, <1>t DEF OrgsIn
  <2>3. launchFaults' \in 0..MaxLaunchFaults
    BY <1>10, <1>f DEF OL!LeavePage, OL!Reload, TypesOL
  <2>4. warned' \subseteq 0..MaxSetups
    BY <1>10, <1>v DEF OL!LeavePage, OL!Reload, TypesOL
  <2> QED BY <2>1, <2>2, <2>3, <2>4, <1>n DEF TypesOL, OrgsIn
<1> QED BY <1>1, <1>2, <1>3, <1>4, <1>5, <1>6, <1>7, <1>8, <1>9, <1>10 DEF OL!Next, OL!Purchase

\* A call that has used its sequence, and those used or about to be: one call for each.
Over == {"polling", "done", "unsure", "failed"}
Spent(n) == \E c \in Calls : tx[c][2] = n /\ phase[c] \in Over
SpentInTurn == \A n \in Nat : n < sequence + Len(mempool) => Spent(n)

\* What the calls, the cache and the node hold.
TypesBC ==
  /\ retried \subseteq Calls /\ doubtful \subseteq Calls /\ tx \in [Calls -> BC!Txs]
  /\ cache \subseteq BC!Txs /\ broadcastFaults \in 0..MaxBroadcastFaults /\ SpentInTurn

\* The account's sequence is bounded by the calls that were made.
LEMMA SequenceBound ==
  ASSUME TypeBC, SpentInTurn
  PROVE  sequence + Len(mempool) <= Cardinality(Calls) /\ Cardinality(Calls) \in Nat
<1> DEFINE m == sequence + Len(mempool)
           N == 0..m - 1
           by == [k \in N |-> CHOOSE c \in Calls : tx[c][2] = k]
<1>0. m \in Nat
  BY DEF TypeBC
<1> HIDE DEF m
<1>1. ASSUME NEW k \in N PROVE by[k] \in Calls /\ tx[by[k]][2] = k
  <2>1. k \in Nat /\ k < m
    BY <1>0
  <2>2. \E c \in Calls : tx[c][2] = k
    BY <2>1 DEF SpentInTurn, Spent, m
  <2> QED BY <2>2
<1>2. by \in [N -> Calls]
  BY <1>1
<1>3. ASSUME NEW k \in N, NEW l \in N, by[k] = by[l] PROVE k = l
  <2>1. tx[by[k]][2] = k /\ tx[by[l]][2] = l
    BY <1>1
  <2> HIDE DEF by, N
  <2> QED BY <1>3, <2>1
<1>4. by \in Injection(N, Calls)
  BY <1>2, <1>3 DEF Injection, IsInjective
<1>5. Cardinality(N) = m
  BY <1>0, FS_Interval
<1> HIDE DEF by, N
<1>6. Cardinality(N) <= Cardinality(Calls)
  BY <1>4, SetsAssumption, FS_Injection
<1> QED BY <1>5, <1>6, SetsAssumption, FS_CardinalityType DEF m

\* So every transaction has a sequence within the bound.
LEMMA WithinTxs ==
  ASSUME TypeBC, SpentInTurn, NEW w \in Wires, w[2] <= sequence + Len(mempool)
  PROVE  w \in BC!Txs
<1>1. sequence + Len(mempool) \in Nat
  BY DEF TypeBC
<1>2. w[1] \in Msgs /\ w[2] \in Nat /\ w = <<w[1], w[2]>>
  BY DEF Wires
<1>3. w[2] \in 0..Cardinality(Calls)
  BY <1>1, <1>2, SequenceBound
<1> QED BY <1>2, <1>3, CardinalityBC DEF BC!Txs

\* The types of the chain client follow.
LEMMA AllTypesBC == InvBC /\ TypesBC => BC!TypeOK
<1> SUFFICES ASSUME InvBC, TypesBC PROVE BC!TypeOK
  OBVIOUS
<1>0. TypeBC /\ SpentInTurn /\ sequence \in Nat /\ Len(mempool) \in Nat
  BY DEF InvBC, TypesBC, TypeBC
<1>1. ASSUME NEW t \in executed \cup reverted PROVE t \in BC!Txs
  <2>1. t \in Wires /\ t[2] \in Nat
    BY <1>0 DEF TypeBC, Wires
  <2>2. t[2] < sequence
    BY DEF InvBC, InSequence
  <2>3. t[2] <= sequence + Len(mempool)
    BY <1>0, <2>1, <2>2
  <2> QED BY <1>0, <2>1, <2>3, WithinTxs
<1>2. mempool \in Seq(BC!Txs)
  <2>1. ASSUME NEW k \in 1..Len(mempool) PROVE mempool[k] \in BC!Txs
    <3>1. mempool[k] \in Wires /\ mempool[k][2] = sequence + k - 1
      BY <1>0 DEF TypeBC, InvBC, InSequence
    <3>2. mempool[k][2] <= sequence + Len(mempool)
      BY <1>0, <3>1
    <3> QED BY <1>0, <3>1, <3>2, WithinTxs
  <2>2. mempool \in Seq(Wires)
    BY <1>0 DEF TypeBC
  <2> QED BY <2>1, <2>2
<1> QED BY <1>0, <1>1, <1>2 DEF TypeBC, TypesBC, BC!TypeOK

\* They hold at first.
LEMMA InitTypesBC == BC!Init => TypesBC
<1> SUFFICES ASSUME BC!Init PROVE TypesBC
  OBVIOUS
<1>1. Cardinality(Calls) \in Nat /\ MaxBroadcastFaults \in Nat
  BY SetsAssumption, BoundsAssumption, FS_CardinalityType
<1>2. tx \in [Calls -> BC!Txs]
  <2>1. ASSUME NEW c \in Calls PROVE <<msg[c], 0>> \in BC!Txs
    BY <1>1, CardinalityBC DEF BC!Init, BC!Txs
  <2> QED BY <2>1 DEF BC!Init
<1>3. SpentInTurn
  BY DEF BC!Init, SpentInTurn
<1> QED BY <1>1, <1>2, <1>3 DEF BC!Init, TypesBC

\* A call that has used its sequence keeps its transaction.
LEMMA StaysSpent ==
  ASSUME TypeBC, NEW c \in Calls, phase[c] \in {"idle", "signed", "polling"},
         \A d \in Calls : d # c => tx'[d] = tx[d] /\ phase'[d] = phase[d],
         phase[c] = "polling" => tx'[c] = tx[c] /\ phase'[c] \in Over,
         NEW n, Spent(n)
  PROVE  \E d \in Calls : tx'[d][2] = n /\ phase'[d] \in Over
<1>1. PICK d \in Calls : tx[d][2] = n /\ phase[d] \in Over
  BY DEF Spent
<1>2. CASE d # c
  BY <1>1, <1>2
<1>3. CASE d = c
  BY <1>1, <1>3 DEF Over
<1> QED BY <1>2, <1>3

\* Every step of a call and of the node keeps them.
LEMMA NextTypesBC == InvBC /\ TypesBC /\ [BC!Next]_ofBC => TypesBC'
<1> SUFFICES ASSUME InvBC, TypesBC, [BC!Next]_ofBC PROVE TypesBC'
  OBVIOUS
<1>0. /\ TypeBC /\ SpentInTurn /\ sequence \in Nat /\ Len(mempool) \in Nat
      /\ MaxBroadcastFaults \in Nat /\ mempool \in Seq(Wires)
  BY BoundsAssumption DEF InvBC, TypesBC, TypeBC
<1>f. ASSUME NEW k, BC!Fault(k) PROVE broadcastFaults' \in 0..MaxBroadcastFaults
  BY <1>f, <1>0 DEF BC!Fault, TypesBC
<1>1. ASSUME NEW c \in Calls, BC!Sign(c) PROVE TypesBC'
  <2>1. /\ UNCHANGED <<retried, doubtful, cache, sequence, mempool, broadcastFaults>>
        /\ phase[c] = "idle"
        /\ \A d \in Calls : d # c => tx'[d] = tx[d] /\ phase'[d] = phase[d]
        /\ tx' = tx \/ tx' = [tx EXCEPT ![c] = <<msg[c], sequence>>]
    BY <1>0, <1>1 DEF BC!Sign, BC!Goto, BC!node, TypeBC
  <2>2. <<msg[c], sequence>> \in BC!Txs
    <3>1. <<msg[c], sequence>> \in Wires /\ <<msg[c], sequence>>[2] <= sequence + Len(mempool)
      BY <1>0 DEF TypeBC, Wires
    <3> QED BY <1>0, <3>1, WithinTxs
  <2>3. SpentInTurn'
    <3>1. ASSUME NEW n \in Nat, n < sequence + Len(mempool)
          PROVE  \E d \in Calls : tx'[d][2] = n /\ phase'[d] \in Over
      <4>1. Spent(n)
        BY <1>0, <3>1 DEF SpentInTurn
      <4> QED BY <1>0, <2>1, <4>1, StaysSpent
    <3> QED BY <2>1, <3>1 DEF SpentInTurn, Spent
  <2> QED BY <2>1, <2>2, <2>3 DEF TypesBC
<1>2. ASSUME NEW c \in Calls, BC!DirectBroadcast(c) PROVE TypesBC'
  <2>1. /\ phase[c] = "signed" /\ tx' = tx /\ sequence' = sequence
        /\ retried' \subseteq retried \cup {c} /\ doubtful' \subseteq doubtful \cup {c}
        /\ cache' \subseteq cache \cup {tx[c]}
        /\ broadcastFaults' = broadcastFaults \/ BC!Fault("reply")
        /\ \A d \in Calls : d # c => phase'[d] = phase[d]
        /\ \/ mempool' = mempool
           \/ /\ mempool' = Append(mempool, tx[c]) /\ tx[c][2] = sequence + Len(mempool)
              /\ phase'[c] \in Over
    BY <1>0, <1>2 DEF BC!DirectBroadcast, BC!Accepted, BC!SequenceMismatch, BC!Refused,
       BC!ReplyLost, BC!Enter, BC!Expected, BC!Goto, TypeBC, Over
  <2>2. ASSUME NEW n \in Nat, n < sequence + Len(mempool)
        PROVE  \E d \in Calls : tx'[d][2] = n /\ phase'[d] \in Over
    <3>1. Spent(n)
      BY <1>0, <2>2 DEF SpentInTurn
    <3> QED BY <1>0, <2>1, <3>1, StaysSpent
  <2>3. SpentInTurn'
    <3>1. CASE mempool' = mempool
      BY <2>1, <2>2, <3>1 DEF SpentInTurn, Spent
    <3>2. CASE /\ mempool' = Append(mempool, tx[c]) /\ tx[c][2] = sequence + Len(mempool)
               /\ phase'[c] \in Over
      <4>1. Len(mempool') = Len(mempool) + 1
        BY <1>0, <3>2 DEF TypeBC
      <4>2. ASSUME NEW n \in Nat, n < sequence + Len(mempool')
            PROVE  \E d \in Calls : tx'[d][2] = n /\ phase'[d] \in Over
        <5>1. n < sequence + Len(mempool) \/ n = sequence + Len(mempool)
          BY <1>0, <4>1, <4>2
        <5>2. CASE n = sequence + Len(mempool)
          BY <2>1, <3>2, <5>2
        <5> QED BY <2>2, <5>1, <5>2
      <4> QED BY <2>1, <4>2 DEF SpentInTurn, Spent
    <3> QED BY <2>1, <3>1, <3>2
  <2>4. broadcastFaults' \in 0..MaxBroadcastFaults
    BY <2>1, <1>f DEF TypesBC
  <2>5. tx[c] \in BC!Txs
    BY DEF TypesBC
  <2> QED BY <2>1, <2>3, <2>4, <2>5 DEF TypesBC
<1>3. ASSUME NEW c \in Calls, BC!PollForInclusion(c) PROVE TypesBC'
  <2>1. /\ UNCHANGED <<tx, retried, doubtful, cache, sequence, mempool, broadcastFaults>>
        /\ phase[c] = "polling" /\ phase'[c] \in Over
        /\ \A d \in Calls : d # c => phase'[d] = phase[d]
    BY <1>0, <1>3 DEF BC!PollForInclusion, BC!Goto, BC!node, TypeBC, Over
  <2>2. SpentInTurn'
    <3>1. ASSUME NEW n \in Nat, n < sequence + Len(mempool)
          PROVE  \E d \in Calls : tx'[d][2] = n /\ phase'[d] \in Over
      <4>1. Spent(n)
        BY <1>0, <3>1 DEF SpentInTurn
      <4> QED BY <1>0, <2>1, <4>1, StaysSpent
    <3> QED BY <2>1, <3>1 DEF SpentInTurn, Spent
  <2> QED BY <2>1, <2>2 DEF TypesBC
<1>4. CASE BC!Include
  <2>1. /\ UNCHANGED <<phase, tx, retried, doubtful, cache, broadcastFaults>>
        /\ sequence' = sequence + 1 /\ mempool # <<>> /\ mempool' = Tail(mempool)
    BY <1>4 DEF BC!Include
  <2>2. Len(mempool') = Len(mempool) - 1
    BY <1>0, <2>1
  <2>3. sequence' + Len(mempool') = sequence + Len(mempool)
    BY <1>0, <2>1, <2>2
  <2>4. SpentInTurn'
    BY <1>0, <2>1, <2>3 DEF SpentInTurn, Spent
  <2> QED BY <2>1, <2>4 DEF TypesBC
<1>5. CASE BC!Restart
  <2>1. /\ UNCHANGED <<phase, tx, retried, doubtful, sequence>>
        /\ mempool' = <<>> /\ cache' = {} /\ BC!Fault("restart")
    BY <1>5 DEF BC!Restart
  <2>2. SpentInTurn'
    <3>1. Len(mempool') = 0
      BY <2>1
    <3>2. \A n \in Nat : n < sequence + 0 => n < sequence + Len(mempool)
      BY <1>0
    <3> QED BY <1>0, <2>1, <3>1, <3>2 DEF SpentInTurn, Spent
  <2> QED BY <2>1, <2>2, <1>f DEF TypesBC
<1>6. CASE UNCHANGED ofBC
  BY <1>6 DEF ofBC, TypesBC, SpentInTurn, Spent
<1> QED BY <1>1, <1>2, <1>3, <1>4, <1>5, <1>6 DEF BC!Next

\* The ids of jobs stay within the bound.
TypesXQ ==
  /\ Len(mcpJobs) <= MaxMcpJobs
  /\ \A k \in 1..Len(xjobs) : xjobs[k].resume \in 0..MaxMcpJobs
  /\ poll.id \in 0..MaxMcpJobs
  /\ parked \in [Sessions -> 0..MaxMcpJobs] /\ resuming \in [Sessions -> 0..MaxMcpJobs]
  /\ draft \subseteq Sessions /\ failure \subseteq Sessions
  /\ listing \in [ids : SUBSET (0..MaxMcpJobs), phase : {"idle", "read"}]
  /\ orphans \subseteq 0..MaxMcpJobs /\ extractFaults \in 0..MaxExtractFaults

\* The types of the queue follow.
LEMMA AllTypesXQ == InvXQ /\ TypesXQ => XQ!TypeOK
<1> SUFFICES ASSUME InvXQ, TypesXQ PROVE XQ!TypeOK
  OBVIOUS
<1>1. xjobs \in Seq([session : Sessions, resume : 0..MaxMcpJobs])
  <2>1. xjobs \in Seq(Entries) /\ \A k \in 1..Len(xjobs) : xjobs[k].resume \in 0..MaxMcpJobs
    BY DEF InvXQ, TypeXQ, TypesXQ
  <2>2. ASSUME NEW k \in 1..Len(xjobs)
        PROVE  xjobs[k] \in [session : Sessions, resume : 0..MaxMcpJobs]
    <3> DEFINE j == xjobs[k]
    <3>1. j \in Entries /\ j.resume \in 0..MaxMcpJobs
      BY <2>1
    <3> HIDE DEF j
    <3>2. j.session \in Sessions /\ j = [session |-> j.session, resume |-> j.resume]
      BY <3>1 DEF Entries
    <3>3. j \in [session : Sessions, resume : 0..MaxMcpJobs]
      BY <3>1, <3>2
    <3> QED BY <3>3 DEF j
  <2> DEFINE J == [session : Sessions, resume : 0..MaxMcpJobs]
  <2>3. \A k \in 1..Len(xjobs) : xjobs[k] \in J
    BY <2>2
  <2> HIDE DEF J
  <2>4. xjobs \in Seq(J)
    BY <2>1, <2>3
  <2> QED BY <2>4 DEF J
<1>2. poll \in [session : XQ!SessionIds, id : XQ!JobIds, phase : {"idle", "start", "poll"}]
  <2>1. poll \in [session : Sessions \cup {0}, id : Nat, phase : {"idle", "start", "poll"}]
    BY DEF InvXQ, TypeXQ, Polls
  <2> QED BY <2>1 DEF TypesXQ, XQ!SessionIds, XQ!JobIds, XQ!None
<1> QED BY <1>1, <1>2 DEF XQ!TypeOK, XQ!JobIds, InvXQ, TypeXQ, McpJobs, TypesXQ

\* They hold when the page opens first.
LEMMA InitTypesXQ == XQ!Init => TypesXQ
<1> SUFFICES ASSUME XQ!Init PROVE TypesXQ
  OBVIOUS
<1>1. MaxMcpJobs \in Nat /\ MaxExtractFaults \in Nat
  BY BoundsAssumption
<1>2. Len(mcpJobs) = 0 /\ Len(xjobs) = 0
  BY DEF XQ!Init
<1> QED BY <1>1, <1>2 DEF XQ!Init, XQ!Resting, XQ!NoOne, XQ!None, XQ!NoListing, TypesXQ

\* What starts next has an id within the bound if the entries do.
LEMMA StartsWithin ==
  ASSUME NEW q \in Seq(Entries), NEW busy, busy.id \in 0..MaxMcpJobs, MaxMcpJobs \in Nat,
         \A k \in 1..Len(q) : q[k].resume \in 0..MaxMcpJobs
  PROVE  XQ!ProcessNext(q, busy).id \in 0..MaxMcpJobs
<1>1. CASE busy.phase # "idle" \/ q = <<>>
  BY <1>1 DEF XQ!ProcessNext
<1>2. CASE ~ (busy.phase # "idle" \/ q = <<>>)
  <2>1. q[1].resume \in 0..MaxMcpJobs
    BY <1>2
  <2> QED BY <1>2, <2>1 DEF XQ!ProcessNext
<1> QED BY <1>1, <1>2

\* The running job leaves.
LEMMA LeaveWithin ==
  ASSUME TypeXQ, TypesXQ, NEW lost \in SUBSET (0..MaxMcpJobs), XQ!Leave(lost), TypeXQ',
         MaxMcpJobs \in Nat
  PROVE  /\ \A k \in 1..Len(xjobs') : xjobs'[k].resume \in 0..MaxMcpJobs
         /\ poll'.id \in 0..MaxMcpJobs /\ orphans' \subseteq 0..MaxMcpJobs
<1>0. /\ xjobs' = XQ!WithoutSession(poll.session)
      /\ poll' = XQ!ProcessNext(xjobs', XQ!Resting)
      /\ orphans' = orphans \cup lost \cup XQ!Running(XQ!Overtaken)
  BY DEF XQ!Leave
<1>1. \A k \in 1..Len(xjobs') : xjobs'[k].resume \in 0..MaxMcpJobs
  <2>1. ASSUME NEW s, s = poll.session
        PROVE  \A k \in 1..Len(XQ!WithoutSession(s)) : \E i \in 1..Len(xjobs) :
                 XQ!WithoutSession(s)[k] = xjobs[i]
    BY WithoutSessionXQ
  <2>2. \A k \in 1..Len(xjobs') : \E i \in 1..Len(xjobs) : xjobs'[k] = xjobs[i]
    BY <1>0, <2>1
  <2> QED BY <2>2 DEF TypesXQ
<1>2. poll'.id \in 0..MaxMcpJobs
  <2>1. XQ!Resting.id \in 0..MaxMcpJobs
    BY DEF XQ!Resting, XQ!None
  <2> QED BY <1>0, <1>1, <2>1, StartsWithin DEF TypeXQ
<1>3. XQ!Overtaken \subseteq 0..MaxMcpJobs
  <2>1. ASSUME NEW j \in XQ!Range(xjobs) PROVE j.resume \in 0..MaxMcpJobs
    <3>1. PICK k \in 1..Len(xjobs) : j = xjobs[k]
      BY DEF XQ!Range, TypeXQ
    <3> QED BY <3>1 DEF TypesXQ
  <2> QED BY <2>1 DEF XQ!Overtaken, XQ!Entries
<1> QED BY <1>0, <1>1, <1>2, <1>3 DEF XQ!Running, TypesXQ

\* Every step of the page and of the MCP server keeps them.
LEMMA NextTypesXQ == InvXQ /\ InvXQ' /\ TypesXQ /\ [XQ!Next]_ofXQ => TypesXQ'
<1> SUFFICES ASSUME InvXQ, InvXQ', TypesXQ, [XQ!Next]_ofXQ PROVE TypesXQ'
  OBVIOUS
<1> USE DEF XQ!None, XQ!queue
<1>0. /\ MaxMcpJobs \in Nat /\ MaxExtractFaults \in Nat /\ TypeXQ /\ TypeXQ'
      /\ Len(mcpJobs) \in Nat /\ Len(xjobs) \in Nat /\ Len(xjobs') \in Nat
  BY BoundsAssumption DEF InvXQ, TypeXQ
<1>f. \A k : XQ!Fault(k) => extractFaults' \in 0..MaxExtractFaults
  BY <1>0 DEF XQ!Fault, TypesXQ
<1>1. ASSUME NEW s \in Sessions, XQ!EnqueueExtraction(s) PROVE TypesXQ'
  <2>0. /\ failure' = failure \ {s} /\ parked' = [parked EXCEPT ![s] = 0]
        /\ UNCHANGED <<mcpJobs, resuming, listing, draft, orphans, extractFaults>>
    BY <1>1 DEF XQ!EnqueueExtraction
  <2> DEFINE e == [session |-> s, resume |-> 0]
  <2>1. CASE xjobs' = Append(xjobs, e) /\ poll' = XQ!ProcessNext(xjobs', poll)
    <3>1. \A k \in 1..Len(xjobs') : \/ k \in 1..Len(xjobs) /\ xjobs'[k] = xjobs[k]
                                   \/ xjobs'[k] = e
      <4> HIDE DEF e
      <4>1. /\ Len(xjobs') = Len(xjobs) + 1
            /\ \A k \in 1..Len(xjobs') :
                 xjobs'[k] = IF k <= Len(xjobs) THEN xjobs[k] ELSE e
        <5> DEFINE J == Entries \cup {e}
        <5>1. xjobs \in Seq(Entries) /\ \A x \in Entries : x \in J
          BY <1>0 DEF TypeXQ
        <5>2. xjobs \in Seq(J) /\ e \in J
          BY <5>1
        <5> HIDE DEF J
        <5> QED BY <2>1, <5>2, AppendProperties
      <4> QED BY <1>0, <4>1
    <3>2. \A k \in 1..Len(xjobs') : xjobs'[k].resume \in 0..MaxMcpJobs
      BY <1>0, <3>1 DEF TypesXQ
    <3>3. poll'.id \in 0..MaxMcpJobs
      BY <1>0, <2>1, <3>2, StartsWithin DEF TypeXQ, TypesXQ
    <3> HIDE DEF e
    <3> QED BY <1>0, <2>0, <3>2, <3>3 DEF TypesXQ
  <2>2. CASE UNCHANGED <<xjobs, poll>>
    BY <1>0, <2>0, <2>2 DEF TypesXQ
  <2> QED BY <1>1, <2>1, <2>2 DEF XQ!EnqueueExtraction
<1>2. ASSUME NEW lost \in SUBSET (0..MaxMcpJobs), XQ!Leave(lost),
             Len(mcpJobs') <= MaxMcpJobs, UNCHANGED <<resuming, listing>>,
             failure' \in {failure, failure \cup {poll.session}}, poll.session \in Sessions,
             draft' \in {draft, draft \cup {poll.session}},
             parked' \in {parked, [parked EXCEPT ![poll.session] = poll.id]},
             extractFaults' \in 0..MaxExtractFaults
      PROVE  TypesXQ'
  <2>1. /\ \A k \in 1..Len(xjobs') : xjobs'[k].resume \in 0..MaxMcpJobs
        /\ poll'.id \in 0..MaxMcpJobs /\ orphans' \subseteq 0..MaxMcpJobs
    BY <1>0, <1>2, LeaveWithin
  <2>2. failure' \subseteq Sessions /\ draft' \subseteq Sessions
    BY <1>2 DEF TypesXQ
  <2>3. parked' \in [Sessions -> 0..MaxMcpJobs]
    BY <1>2 DEF TypesXQ
  <2> QED BY <1>2, <2>1, <2>2, <2>3 DEF TypesXQ
<1>3. ASSUME poll.phase # "idle" PROVE poll.session \in Sessions
  BY <1>0, <1>3 DEF TypeXQ, Polls
<1>4. ASSUME XQ!Create PROVE Len(mcpJobs') = Len(mcpJobs) + 1 /\ Len(mcpJobs') <= MaxMcpJobs
  BY <1>0, <1>4 DEF XQ!Create, TypeXQ
<1>5. CASE XQ!StartJob
  <2>0. poll.phase = "start" /\ UNCHANGED <<parked, resuming, listing, draft>>
    BY <1>5 DEF XQ!StartJob
  <2>e. {} \in SUBSET (0..MaxMcpJobs) /\ Len(mcpJobs) <= MaxMcpJobs
        /\ extractFaults \in 0..MaxExtractFaults
    BY DEF TypesXQ
  <2>1. CASE XQ!JobAccepted
    <3>1. XQ!Create /\ poll' = [poll EXCEPT !.id = Len(mcpJobs'), !.phase = "poll"]
          /\ UNCHANGED <<xjobs, failure, orphans, extractFaults>>
      BY <2>1 DEF XQ!JobAccepted
    <3>2. poll'.id \in 0..MaxMcpJobs
      <4>1. poll \in [session : Sessions \cup {0}, id : Nat, phase : {"idle", "start", "poll"}]
        BY <1>0 DEF TypeXQ, Polls
      <4>2. poll'.id = Len(mcpJobs')
        BY <3>1, <4>1
      <4> QED BY <1>0, <1>4, <3>1, <4>2
    <3> QED BY <1>4, <2>0, <3>1, <3>2 DEF TypesXQ
  <2>2. CASE XQ!ProviderMissing
    BY <1>2, <1>3, <2>0, <2>e, <2>2 DEF XQ!ProviderMissing
  <2>3. CASE XQ!JobRefused
    BY <1>2, <1>3, <2>0, <2>e, <2>3 DEF XQ!JobRefused, XQ!LeaveFailed
  <2>4. CASE XQ!AcceptanceLost
    <3>1. /\ XQ!Create /\ XQ!Leave({Len(mcpJobs')}) /\ failure' = failure \cup {poll.session}
          /\ extractFaults' \in 0..MaxExtractFaults
      BY <1>f, <2>4 DEF XQ!AcceptanceLost, XQ!LeaveFailed
    <3>2. Len(mcpJobs') \in 0..MaxMcpJobs /\ Len(mcpJobs') <= MaxMcpJobs
      BY <1>0, <1>4, <3>1
    <3> QED BY <1>2, <1>3, <2>0, <3>1, <3>2
  <2> QED BY <1>5, <2>1, <2>2, <2>3, <2>4 DEF XQ!StartJob
<1>6. CASE XQ!PollJob
  <2>1. /\ poll.phase = "poll" /\ XQ!Leave({})
        /\ UNCHANGED <<mcpJobs, resuming, listing, extractFaults>>
    BY <1>6 DEF XQ!PollJob, XQ!PersistDoneExtraction, XQ!Park, XQ!PollFailed, XQ!PollAnswer,
                XQ!LeaveFailed
  <2>2. /\ failure' \in {failure, failure \cup {poll.session}}
        /\ draft' \in {draft, draft \cup {poll.session}}
        /\ parked' \in {parked, [parked EXCEPT ![poll.session] = poll.id]}
    BY <1>6 DEF XQ!PollJob, XQ!PersistDoneExtraction, XQ!Park, XQ!PollFailed, XQ!LeaveFailed
  <2>3. {} \in SUBSET (0..MaxMcpJobs) /\ Len(mcpJobs') <= MaxMcpJobs
        /\ extractFaults' \in 0..MaxExtractFaults
    BY <2>1 DEF TypesXQ
  <2> QED BY <1>2, <1>3, <2>1, <2>2, <2>3
<1>7. CASE XQ!GiveUp
  <2>1. /\ poll.phase = "poll" /\ XQ!Leave(XQ!Running({poll.id}))
        /\ failure' = failure \cup {poll.session}
        /\ UNCHANGED <<mcpJobs, parked, resuming, listing, draft, extractFaults>>
    BY <1>7 DEF XQ!GiveUp, XQ!LeaveFailed
  <2>2. XQ!Running({poll.id}) \in SUBSET (0..MaxMcpJobs)
    BY DEF XQ!Running, TypesXQ
  <2>3. Len(mcpJobs') <= MaxMcpJobs /\ extractFaults' \in 0..MaxExtractFaults
    BY <2>1 DEF TypesXQ
  <2> QED BY <1>2, <1>3, <2>1, <2>2, <2>3
<1>8. ASSUME NEW i \in 1..Len(mcpJobs), XQ!EndJob(i) PROVE TypesXQ'
  <2>1. /\ Len(mcpJobs') = Len(mcpJobs) /\ orphans' = orphans \ {i}
        /\ UNCHANGED <<xjobs, poll, parked, failure, resuming, listing, draft, extractFaults>>
    BY <1>0, <1>8 DEF XQ!EndJob, TypeXQ
  <2> QED BY <2>1 DEF TypesXQ
<1>9. CASE XQ!ReadParked
  <2>1. XQ!ParkedJobs \subseteq 0..MaxMcpJobs
    BY <1>0 DEF XQ!ParkedJobs, XQ!Ids, TypesXQ
  <2>2. listing' = [ids |-> XQ!ParkedJobs, phase |-> "read"]
        /\ UNCHANGED <<mcpJobs, xjobs, poll, parked, failure, resuming, draft, orphans,
                       extractFaults>>
    BY <1>9 DEF XQ!ReadParked
  <2> QED BY <2>1, <2>2 DEF TypesXQ
<1>10. CASE XQ!ReattachParkedJobs
  <2>1. /\ parked' \in [Sessions -> 0..MaxMcpJobs]
        /\ UNCHANGED <<mcpJobs, xjobs, poll, failure, resuming, draft, orphans, extractFaults>>
        /\ listing' = XQ!NoListing
    BY <1>10 DEF XQ!ReattachParkedJobs, XQ!JobIds
  <2> QED BY <2>1 DEF TypesXQ, XQ!NoListing
<1>11. ASSUME NEW s \in Sessions, XQ!ResumeParkedJob(s) PROVE TypesXQ'
  <2>1. /\ Len(mcpJobs') = Len(mcpJobs) /\ resuming' = [resuming EXCEPT ![s] = parked[s]]
        /\ UNCHANGED <<xjobs, poll, parked, failure, listing, draft, orphans, extractFaults>>
    BY <1>0, <1>11 DEF XQ!ResumeParkedJob, XQ!McpResumes, TypeXQ
  <2>2. resuming' \in [Sessions -> 0..MaxMcpJobs]
    BY <2>1 DEF TypesXQ
  <2> QED BY <2>1, <2>2 DEF TypesXQ
<1>12. ASSUME NEW s \in Sessions, XQ!ResumeAnswered(s) PROVE TypesXQ'
  <2> DEFINE q == XQ!WithoutSession(s)
             e == [session |-> s, resume |-> resuming[s]]
  <2>0. /\ xjobs' = Append(q, e) /\ poll' = XQ!ProcessNext(xjobs', poll)
        /\ failure' = failure \ {s} /\ parked' = [parked EXCEPT ![s] = 0]
        /\ resuming' = [resuming EXCEPT ![s] = 0]
        /\ UNCHANGED <<mcpJobs, listing, draft, orphans, extractFaults>>
    BY <1>12 DEF XQ!ResumeAnswered, XQ!Resumed
  <2>1. /\ q \in Seq(Entries)
        /\ \A k \in 1..Len(q) : \E i \in 1..Len(xjobs) : q[k] = xjobs[i]
    <3>1. /\ q \in Seq(Entries)
          /\ \A k \in 1..Len(q) : \E i \in 1..Len(xjobs) :
               q[k] = xjobs[i] /\ xjobs[i].session # s
      BY <1>0, WithoutSessionXQ
    <3> HIDE DEF q
    <3> QED BY <3>1
  <2>2. e.resume \in 0..MaxMcpJobs
    BY DEF TypesXQ
  <2> HIDE DEF q, e
  <2>3. \A k \in 1..Len(xjobs') : (k \in 1..Len(q) /\ xjobs'[k] = q[k]) \/ xjobs'[k] = e
    BY <2>0, <2>1
  <2>4. \A k \in 1..Len(xjobs') : xjobs'[k].resume \in 0..MaxMcpJobs
    BY <2>1, <2>2, <2>3 DEF TypesXQ
  <2>5. poll'.id \in 0..MaxMcpJobs
    BY <1>0, <2>0, <2>4, StartsWithin DEF TypeXQ, TypesXQ
  <2> QED BY <1>0, <2>0, <2>4, <2>5 DEF TypesXQ
<1>13. ASSUME NEW s \in Sessions, XQ!ResumeLost(s) PROVE TypesXQ'
  <2>1. /\ orphans' = orphans \cup XQ!Running({resuming[s]})
        /\ resuming' = [resuming EXCEPT ![s] = 0] /\ extractFaults' \in 0..MaxExtractFaults
        /\ UNCHANGED <<mcpJobs, xjobs, poll, parked, failure, listing, draft>>
    BY <1>f, <1>13 DEF XQ!ResumeLost
  <2>2. resuming[s] \in 0..MaxMcpJobs /\ resuming' \in [Sessions -> 0..MaxMcpJobs]
    BY <1>0, <2>1 DEF TypesXQ
  <2>3. orphans' \subseteq 0..MaxMcpJobs
    BY <2>1, <2>2 DEF XQ!Running, TypesXQ
  <2> QED BY <2>1, <2>2, <2>3 DEF TypesXQ
<1>14. ASSUME NEW s \in Sessions, XQ!TakeDraft(s) PROVE TypesXQ'
  BY <1>14 DEF XQ!TakeDraft, TypesXQ
<1>15. CASE XQ!Reload
  <2>1. /\ xjobs' = <<>> /\ poll' = XQ!Resting /\ parked' = XQ!NoOne /\ failure' = {}
        /\ resuming' = XQ!NoOne /\ listing' = XQ!NoListing /\ orphans' = XQ!Running(XQ!Ids)
        /\ extractFaults' \in 0..MaxExtractFaults /\ UNCHANGED <<mcpJobs, draft>>
    BY <1>f, <1>15 DEF XQ!Reload
  <2>2. XQ!Running(XQ!Ids) \subseteq 0..MaxMcpJobs
    BY <1>0 DEF XQ!Running, XQ!Ids, TypesXQ
  <2>3. Len(xjobs') = 0
    BY <2>1
  <2> QED BY <1>0, <2>1, <2>2, <2>3 DEF XQ!Resting, XQ!NoOne, XQ!NoListing, TypesXQ
<1>16. CASE UNCHANGED ofXQ
  BY <1>16 DEF ofXQ, TypesXQ
<1> QED BY <1>1, <1>5, <1>6, <1>7, <1>8, <1>9, <1>10, <1>11, <1>12, <1>13, <1>14, <1>15, <1>16
        DEF XQ!Next, XQ!Run, XQ!Ids

\* What every component keeps, whichever of them moves.
AllKept ==
  /\ scene \in Scenes /\ SP!TypeOK /\ ID!TypeOK /\ OS!TypeOK /\ LI!TypeOK
  /\ InvRD /\ TypesRD
  /\ InvJD /\ TypesJD
  /\ InvVQ /\ TypesVQ
  /\ InvDR
  /\ InvPS /\ saves \in 0..MaxSaves
  /\ InvOL /\ TypesOL
  /\ InvBC /\ TypesBC
  /\ InvXQ /\ TypesXQ

\* A step of the dashboard keeps it.
LEMMA EverythingKept == AllKept /\ [Next]_vars => AllKept'
<1> SUFFICES ASSUME AllKept, [Next]_vars PROVE AllKept'
  OBVIOUS
<1> USE DEF AllKept
<1>1. scene' \in Scenes
  BY DEF Next, vars, VerifyQueueNext, ExtractionQueueNext, DraftReviewNext, SessionsPageNext,
         BroadcastNext, OrgLaunchNext, IdentityNext, OrgSettingsNext, ProviderSettingsNext,
         OrgListsNext, JoinDeskNext, ReportDeskNext, BesideVQ, BesideXQ, BesideDR, BesideSP,
         BesideBC, BesideOL, BesideID, BesideOS, BesidePS, BesideLI, BesideJD, BesideRD
<1>2. SP!TypeOK' /\ ID!TypeOK' /\ OS!TypeOK' /\ LI!TypeOK'
  BY MovesSP, NextTypeSP, MovesID, NextTypeID, MovesOS, NextTypeOS, MovesLI, NextTypeLI
<1>3. (InvRD /\ TypesRD)'
  BY MovesRD, NextRD, NextTypesRD
<1>4. (InvJD /\ TypesJD)'
  BY MovesJD, NextJD, NextTypesJD
<1>5. (InvVQ /\ TypesVQ)'
  BY MovesVQ, NextHonest, NextListed, NextBatchesVQ, NextPlainVQ DEF InvVQ, TypesVQ
<1>6. InvDR'
  BY MovesDR, NextDR
<1>7. InvPS' /\ saves' \in 0..MaxSaves
  BY MovesPS, NextPS, NextSavesPS
<1>8. (InvOL /\ TypesOL)'
  BY MovesOL, NextOL, NextTypesOL
<1>9. (InvBC /\ TypesBC)'
  BY MovesBC, NextBC, NextTypesBC
<1>10. (InvXQ /\ TypesXQ)'
  BY MovesXQ, NextXQ, NextTypesXQ
<1> QED BY <1>1, <1>2, <1>3, <1>4, <1>5, <1>6, <1>7, <1>8, <1>9, <1>10

\* Every component keeps the types of its variables: the ids of batches, jobs, drafts,
\* transactions and organisations stay within their bounds, however many steps are taken.
THEOREM TypesAreKept == FairSpec => []TypeOK
<1>1. Init => AllKept
  <2> SUFFICES ASSUME Init PROVE AllKept
    OBVIOUS
  <2>1. scene \in Scenes /\ SP!TypeOK /\ ID!TypeOK /\ OS!TypeOK /\ LI!TypeOK
    BY InitTypeSP, InitTypeID, InitTypeOS, InitTypeLI DEF Init
  <2>2. InvRD /\ TypesRD /\ InvJD /\ TypesJD /\ InvVQ /\ TypesVQ
    BY InitRD, InitTypesRD, InitJD, InitTypesJD, InitVQ, InitTypesVQ DEF Init
  <2>3. InvDR /\ InvOL /\ TypesOL
    BY InitDR, InitOL, InitTypesOL DEF Init
  <2>4. InvPS /\ saves \in 0..MaxSaves
    BY InitPS, BoundsAssumption DEF Init, PS!Init
  <2>5. InvBC /\ TypesBC /\ InvXQ /\ TypesXQ
    BY InitBC, InitTypesBC, InitXQ, InitTypesXQ DEF Init
  <2> QED BY <2>1, <2>2, <2>3, <2>4, <2>5 DEF AllKept
<1>2. AllKept /\ [Next]_vars => AllKept'
  BY EverythingKept
<1>3. AllKept => TypeOK
  BY AllTypesRD, AllTypesJD, AllTypesVQ, AllTypesDR, AllTypesPS, AllTypesOL, AllTypesBC,
     AllTypesXQ DEF AllKept, TypeOK
<1> QED
  BY <1>1, <1>2, <1>3, PTL DEF FairSpec
=============================================================================
