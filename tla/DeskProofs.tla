----------------------------- MODULE DeskProofs -----------------------------
(***************************************************************************)
(* Proofs about the desks where several reviewers meet the hub and the     *)
(* chain, for every set of reviewers, reports and memories: the reports of *)
(* an organisation, the request to join one, and the approval panel with   *)
(* its verification queue; at the end, the types of their variables.       *)
(***************************************************************************)
EXTENDS DashboardProofs

(***************************************************************************)
(* Reports.                                                                *)
(***************************************************************************)
Statuses == {"none", "checked", "pending", "upheld_pending_tx", "dismissed"}
Dismissed == {r \in Reports : state[r] = "dismissed"}
Commands == Reports \X {"upheld", "dismissed", "recommend", "commit"} \X {"sent", "held"}

TypeRD ==
  /\ state \in [Reports -> Statuses]
  /\ holder \in [Reports -> SUBSET RD!Pages]
  /\ answer \in [RD!Pages -> {<<>>} \cup Commands]
  /\ votes \in [Reports -> SUBSET RD!Pages]
  /\ overdue \subseteq Reports /\ uncounted \subseteq Reports /\ onRecord \subseteq Reports
  /\ dismissedCount \in Nat /\ active \in BOOLEAN /\ raced \in BOOLEAN

\* SELECT ... FOR UPDATE: a report is locked by one call at a time, while it is pending, and
\* a call that has read the row holds its lock.
Locks ==
  /\ \A r \in Reports : \A p \in holder[r] :
       /\ state[r] = "pending"
       /\ \A q \in holder[r] : p = q
  /\ \A p \in RD!Pages, r \in Reports :
       RD!At(p, r, {"upheld", "dismissed", "recommend"}, "held") => p \in holder[r]

\* What is on the chain, or on its way there, was upheld.
Upheld ==
  /\ \A r \in onRecord : state[r] = "upheld_pending_tx"
  /\ \A p \in RD!Pages, r \in Reports :
       RD!At(p, r, {"commit"}, "sent") => state[r] = "upheld_pending_tx"

\* A second report of a memory is opened only when two reporters were checked at a time.
Open == {"checked", "pending"}
OneOpen == raced \/ \A q, r \in Reports : state[q] \in Open /\ state[r] \in Open => q = r

\* The reporter's count lacks the dismissals that came when the reporter was no member.
Counted ==
  /\ uncounted \subseteq Dismissed
  /\ dismissedCount + Cardinality(uncounted) = Cardinality(Dismissed)

\* No report that the votes have settled is left pending either.
InvRD == TypeRD /\ Locks /\ Upheld /\ OneOpen /\ Counted /\ overdue = {}

\* It holds when no report has been filed.
LEMMA InitRD == RD!Init => InvRD
<1> SUFFICES ASSUME RD!Init PROVE InvRD
  OBVIOUS
<1> USE DEF RD!Init
<1>1. TypeRD
  BY DEF TypeRD, Statuses, RD!Idle
<1>2. Locks /\ Upheld
  BY DEF Locks, Upheld, RD!At, RD!Idle
<1>3. OneOpen
  BY DEF OneOpen, Open
<1>4. Dismissed = {}
  BY DEF Dismissed
<1>5. Counted
  BY <1>4, FS_EmptySet DEF Counted
<1> QED
  BY <1>1, <1>2, <1>3, <1>5 DEF InvRD

\* Every call of a page, the hub or the reporter keeps it.
LEMMA NextRD == InvRD /\ [RD!Next]_ofRD => InvRD'
<1> SUFFICES ASSUME InvRD, [RD!Next]_ofRD PROVE InvRD'
  OBVIOUS
<1> USE DEF InvRD, RD!Idle
<1>0. CASE UNCHANGED ofRD
  BY <1>0 DEF ofRD, TypeRD, Locks, Upheld, OneOpen, Counted, Dismissed, Open, RD!At, RD!Pages
<1>1. CASE RD!RemoveReporter
  <2>1. TypeRD' /\ overdue' = {}
    BY <1>1 DEF RD!RemoveReporter, RD!decided, TypeRD
  <2>2. Locks' /\ Upheld'
    BY <1>1 DEF RD!RemoveReporter, RD!decided, Locks, Upheld, RD!At
  <2>3. OneOpen'
    BY <1>1 DEF RD!RemoveReporter, OneOpen, Open
  <2>4. Counted'
    BY <1>1 DEF RD!RemoveReporter, RD!decided, Counted, Dismissed
  <2> QED
    BY <2>1, <2>2, <2>3, <2>4
<1>2. ASSUME NEW r \in Reports, RD!CheckReport(r) PROVE InvRD'
  <2>0. state[r] = "none" /\ state' = [state EXCEPT ![r] = "checked"] /\ Dismissed' = Dismissed
    BY <1>2 DEF RD!CheckReport, Dismissed, TypeRD
  <2>1. TypeRD'
    BY <1>2 DEF RD!CheckReport, RD!decided, TypeRD, Statuses
  <2>2. Locks' /\ Upheld'
    BY <1>2 DEF RD!CheckReport, RD!decided, TypeRD, Locks, Upheld, RD!At
  <2>3. OneOpen'
    BY <1>2 DEF RD!CheckReport, TypeRD, OneOpen, Open
  <2> QED
    BY <1>2, <2>0, <2>1, <2>2, <2>3 DEF RD!CheckReport, RD!decided, Counted
<1>3. ASSUME NEW r \in Reports, RD!CreateReport(r) PROVE InvRD'
  <2>0. state[r] = "checked" /\ state' = [state EXCEPT ![r] = "pending"] /\ Dismissed' = Dismissed
    BY <1>3 DEF RD!CreateReport, Dismissed, TypeRD
  <2>1. TypeRD'
    BY <1>3 DEF RD!CreateReport, RD!decided, TypeRD, Statuses
  <2>2. Locks' /\ Upheld'
    BY <1>3 DEF RD!CreateReport, RD!decided, TypeRD, Locks, Upheld, RD!At
  <2>3. OneOpen'
    BY <1>3 DEF RD!CreateReport, TypeRD, OneOpen, Open
  <2> QED
    BY <1>3, <2>0, <2>1, <2>2, <2>3 DEF RD!CreateReport, RD!decided, Counted
<1>4. ASSUME NEW p \in RD!Pages, NEW r \in Reports, RD!Clicks(p, r) PROVE InvRD'
  <2>0. PICK what \in {"upheld", "dismissed", "recommend", "commit"} :
           /\ answer[p] = <<>> /\ answer' = [answer EXCEPT ![p] = <<r, what, "sent">>]
           /\ what = "commit" => state[r] = "upheld_pending_tx"
    BY <1>4 DEF RD!Clicks, RD!HandleResolve, RD!HandleRecommend, RD!HandleCommitReport, RD!Click,
                RD!Resolutions, RD!OfferedAs
  <2>1. TypeRD'
    BY <1>4, <2>0 DEF RD!Clicks, RD!decided, TypeRD, Commands
  <2>2. Locks'
    BY <1>4, <2>0, <2>1 DEF RD!Clicks, TypeRD, Commands, Locks, RD!At
  <2>3. Upheld'
    BY <1>4, <2>0, <2>1 DEF RD!Clicks, TypeRD, Commands, Upheld, RD!At
  <2> QED
    BY <1>4, <2>1, <2>2, <2>3 DEF RD!Clicks, RD!decided, OneOpen, Counted, Dismissed
<1>5. ASSUME NEW p \in RD!Pages, NEW r \in Reports, RD!LoadForUpdate(p, r) PROVE InvRD'
  <2>0. PICK what \in {"upheld", "dismissed", "recommend"} : answer[p] = <<r, what, "sent">>
    BY <1>5 DEF RD!LoadForUpdate, RD!At, RD!Answers, RD!Resolutions, TypeRD, Commands
  <2>1. CASE state[r] = "pending"
    <3>0. /\ answer' = [answer EXCEPT ![p] = <<r, what, "held">>]
          /\ holder' = [holder EXCEPT ![r] = {p}] /\ holder[r] = {}
      <4>1. answer' = [answer EXCEPT ![p] = [answer[p] EXCEPT ![3] = "held"]]
        BY <1>5, <2>1 DEF RD!LoadForUpdate, RD!Hold
      <4>2. [answer[p] EXCEPT ![3] = "held"] = <<r, what, "held">>
        BY <2>0
      <4> QED
        BY <1>5, <2>1, <4>1, <4>2 DEF RD!LoadForUpdate, RD!Free, TypeRD
    <3>1. TypeRD'
      BY <1>5, <3>0 DEF RD!LoadForUpdate, RD!decided, TypeRD, Commands
    <3>2. Locks'
      BY <1>5, <2>1, <3>0 DEF RD!LoadForUpdate, RD!At, TypeRD, Commands, Locks
    <3>3. Upheld'
      BY <1>5, <3>0 DEF RD!LoadForUpdate, RD!At, TypeRD, Commands, Upheld
    <3> QED
      BY <1>5, <3>1, <3>2, <3>3 DEF RD!LoadForUpdate, RD!decided, OneOpen, Counted, Dismissed
  <2>2. CASE state[r] # "pending"
    <3>0. answer' = [answer EXCEPT ![p] = <<>>] /\ UNCHANGED holder
      BY <1>5, <2>2 DEF RD!LoadForUpdate, RD!Done
    <3>1. TypeRD'
      BY <1>5, <3>0 DEF RD!LoadForUpdate, RD!decided, TypeRD, Commands
    <3>2. Locks' /\ Upheld'
      BY <1>5, <3>0 DEF RD!LoadForUpdate, RD!At, TypeRD, Locks, Upheld
    <3> QED
      BY <1>5, <3>1, <3>2 DEF RD!LoadForUpdate, RD!decided, OneOpen, Counted, Dismissed
  <2> QED
    BY <2>1, <2>2
<1>6. ASSUME NEW p \in RD!Pages, NEW r \in Reports, RD!UpdateReport(p, r) PROVE InvRD'
  <2> DEFINE to == RD!Resolved(answer[p][2])
  <2>0. /\ answer[p] # <<>> /\ answer[p][1] = r /\ answer[p][2] \in {"upheld", "dismissed"}
        /\ answer[p][3] = "held" /\ p \in holder[r] /\ state[r] = "pending" /\ holder[r] = {p}
    BY <1>6 DEF RD!UpdateReport, RD!At, RD!Resolutions, Locks, TypeRD
  <2>1. /\ to \in {"upheld_pending_tx", "dismissed"}
        /\ to = "dismissed" <=> answer[p][2] = "dismissed"
        /\ state' = [state EXCEPT ![r] = to]
        /\ answer' = [answer EXCEPT ![p] = <<>>]
        /\ holder' = [holder EXCEPT ![r] = {}]
    BY <1>6, <2>0 DEF RD!UpdateReport, RD!Resolved, RD!Release, RD!Done, TypeRD
  <2>2. TypeRD'
    BY <1>6, <2>1 DEF RD!UpdateReport, TypeRD, Statuses
  <2>3. Locks'
    BY <2>0, <2>1 DEF Locks, RD!At, TypeRD
  <2>4. Upheld'
    BY <1>6, <2>0, <2>1 DEF RD!UpdateReport, Upheld, RD!At, TypeRD
  <2>5. OneOpen'
    BY <1>6, <2>1 DEF RD!UpdateReport, OneOpen, Open, TypeRD
  <2>6. Counted'
    <3>1. CASE to = "dismissed"
      <4>1. Dismissed' = Dismissed \cup {r} /\ r \notin Dismissed /\ r \notin uncounted
        BY <2>0, <2>1, <3>1 DEF Dismissed, Counted, TypeRD
      <4>2. /\ IsFiniteSet(Dismissed) /\ IsFiniteSet(uncounted)
            /\ Cardinality(Dismissed) \in Nat /\ Cardinality(uncounted) \in Nat
        BY SetsAssumption, FS_Subset, FS_CardinalityType DEF Dismissed, TypeRD
      <4>3. /\ Cardinality(Dismissed \cup {r}) = Cardinality(Dismissed) + 1
            /\ Cardinality(uncounted \cup {r}) = Cardinality(uncounted) + 1
        BY <4>1, <4>2, FS_AddElement
      <4>4. CASE active
        BY <1>6, <2>1, <3>1, <4>1, <4>2, <4>3, <4>4 DEF RD!UpdateReport, Counted, TypeRD
      <4>5. CASE ~active
        BY <1>6, <2>1, <3>1, <4>1, <4>2, <4>3, <4>5 DEF RD!UpdateReport, Counted, TypeRD
      <4> QED
        BY <4>4, <4>5
    <3>2. CASE to = "upheld_pending_tx"
      <4>1. Dismissed' = Dismissed
        BY <2>0, <2>1, <3>2 DEF Dismissed, TypeRD
      <4> QED
        BY <1>6, <2>1, <3>2, <4>1 DEF RD!UpdateReport, Counted
    <3> QED
      BY <2>1, <3>1, <3>2
  <2> QED
    BY <1>6, <2>2, <2>3, <2>4, <2>5, <2>6 DEF RD!UpdateReport
<1>7. ASSUME NEW p \in RD!Pages, NEW r \in Reports, RD!VoteOnReport(p, r) PROVE InvRD'
  <2>a. p \in holder[r] /\ answer' = [answer EXCEPT ![p] = <<>>]
    BY <1>7 DEF RD!VoteOnReport, RD!At, RD!Done, Locks
  <2>b. holder[r] = {p} /\ state[r] = "pending"
    BY <2>a DEF Locks
  <2>0. /\ state[r] = "pending" /\ holder[r] = {p}
        /\ answer' = [answer EXCEPT ![p] = <<>>] /\ holder' = [holder EXCEPT ![r] = {}]
    BY <1>7, <2>a, <2>b DEF RD!VoteOnReport, RD!Release, TypeRD
  <2>1. TypeRD' /\ overdue' = {}
    BY <1>7, <2>0 DEF RD!VoteOnReport, TypeRD
  <2>2. Locks'
    BY <1>7, <2>0 DEF RD!VoteOnReport, Locks, RD!At, TypeRD
  <2>3. Upheld'
    BY <1>7, <2>0 DEF RD!VoteOnReport, Upheld, RD!At, TypeRD
  <2> QED
    BY <1>7, <2>1, <2>2, <2>3 DEF RD!VoteOnReport, OneOpen, Counted, Dismissed
<1>8. ASSUME NEW p \in RD!Pages, NEW r \in Reports, RD!RollBack(p, r) PROVE InvRD'
  <2>a. p \in holder[r] /\ answer' = [answer EXCEPT ![p] = <<>>]
    BY <1>8 DEF RD!RollBack, RD!At, RD!Answers, RD!Resolutions, RD!Done, Locks
  <2>b. holder[r] = {p} /\ state[r] = "pending"
    BY <2>a DEF Locks
  <2>0. /\ state[r] = "pending" /\ holder[r] = {p}
        /\ answer' = [answer EXCEPT ![p] = <<>>] /\ holder' = [holder EXCEPT ![r] = {}]
    BY <1>8, <2>a, <2>b DEF RD!RollBack, RD!Release, TypeRD
  <2>1. TypeRD'
    BY <1>8, <2>0 DEF RD!RollBack, RD!decided, TypeRD
  <2>2. Locks'
    BY <1>8, <2>0 DEF RD!RollBack, Locks, RD!At, TypeRD
  <2>3. Upheld'
    BY <1>8, <2>0 DEF RD!RollBack, Upheld, RD!At, TypeRD
  <2> QED
    BY <1>8, <2>1, <2>2, <2>3 DEF RD!RollBack, RD!decided, OneOpen, Counted, Dismissed
<1>9. ASSUME NEW p \in RD!Pages, NEW r \in Reports, RD!ReportMemory(p, r) PROVE InvRD'
  <2>0. /\ state[r] = "upheld_pending_tx" /\ answer[p][3] = "sent"
        /\ answer' = [answer EXCEPT ![p] = <<>>]
    BY <1>9 DEF RD!ReportMemory, RD!At, RD!Done, Upheld
  <2>1. TypeRD'
    BY <1>9, <2>0 DEF RD!ReportMemory, RD!decided, TypeRD
  <2>2. Locks'
    BY <1>9, <2>0 DEF RD!ReportMemory, Locks, RD!At, TypeRD
  <2>3. Upheld'
    BY <1>9, <2>0 DEF RD!ReportMemory, Upheld, RD!At, TypeRD
  <2> QED
    BY <1>9, <2>1, <2>2, <2>3 DEF RD!ReportMemory, RD!decided, OneOpen, Counted, Dismissed
<1> QED
  BY <1>0, <1>1, <1>2, <1>3, <1>4, <1>5, <1>6, <1>7, <1>8, <1>9 DEF RD!Next

\* The Cardinality that ReportDesk takes from its own instance of FiniteSets.
LEMMA CardinalityRD == ASSUME NEW S PROVE RD!Cardinality(S) = Cardinality(S)
  BY DEF RD!Cardinality, Cardinality

\* The invariant says more than the property.
LEMMA InvRDSuffices == InvRD => RD!ReportsAreSettledOnce
<1> SUFFICES ASSUME InvRD PROVE RD!ReportsAreSettledOnce
  OBVIOUS
<1> DEFINE pending == {r \in Reports : state[r] = "pending"}
<1>1. raced \/ Cardinality(pending) <= 1
  <2>1. CASE ~raced /\ pending # {}
    <3>1. PICK r \in pending : TRUE
      BY <2>1
    <3>2. pending = {r}
      BY <2>1, <3>1 DEF InvRD, OneOpen, Open
    <3> QED
      <4>1. Cardinality(pending) = 1
        BY <3>2, FS_Singleton
      <4> QED
        BY <4>1
  <2> QED
    BY <2>1, FS_EmptySet
<1> QED
  BY <1>1, CardinalityRD DEF InvRD, Upheld, Counted, Dismissed, RD!ReportsAreSettledOnce

\* However the clicks of several leaders overlap, a report is settled once: resolve and vote
\* lock its row, a dismissal is counted against the reporter once, and only an upheld report
\* is committed to the chain.
THEOREM ReportsSettle == FairSpec => []ReportsAreSettledOnce
<1>1. Init => InvRD
  BY InitRD DEF Init
<1>2. InvRD /\ [Next]_vars => InvRD'
  BY MovesRD, NextRD
<1>3. InvRD => ReportsAreSettledOnce
  BY InvRDSuffices DEF ReportsAreSettledOnce
<1> QED
  BY <1>1, <1>2, <1>3, PTL DEF FairSpec

(***************************************************************************)
(* Join requests.                                                          *)
(***************************************************************************)
Numbers == 1..MaxApprovals
Busy == {"approving", "broadcasting", "polling", "cancelling"}

TypeJD ==
  /\ request \in {"pending", "confirming", "approved", "denied"}
  /\ tier \in {"none", "member", "trial"} /\ approvals \in 0..MaxApprovals
  /\ choice \in [Numbers -> {"member", "trial"}]
  /\ desk \in [Desks -> Busy \cup {"idle", "denying", "checked"}]
  /\ call \in [Desks -> 0..MaxApprovals]
  /\ joined \in BOOLEAN /\ event \in BOOLEAN /\ loosened \in BOOLEAN /\ abandoned \in BOOLEAN

\* The messages are numbered as the reviewers have asked for them.
Numbered ==
  /\ relayed \subseteq 1..approvals
  /\ \A d \in Desks : call[d] <= approvals /\ (desk[d] \in Busy => call[d] # 0)

\* A member the chain has taken has a tier, and the hub has handled the event or will.
Joined ==
  /\ event \/ included # {} => joined
  /\ joined => landed \in {"member", "trial"} /\ (event \/ request \in {"approved", "denied"})

\* A request that is being confirmed has a page that waits for it, unless that page is gone.
Watched ==
  request = "confirming" =>
    event \/ abandoned \/ \E d \in Desks : desk[d] \in {"broadcasting", "polling", "cancelling"}

\* Until a mark was taken back, or a denial written, over a message under way, there is one
\* approval: a page that is to broadcast, the message it has sent, or the event of that
\* message; and the request is marked with its tier.
Sent(n) == request = "confirming" /\ tier = choice[n] /\ ~joined
Tight ==
  /\ \A d \in Desks : desk[d] = "broadcasting" =>
       /\ Sent(call[d]) /\ relayed = {}
       /\ \A e \in Desks : desk[e] = "broadcasting" => d = e
  /\ \A n \in relayed : Sent(n) /\ relayed = {n}
  /\ joined => IF event THEN request = "confirming" /\ tier = landed ELSE request = "approved"
  /\ row # "none" => row = landed /\ joined

\* Loosened says that the mark was taken back over a message.
InvJD == TypeJD /\ Numbered /\ Joined /\ Watched /\ (loosened \/ Tight)

\* It holds of a request that nobody has looked at.
LEMMA InitJD == JD!Init => InvJD
<1> SUFFICES ASSUME JD!Init PROVE InvJD
  OBVIOUS
<1>n. MaxApprovals \in Nat
  BY BoundsAssumption
<1> USE <1>n DEF JD!Init
<1>1. TypeJD
  <2>1. choice \in [Numbers -> {"member", "trial"}]
    BY DEF Numbers
  <2>2. /\ desk \in [Desks -> Busy \cup {"idle", "denying", "checked"}]
        /\ call \in [Desks -> 0..MaxApprovals] /\ approvals \in 0..MaxApprovals
    OBVIOUS
  <2> QED
    BY <2>1, <2>2 DEF TypeJD
<1>2. Numbered
  BY DEF Numbered, Busy
<1>3. Joined /\ Watched
  BY DEF Joined, Watched
<1>4. Tight
  BY DEF Tight
<1> QED
  BY <1>1, <1>2, <1>3, <1>4 DEF InvJD

\* Every step of a page, the hub or the chain keeps it.
LEMMA NextJD == InvJD /\ [JD!Next]_ofJD => InvJD'
<1> SUFFICES ASSUME InvJD, [JD!Next]_ofJD PROVE InvJD'
  OBVIOUS
<1>n. MaxApprovals \in Nat
  BY BoundsAssumption
<1> USE <1>n DEF InvJD, Numbers, Busy
<1>0. CASE UNCHANGED ofJD
  BY <1>0 DEF ofJD, TypeJD, Numbered, Joined, Watched, Tight, Sent
<1>1. CASE JD!RevertStale
  <2>1. TypeJD'
    BY <1>1 DEF JD!RevertStale, JD!Revert, JD!Underway, JD!desks, JD!chain,
                TypeJD
  <2>2. Numbered'
    BY <1>1 DEF JD!RevertStale, JD!Revert, JD!Underway, JD!desks, JD!chain,
                TypeJD, Numbered
  <2>3. Joined'
    BY <1>1 DEF JD!RevertStale, JD!Revert, JD!Underway, JD!desks, JD!chain,
                TypeJD, Joined
  <2>4. Watched'
    BY <1>1 DEF JD!RevertStale, JD!Revert, JD!Underway, JD!desks, JD!chain,
                TypeJD, Joined, Watched
  <2>5. (loosened \/ Tight)'
    BY <1>1 DEF JD!RevertStale, JD!Revert, JD!Underway, JD!desks, JD!chain,
                TypeJD, Numbered, Joined, Tight, Sent
  <2> QED
    BY <2>1, <2>2, <2>3, <2>4, <2>5
<1>2. CASE JD!AddMember
  <2>1. TypeJD'
    BY <1>2 DEF JD!AddMember, JD!desks,
                TypeJD
  <2>2. Numbered'
    BY <1>2 DEF JD!AddMember, JD!desks,
                TypeJD, Numbered
  <2>3. Joined'
    BY <1>2 DEF JD!AddMember, JD!desks,
                TypeJD, Joined
  <2>4. Watched'
    BY <1>2 DEF JD!AddMember, JD!desks,
                TypeJD, Joined, Watched
  <2>5. (loosened \/ Tight)'
    BY <1>2 DEF JD!AddMember, JD!desks,
                TypeJD, Numbered, Joined, Tight, Sent
  <2> QED
    BY <2>1, <2>2, <2>3, <2>4, <2>5
<1>3. ASSUME NEW n \in Numbers, JD!Include(n) PROVE InvJD'
  <2>1. TypeJD'
    BY <1>3 DEF JD!Include, JD!desks, JD!hub,
                TypeJD
  <2>2. Numbered'
    BY <1>3 DEF JD!Include, JD!desks, JD!hub,
                TypeJD, Numbered
  <2>3. Joined'
    BY <1>3 DEF JD!Include, JD!desks, JD!hub,
                TypeJD, Joined
  <2>4. Watched'
    BY <1>3 DEF JD!Include, JD!desks, JD!hub,
                TypeJD, Joined, Watched
  <2>5. (loosened \/ Tight)'
    BY <1>3 DEF JD!Include, JD!desks, JD!hub,
                TypeJD, Numbered, Joined, Tight, Sent
  <2> QED
    BY <2>1, <2>2, <2>3, <2>4, <2>5
<1>4. ASSUME NEW d \in Desks, JD!LoadRequests(d) PROVE InvJD'
  <2>1. TypeJD'
    BY <1>4 DEF JD!LoadRequests, JD!desks, JD!hub, JD!chain,
                TypeJD
  <2>2. Numbered'
    BY <1>4 DEF JD!LoadRequests, JD!desks, JD!hub, JD!chain,
                TypeJD, Numbered
  <2>3. Joined'
    BY <1>4 DEF JD!LoadRequests, JD!desks, JD!hub, JD!chain,
                TypeJD, Joined
  <2>4. Watched'
    BY <1>4 DEF JD!LoadRequests, JD!desks, JD!hub, JD!chain,
                TypeJD, Joined, Watched
  <2>5. (loosened \/ Tight)'
    BY <1>4 DEF JD!LoadRequests, JD!desks, JD!hub, JD!chain,
                TypeJD, Numbered, Joined, Tight, Sent
  <2> QED
    BY <2>1, <2>2, <2>3, <2>4, <2>5
<1>5. ASSUME NEW d \in Desks, JD!HandleApprove(d) PROVE InvJD'
  <2>1. TypeJD'
    BY <1>5 DEF JD!HandleApprove, JD!Offered, JD!hub, JD!chain,
                TypeJD
  <2>2. Numbered'
    BY <1>5 DEF JD!HandleApprove, JD!Offered, JD!hub, JD!chain,
                TypeJD, Numbered
  <2>3. Joined'
    BY <1>5 DEF JD!HandleApprove, JD!Offered, JD!hub, JD!chain,
                TypeJD, Joined
  <2>4. Watched'
    BY <1>5 DEF JD!HandleApprove, JD!Offered, JD!hub, JD!chain,
                TypeJD, Joined, Watched
  <2>5. (loosened \/ Tight)'
    BY <1>5 DEF JD!HandleApprove, JD!Offered, JD!hub, JD!chain,
                TypeJD, Numbered, Joined, Tight, Sent
  <2> QED
    BY <2>1, <2>2, <2>3, <2>4, <2>5
<1>6. ASSUME NEW d \in Desks, JD!HandleDeny(d) PROVE InvJD'
  <2>1. TypeJD'
    BY <1>6 DEF JD!HandleDeny, JD!Offered, JD!Goto, JD!hub, JD!chain,
                TypeJD
  <2>2. Numbered'
    BY <1>6 DEF JD!HandleDeny, JD!Offered, JD!Goto, JD!hub, JD!chain,
                TypeJD, Numbered
  <2>3. Joined'
    BY <1>6 DEF JD!HandleDeny, JD!Offered, JD!Goto, JD!hub, JD!chain,
                TypeJD, Joined
  <2>4. Watched'
    BY <1>6 DEF JD!HandleDeny, JD!Offered, JD!Goto, JD!hub, JD!chain,
                TypeJD, Joined, Watched
  <2>5. (loosened \/ Tight)'
    BY <1>6 DEF JD!HandleDeny, JD!Offered, JD!Goto, JD!hub, JD!chain,
                TypeJD, Numbered, Joined, Tight, Sent
  <2> QED
    BY <2>1, <2>2, <2>3, <2>4, <2>5
<1>7. ASSUME NEW d \in Desks, JD!Broadcast(d) PROVE InvJD'
  <2>0. call[d] \in 1..approvals /\ call[d] \in Numbers
    BY <1>7 DEF JD!Broadcast, TypeJD, Numbered
  <2>1. TypeJD'
    BY <1>7, <2>0 DEF JD!Broadcast, JD!Goto, JD!hub,
                TypeJD
  <2>2. Numbered'
    BY <1>7, <2>0 DEF JD!Broadcast, JD!Goto, JD!hub,
                TypeJD, Numbered
  <2>3. Joined'
    BY <1>7 DEF JD!Broadcast, JD!Goto, JD!hub,
                TypeJD, Joined
  <2>4. Watched'
    BY <1>7 DEF JD!Broadcast, JD!Goto, JD!hub,
                TypeJD, Joined, Watched
  <2>5. (loosened \/ Tight)'
    BY <1>7 DEF JD!Broadcast, JD!Goto, JD!hub,
                TypeJD, Numbered, Joined, Tight, Sent
  <2> QED
    BY <2>1, <2>2, <2>3, <2>4, <2>5
<1>8. ASSUME NEW d \in Desks, JD!BroadcastEnds(d) PROVE InvJD'
  <2>0. /\ desk' \in [Desks -> Busy \cup {"idle", "denying", "checked"}]
        /\ call' \in [Desks -> 0..MaxApprovals]
    BY <1>8 DEF JD!BroadcastEnds, JD!Goto, TypeJD, Busy
  <2>1. TypeJD'
    BY <1>8, <2>0 DEF JD!BroadcastEnds, JD!hub, JD!chain, TypeJD
  <2>2. Numbered'
    BY <1>8 DEF JD!BroadcastEnds, JD!Goto, JD!hub, JD!chain,
                TypeJD, Numbered
  <2>3. Joined'
    BY <1>8 DEF JD!BroadcastEnds, JD!Goto, JD!hub, JD!chain,
                TypeJD, Joined
  <2>4. Watched'
    BY <1>8 DEF JD!BroadcastEnds, JD!Goto, JD!hub, JD!chain,
                TypeJD, Joined, Watched
  <2>5. (loosened \/ Tight)'
    BY <1>8 DEF JD!BroadcastEnds, JD!Goto, JD!hub, JD!chain,
                TypeJD, Numbered, Joined, Tight, Sent
  <2> QED
    BY <2>1, <2>2, <2>3, <2>4, <2>5
<1>9. ASSUME NEW d \in Desks, JD!Reload(d) PROVE InvJD'
  <2>1. TypeJD'
    BY <1>9 DEF JD!Reload, JD!Goto, JD!hub, JD!chain,
                TypeJD
  <2>2. Numbered'
    BY <1>9 DEF JD!Reload, JD!Goto, JD!hub, JD!chain,
                TypeJD, Numbered
  <2>3. Joined'
    BY <1>9 DEF JD!Reload, JD!Goto, JD!hub, JD!chain,
                TypeJD, Joined
  <2>4. Watched'
    BY <1>9 DEF JD!Reload, JD!Goto, JD!hub, JD!chain,
                TypeJD, Joined, Watched
  <2>5. (loosened \/ Tight)'
    BY <1>9 DEF JD!Reload, JD!Goto, JD!hub, JD!chain,
                TypeJD, Numbered, Joined, Tight, Sent
  <2> QED
    BY <2>1, <2>2, <2>3, <2>4, <2>5
<1>10. ASSUME NEW d \in Desks, JD!ApproveJoinRequest(d) PROVE InvJD'
  <2>0. call[d] \in 1..approvals /\ call[d] \in Numbers
    BY <1>10 DEF JD!ApproveJoinRequest, TypeJD, Numbered
  <2>a. /\ request' \in {"pending", "confirming", "approved", "denied"}
        /\ tier' \in {"none", "member", "trial"}
    BY <1>10, <2>0 DEF JD!ApproveJoinRequest, JD!ConfirmPending, JD!Confirming, TypeJD
  <2>b. \E to \in {"broadcasting", "idle"} : JD!Goto(d, to)
    BY <1>10 DEF JD!ApproveJoinRequest, JD!ConfirmPending
  <2>c. /\ call' \in [Desks -> 0..MaxApprovals]
        /\ desk' \in [Desks -> Busy \cup {"idle", "denying", "checked"}]
    BY <2>b DEF JD!Goto, TypeJD
  <2>1. TypeJD'
    BY <1>10, <2>a, <2>c DEF JD!ApproveJoinRequest, JD!chain, TypeJD
  <2>2. Numbered'
    BY <1>10, <2>0 DEF JD!ApproveJoinRequest, JD!ConfirmPending, JD!Confirming, JD!Goto, JD!chain,
                TypeJD, Numbered
  <2>3. Joined'
    BY <1>10 DEF JD!ApproveJoinRequest, JD!ConfirmPending, JD!Confirming, JD!Goto, JD!chain,
                TypeJD, Joined
  <2>4. Watched'
    BY <1>10 DEF JD!ApproveJoinRequest, JD!ConfirmPending, JD!Confirming, JD!Goto, JD!chain,
                TypeJD, Joined, Watched
  <2>5. (loosened \/ Tight)'
    BY <1>10 DEF JD!ApproveJoinRequest, JD!ConfirmPending, JD!Confirming, JD!Goto, JD!chain,
                TypeJD, Numbered, Joined, Tight, Sent
  <2> QED
    BY <2>1, <2>2, <2>3, <2>4, <2>5
<1>11. ASSUME NEW d \in Desks, JD!CancelJoinApproval(d) PROVE InvJD'
  <2>0. /\ call' \in [Desks -> 0..MaxApprovals]
        /\ desk' \in [Desks -> Busy \cup {"idle", "denying", "checked"}]
    BY <1>11 DEF JD!CancelJoinApproval, JD!Goto, TypeJD
  <2>a. ASSUME JD!Revert, loosened' = (loosened \/ JD!Underway), UNCHANGED abandoned
        PROVE  TypeJD'
    BY <1>11, <2>0, <2>a DEF JD!CancelJoinApproval, JD!Revert, JD!Underway, JD!chain, TypeJD
  <2>b. ASSUME abandoned' = TRUE /\ UNCHANGED <<request, tier, loosened>> PROVE TypeJD'
    BY <1>11, <2>0, <2>b DEF JD!CancelJoinApproval, JD!chain, TypeJD
  <2>c. ASSUME UNCHANGED <<request, tier, loosened, abandoned>> PROVE TypeJD'
    BY <1>11, <2>0, <2>c DEF JD!CancelJoinApproval, JD!chain, TypeJD
  <2>1. TypeJD'
    BY <1>11, <2>a, <2>b, <2>c DEF JD!CancelJoinApproval
  <2>2. Numbered'
    BY <1>11 DEF JD!CancelJoinApproval, JD!Revert, JD!Underway, JD!Goto, JD!chain,
                TypeJD, Numbered
  <2>3. Joined'
    BY <1>11 DEF JD!CancelJoinApproval, JD!Revert, JD!Underway, JD!Goto, JD!chain,
                TypeJD, Joined
  <2>4. Watched'
    BY <1>11 DEF JD!CancelJoinApproval, JD!Revert, JD!Underway, JD!Goto, JD!chain,
                TypeJD, Joined, Watched
  <2>5. (loosened \/ Tight)'
    BY <1>11 DEF JD!CancelJoinApproval, JD!Revert, JD!Underway, JD!Goto, JD!chain,
                TypeJD, Numbered, Joined, Tight, Sent
  <2> QED
    BY <2>1, <2>2, <2>3, <2>4, <2>5
<1>12. ASSUME NEW d \in Desks, JD!CheckDenial(d) PROVE InvJD'
  <2>1. TypeJD'
    BY <1>12 DEF JD!CheckDenial, JD!Goto, JD!hub, JD!chain,
                TypeJD
  <2>2. Numbered'
    BY <1>12 DEF JD!CheckDenial, JD!Goto, JD!hub, JD!chain,
                TypeJD, Numbered
  <2>3. Joined'
    BY <1>12 DEF JD!CheckDenial, JD!Goto, JD!hub, JD!chain,
                TypeJD, Joined
  <2>4. Watched'
    BY <1>12 DEF JD!CheckDenial, JD!Goto, JD!hub, JD!chain,
                TypeJD, Joined, Watched
  <2>5. (loosened \/ Tight)'
    BY <1>12 DEF JD!CheckDenial, JD!Goto, JD!hub, JD!chain,
                TypeJD, Numbered, Joined, Tight, Sent
  <2> QED
    BY <2>1, <2>2, <2>3, <2>4, <2>5
<1>13. ASSUME NEW d \in Desks, JD!DenyJoinRequest(d) PROVE InvJD'
  <2>1. TypeJD'
    BY <1>13 DEF JD!DenyJoinRequest, JD!Underway, JD!Goto, JD!hub, JD!chain,
                TypeJD
  <2>2. Numbered'
    BY <1>13 DEF JD!DenyJoinRequest, JD!Underway, JD!Goto, JD!hub, JD!chain,
                TypeJD, Numbered
  <2>3. Joined'
    BY <1>13 DEF JD!DenyJoinRequest, JD!Underway, JD!Goto, JD!hub, JD!chain,
                TypeJD, Joined
  <2>4. Watched'
    BY <1>13 DEF JD!DenyJoinRequest, JD!Underway, JD!Goto, JD!hub, JD!chain,
                TypeJD, Joined, Watched
  <2>5. (loosened \/ Tight)'
    BY <1>13 DEF JD!DenyJoinRequest, JD!Underway, JD!Goto, JD!hub, JD!chain,
                TypeJD, Numbered, Joined, Tight, Sent
  <2> QED
    BY <2>1, <2>2, <2>3, <2>4, <2>5
<1> QED
  BY <1>0, <1>1, <1>2, <1>3, <1>4, <1>5, <1>6, <1>7, <1>8, <1>9, <1>10, <1>11, <1>12, <1>13
     DEF JD!Next

\* The invariant says more than the property.
LEMMA InvJDSuffices == InvJD => JD!ApprovalMatchesChain
  BY DEF InvJD, Joined, Watched, Tight, JD!ApprovalMatchesChain, JD!Underway

\* Whatever several reviewers do with a request at a time, a new member has the tier of the
\* message that made him one and a denied requester is none, unless an approval was taken
\* back, or the request denied, while its message was under way; and a request is left
\* confirming only by a page that could not take its mark back.
THEOREM ApprovalsMatch == FairSpec => []ApprovalMatchesChain
<1>1. Init => InvJD
  BY InitJD DEF Init
<1>2. InvJD /\ [Next]_vars => InvJD'
  BY MovesJD, NextJD
<1>3. InvJD => ApprovalMatchesChain
  BY InvJDSuffices DEF ApprovalMatchesChain
<1> QED
  BY <1>1, <1>2, <1>3, PTL DEF FairSpec

(***************************************************************************)
(* The verification queue.                                                 *)
(***************************************************************************)
HubRows == {"pending_keyword", "pending_chain", "committed", "denied"}

\* The ids of the batches do not matter here: the queue and the panel take some.
TypeVQ ==
  /\ status \in [Memories -> HubRows]
  /\ \E B : jobs \in Seq([memory : Memories, batch : B])
  /\ \E B : batchOf \in [Memories -> B]
  /\ verified \subseteq Memories

\* A request under way has its job, and one that was answered with success has its row taken.
Answered ==
  /\ step # "idle" => jobs # <<>>
  /\ reply = "ok" => jobs # <<>> /\ status[jobs[1].memory] # "pending_keyword"

\* A memory that has failed is not queued, and its input is kept.
Failing == failed \cap VQ!Queued = {} /\ failed \subseteq inputs

\* Every memory on screen is accounted for (the first part of NothingHangs) ...
Accounted == VQ!Shown \subseteq VQ!Queued \cup verified \cup (failed \cap inputs)
\* ... and the queue runs when it can (the second).
Going == VQ!Connected /\ jobs # <<>> => step # "idle"

HonestVQ == /\ TypeVQ /\ Answered /\ Failing /\ Accounted /\ Going
            /\ VQ!VerifiedIsVerified

\* What a refresh of the panel holds.
Loads == [keyword : SUBSET Memories, chain : SUBSET Memories,
          phase : {"idle", "marked", "unmarked"}]

\* The panel lists memories.
Listed == review \subseteq Memories /\ load \in [Refreshes -> Loads]

InvVQ == HonestVQ /\ Listed

\* It holds when the page opens first.
LEMMA InitVQ == VQ!Init => InvVQ
<1> SUFFICES ASSUME VQ!Init PROVE InvVQ
  OBVIOUS
<1> USE DEF VQ!Init
<1>1. TypeVQ
  <2>1. jobs \in Seq([memory : Memories, batch : {}]) /\ batchOf \in [Memories -> {NoBatch}]
    OBVIOUS
  <2> QED BY <2>1 DEF TypeVQ, HubRows
<1>2. VQ!Shown = {}
  BY DEF VQ!Shown
<1>3. HonestVQ
  BY <1>1, <1>2 DEF HonestVQ, Answered, Failing, Accounted, Going, VQ!VerifiedIsVerified
<1> QED BY <1>3 DEF InvVQ, Listed, Loads, VQ!Idle

\* The queue's memories, by the places of its entries.
LEMMA QueuedVQ ==
  ASSUME TypeVQ
  PROVE  /\ Len(jobs) \in Nat
         /\ \A m : m \in VQ!Queued <=> \E k \in 1..Len(jobs) : jobs[k].memory = m
         /\ \A k \in 1..Len(jobs) : jobs[k].memory \in Memories
         /\ VQ!Queued \subseteq Memories
         /\ jobs # <<>> => 1 \in 1..Len(jobs) /\ VQ!Current = jobs[1].memory
<1>1. PICK B : jobs \in Seq([memory : Memories, batch : B])
  BY DEF TypeVQ
<1>2. /\ Len(jobs) \in Nat /\ DOMAIN jobs = 1..Len(jobs)
      /\ \A k \in 1..Len(jobs) : jobs[k].memory \in Memories
      /\ jobs # <<>> => 1 \in 1..Len(jobs)
  <2> DEFINE J == [memory : Memories, batch : B]
  <2>1. \A j \in J : j.memory \in Memories
    OBVIOUS
  <2>2. jobs \in Seq(J)
    BY <1>1
  <2> HIDE DEF J
  <2>3. /\ Len(jobs) \in Nat /\ DOMAIN jobs = 1..Len(jobs)
        /\ jobs # <<>> => Len(jobs) # 0
        /\ \A k \in 1..Len(jobs) : jobs[k] \in J
    BY <2>2
  <2> QED BY <2>1, <2>3
<1>3. \A m : m \in VQ!Queued <=> \E k \in 1..Len(jobs) : jobs[k].memory = m
  BY <1>2 DEF VQ!Queued
<1> QED BY <1>2, <1>3 DEF VQ!Current

\* The queue without a memory.
LEMMA WithoutMemoryVQ ==
  ASSUME TypeVQ, NEW m, jobs' = VQ!WithoutMemory(m)
  PROVE  /\ \E B : jobs' \in Seq([memory : Memories, batch : B])
         /\ VQ!Queued' = VQ!Queued \ {m}
         /\ m \notin VQ!Queued => jobs' = jobs
<1> DEFINE keep == {i \in DOMAIN jobs : jobs[i].memory # m}
           q == Kept(jobs, keep)
<1>1. jobs' = q
  BY KeptVQ DEF VQ!WithoutMemory
<1>2. PICK B : jobs \in Seq([memory : Memories, batch : B])
  BY DEF TypeVQ
<1>3. DOMAIN jobs = 1..Len(jobs) /\ Len(jobs) \in Nat
  BY <1>2
<1>4. \A i : i \in keep <=> i \in DOMAIN jobs /\ jobs[i].memory # m
  OBVIOUS
<1>5. m \notin VQ!Queued => keep = DOMAIN jobs
  BY DEF VQ!Queued
<1> HIDE DEF keep
<1>6. /\ q \in Seq([memory : Memories, batch : B])
      /\ \A k \in DOMAIN q : \E i \in keep : q[k] = jobs[i]
      /\ \A i \in keep : \E k \in DOMAIN q : q[k] = jobs[i]
  <2>1. keep \in SUBSET (DOMAIN jobs)
    BY <1>4
  <2> QED BY <1>2, <2>1, KeptEntries
<1>7. keep = DOMAIN jobs => q = jobs
  BY <1>2, KeptAll
<1> HIDE DEF q
<1>8. {q[i].memory : i \in DOMAIN q} = {jobs[i].memory : i \in DOMAIN jobs} \ {m}
  <2> DEFINE L == {q[i].memory : i \in DOMAIN q}
             R == {jobs[i].memory : i \in DOMAIN jobs} \ {m}
  <2>1. ASSUME NEW x \in L PROVE x \in R
    <3>1. PICK k \in DOMAIN q : x = q[k].memory
      OBVIOUS
    <3>2. PICK i \in keep : q[k] = jobs[i]
      BY <1>6
    <3> QED BY <1>4, <3>1, <3>2
  <2>2. ASSUME NEW x \in R PROVE x \in L
    <3>1. PICK i \in DOMAIN jobs : x = jobs[i].memory /\ jobs[i].memory # m
      OBVIOUS
    <3>2. PICK k \in DOMAIN q : q[k] = jobs[i]
      BY <1>4, <1>6, <3>1
    <3> QED BY <3>1, <3>2
  <2> HIDE DEF L, R
  <2>3. L = R
    BY <2>1, <2>2
  <2> QED BY <2>3 DEF L, R
<1>9. \E X : jobs' \in Seq([memory : Memories, batch : X])
  BY <1>1, <1>6
<1>10. VQ!Queued' = {jobs'[i].memory : i \in DOMAIN jobs'}
  BY DEF VQ!Queued
<1>11. VQ!Queued' = VQ!Queued \ {m}
  BY <1>1, <1>8, <1>10 DEF VQ!Queued
<1>12. m \notin VQ!Queued => jobs' = jobs
  BY <1>1, <1>5, <1>7
<1> QED BY <1>9, <1>11, <1>12

\* Entries are added at the end.
LEMMA AddedVQ ==
  ASSUME TypeVQ, NEW n \in Nat, NEW q \in [1..n -> Memories], NEW b,
         jobs' = jobs \o [i \in 1..n |-> [memory |-> q[i], batch |-> b]]
  PROVE  /\ \E B : jobs' \in Seq([memory : Memories, batch : B])
         /\ VQ!Queued' = VQ!Queued \cup {q[i] : i \in 1..n}
         /\ jobs # <<>> => jobs' # <<>> /\ jobs'[1] = jobs[1]
<1>1. PICK A : jobs \in Seq([memory : Memories, batch : A])
  BY DEF TypeVQ
<1> DEFINE J == [memory : Memories, batch : A \cup {b}]
           e == [i \in 1..n |-> [memory |-> q[i], batch |-> b]]
<1>2. jobs \in Seq(J)
  <2>1. \A j \in [memory : Memories, batch : A] : j \in J
    OBVIOUS
  <2> DEFINE I == [memory : Memories, batch : A]
  <2>2. jobs \in Seq(I) /\ I \subseteq J
    BY <1>1, <2>1
  <2> HIDE DEF I, J
  <2> QED BY <2>2
<1>3. /\ e \in Seq(J) /\ Len(e) = n /\ \A i \in 1..n : e[i].memory = q[i]
  <2>1. \A i \in 1..n : [memory |-> q[i], batch |-> b] \in J
    OBVIOUS
  <2> HIDE DEF J
  <2> QED BY <2>1
<1>4. jobs' = jobs \o e
  OBVIOUS
<1> HIDE DEF J, e
<1>5. /\ jobs' \in Seq(J) /\ Len(jobs) \in Nat /\ Len(jobs') = Len(jobs) + n
      /\ \A k \in 1..Len(jobs) : k \in 1..Len(jobs') /\ jobs'[k] = jobs[k]
      /\ \A i \in 1..n : Len(jobs) + i \in 1..Len(jobs') /\ jobs'[Len(jobs) + i] = e[i]
      /\ jobs # <<>> => Len(jobs) # 0 /\ jobs' # <<>>
  <2>1. Len(jobs) \in Nat /\ Len(e) = n /\ (jobs # <<>> => Len(jobs) # 0)
    BY <1>2, <1>3
  <2>0. /\ jobs' \in Seq(J) /\ Len(jobs') = Len(jobs) + Len(e)
        /\ \A k \in 1..(Len(jobs) + Len(e)) :
             jobs'[k] = IF k <= Len(jobs) THEN jobs[k] ELSE e[k - Len(jobs)]
    <3>1. /\ jobs \o e \in Seq(J) /\ Len(jobs \o e) = Len(jobs) + Len(e)
          /\ \A k \in 1..(Len(jobs) + Len(e)) :
               (jobs \o e)[k] = IF k <= Len(jobs) THEN jobs[k] ELSE e[k - Len(jobs)]
      BY <1>2, <1>3, ConcatProperties
    <3> QED BY <1>4, <3>1
  <2>2. jobs' \in Seq(J) /\ Len(jobs') = Len(jobs) + n
    BY <2>0, <2>1
  <2>3. \A k \in 1..Len(jobs) : k \in 1..Len(jobs') /\ jobs'[k] = jobs[k]
    BY <2>0, <2>1
  <2>4. ASSUME NEW i \in 1..n
        PROVE  Len(jobs) + i \in 1..Len(jobs') /\ jobs'[Len(jobs) + i] = e[i]
    <3>1. /\ Len(jobs) + i \in 1..(Len(jobs) + Len(e)) /\ ~ (Len(jobs) + i <= Len(jobs))
          /\ (Len(jobs) + i) - Len(jobs) = i
      BY <2>1
    <3> QED BY <2>0, <3>1
  <2>5. jobs # <<>> => jobs' # <<>>
    BY <2>1, <2>2
  <2> QED BY <2>1, <2>2, <2>3, <2>4, <2>5
<1>6. \A k \in 1..Len(jobs') : k \in 1..Len(jobs) \/ k - Len(jobs) \in 1..n
  BY <1>5
<1>7. /\ \E B : jobs' \in Seq([memory : Memories, batch : B])
      /\ jobs # <<>> => jobs' # <<>> /\ jobs'[1] = jobs[1]
  <2>1. jobs # <<>> => 1 \in 1..Len(jobs)
    BY <1>5
  <2>2. jobs' \in Seq([memory : Memories, batch : A \cup {b}])
    BY <1>5 DEF J
  <2> QED BY <1>5, <2>1, <2>2
<1>8. /\ VQ!Queued = {jobs[k].memory : k \in 1..Len(jobs)}
      /\ VQ!Queued' = {jobs'[k].memory : k \in 1..Len(jobs')}
  <2>1. DOMAIN jobs = 1..Len(jobs) /\ DOMAIN jobs' = 1..Len(jobs')
    BY <1>2, <1>5
  <2> QED BY <2>1 DEF VQ!Queued
<1>9. ASSUME NEW x \in VQ!Queued' PROVE x \in VQ!Queued \cup {q[i] : i \in 1..n}
  <2>1. PICK k \in 1..Len(jobs') : x = jobs'[k].memory
    BY <1>8
  <2>2. CASE k \in 1..Len(jobs)
    BY <1>5, <1>8, <2>1, <2>2
  <2>3. CASE k - Len(jobs) \in 1..n
    <3>1. k = Len(jobs) + (k - Len(jobs))
      BY <1>5
    <3>2. x = q[k - Len(jobs)]
      BY <1>3, <1>5, <2>1, <2>3, <3>1
    <3> QED BY <2>3, <3>2
  <2> QED BY <1>6, <2>2, <2>3
<1>10. ASSUME NEW x \in VQ!Queued \cup {q[i] : i \in 1..n} PROVE x \in VQ!Queued'
  <2>1. CASE x \in VQ!Queued
    BY <1>5, <1>8, <2>1
  <2>2. ASSUME NEW i \in 1..n, x = q[i] PROVE x \in VQ!Queued'
    <3>1. Len(jobs) + i \in 1..Len(jobs') /\ jobs'[Len(jobs) + i].memory = q[i]
      BY <1>3, <1>5
    <3> QED BY <1>8, <2>2, <3>1
  <2> QED BY <2>1, <2>2
<1>11. VQ!Queued' = VQ!Queued \cup {q[i] : i \in 1..n}
  BY <1>9, <1>10
<1> QED BY <1>7, <1>11

\* The list of a finite set has its members and no others.
LEMMA ListedVQ ==
  ASSUME NEW S \in SUBSET Memories
  PROVE  \E n \in Nat : /\ VQ!SetToSeq(S) \in [1..n -> Memories]
                        /\ {VQ!SetToSeq(S)[i] : i \in 1..n} = VQ!Range(VQ!SetToSeq(S))
                        /\ DOMAIN VQ!SetToSeq(S) = 1..n
                        /\ VQ!Range(VQ!SetToSeq(S)) \subseteq S
<1> DEFINE n == Cardinality(S)
<1>1. IsFiniteSet(S) /\ n \in Nat /\ ExistsBijection(1..n, S)
  BY SetsAssumption, FS_Subset, FS_CardinalityType
<1>2. VQ!Cardinality(S) = n
  BY DEF VQ!Cardinality, Cardinality
<1>3. PICK f \in [1..n -> S] : \A i, j \in 1..n : f[i] = f[j] => i = j
  BY <1>1 DEF ExistsBijection, Bijection, Injection, IsInjective
<1>4. VQ!IsInjective(f)
  BY <1>3 DEF VQ!IsInjective
<1>5. VQ!SetToSeq(S) \in [1..n -> S]
  BY <1>2, <1>4 DEF VQ!SetToSeq
<1> QED BY <1>1, <1>5 DEF VQ!Range

\* The hub settles rows, and takes none back to wait for keywords.
LEMMA RowsVQ ==
  ASSUME HonestVQ, status' \in [Memories -> HubRows],
         \A m \in Memories : status[m] # "pending_keyword" => status'[m] # "pending_keyword",
         UNCHANGED <<jobs, step, batchOf, verified, failed, inputs, mcp>>,
         reply' = "ok" => reply = "ok" \/ /\ jobs # <<>>
                                          /\ status'[jobs[1].memory] # "pending_keyword"
  PROVE  HonestVQ'
<1> USE DEF HonestVQ
<1>1. TypeVQ'
  BY DEF TypeVQ
<1>2. Answered'
  BY QueuedVQ DEF Answered
<1>3. Failing' /\ Accounted' /\ Going'
  BY DEF Failing, Accounted, Going, VQ!Shown, VQ!Queued, VQ!Connected
<1>4. VQ!VerifiedIsVerified'
  BY DEF VQ!VerifiedIsVerified, TypeVQ
<1> QED BY <1>1, <1>2, <1>3, <1>4

\* An entry is added at the end.
LEMMA AppendedVQ ==
  ASSUME TypeVQ, NEW m \in Memories, NEW b, jobs' = Append(jobs, [memory |-> m, batch |-> b])
  PROVE  /\ \E B : jobs' \in Seq([memory : Memories, batch : B])
         /\ VQ!Queued' = VQ!Queued \cup {m}
         /\ jobs # <<>> => jobs' # <<>> /\ jobs'[1] = jobs[1]
<1> DEFINE q == [i \in 1..1 |-> m]
           j == [memory |-> m, batch |-> b]
<1>1. jobs' = jobs \o [i \in 1..1 |-> [memory |-> q[i], batch |-> b]]
  <2>1. PICK B : jobs \in Seq([memory : Memories, batch : B])
    BY DEF TypeVQ
  <2>2. jobs \in Seq([memory : Memories, batch : B] \cup {j}) /\ jobs' = Append(jobs, j)
    <3> DEFINE I == [memory : Memories, batch : B]
    <3>1. jobs \in Seq(I)
      BY <2>1
    <3> HIDE DEF I, j
    <3>2. jobs \in Seq(I \cup {j})
      BY <3>1
    <3> QED BY <3>2 DEF I, j
  <2>3. jobs' = jobs \o <<j>>
    BY <2>2, AppendIsConcat
  <2>4. <<j>> = [i \in 1..1 |-> [memory |-> q[i], batch |-> b]]
    OBVIOUS
  <2> QED BY <2>3, <2>4
<1>2. q \in [1..1 -> Memories] /\ {q[i] : i \in 1..1} = {m}
  OBVIOUS
<1> HIDE DEF q, j
<1>3. /\ \E B : jobs' \in Seq([memory : Memories, batch : B])
      /\ VQ!Queued' = VQ!Queued \cup {q[i] : i \in 1..1}
      /\ jobs # <<>> => jobs' # <<>> /\ jobs'[1] = jobs[1]
  <2>1. ASSUME NEW p \in [1..1 -> Memories],
               jobs' = jobs \o [i \in 1..1 |-> [memory |-> p[i], batch |-> b]]
        PROVE  /\ \E B : jobs' \in Seq([memory : Memories, batch : B])
               /\ VQ!Queued' = VQ!Queued \cup {p[i] : i \in 1..1}
               /\ jobs # <<>> => jobs' # <<>> /\ jobs'[1] = jobs[1]
    <3>1. 1 \in Nat
      OBVIOUS
    <3> QED BY <2>1, <3>1, AddedVQ
  <2> QED BY <1>1, <1>2, <2>1
<1> QED BY <1>2, <1>3

\* processNext: the queue runs if it has a job and the MCP server is there.
LEMMA ProcessNextVQ ==
  ASSUME NEW q, NEW busy, busy # "idle" => q # <<>>
  PROVE  /\ VQ!ProcessNext(q, busy) # "idle" => q # <<>>
         /\ VQ!Connected /\ q # <<>> => VQ!ProcessNext(q, busy) # "idle"
  BY DEF VQ!ProcessNext

\* What the hub answers to the panel, and what the panel drops from its lists.
LEMMA NextListed == Listed /\ [VQ!Next]_ofVQ => Listed'
<1> SUFFICES ASSUME Listed, [VQ!Next]_ofVQ PROVE Listed'
  OBVIOUS
<1> USE DEF Listed, VQ!lists
<1>1. ASSUME NEW r PROVE VQ!Read(r) \in Loads
  BY DEF VQ!Read, Loads
<1>2. CASE UNCHANGED <<review, load>>
  BY <1>2
<1>b. ASSUME NEW r \in Loads, VQ!Begin(r), UNCHANGED review PROVE Listed'
  BY <1>b DEF VQ!Begin
<1>3. CASE VQ!LoadAll
  <2>1. UNCHANGED review
    BY <1>3 DEF VQ!LoadAll
  <2>2. \E r \in {VQ!Read(status), [VQ!Read(status) EXCEPT !.keyword = {}],
                  [VQ!Read(status) EXCEPT !.chain = {}]} : VQ!Begin(r)
    BY <1>3 DEF VQ!LoadAll
  <2>3. {VQ!Read(status), [VQ!Read(status) EXCEPT !.keyword = {}],
         [VQ!Read(status) EXCEPT !.chain = {}]} \subseteq Loads
    BY <1>1 DEF Loads
  <2> QED BY <1>b, <2>1, <2>2, <2>3
<1>4. CASE VQ!ShowLists
  <2>1. PICK f \in Refreshes : VQ!EndOfLoad(f)
    BY <1>4 DEF VQ!ShowLists
  <2>2. review' \subseteq Memories
    BY <2>1 DEF VQ!EndOfLoad, Loads
  <2>3. VQ!Idle \in Loads /\ \A r \in Loads : VQ!Unmarked(r) \in Loads
    BY DEF VQ!Idle, VQ!Unmarked, Loads
  <2>4. load' = [g \in Refreshes |-> IF g = f THEN VQ!Idle ELSE VQ!Unmarked(load[g])]
    BY <2>1 DEF VQ!EndOfLoad
  <2> QED BY <2>2, <2>3, <2>4
<1>5. ASSUME review' = review, VQ!Begin(VQ!Read(status')) PROVE Listed'
  BY <1>1, <1>b, <1>5
<1>6. CASE VQ!BroadcastBatch
  <2>1. review' \subseteq review /\ load' = load
    BY <1>6 DEF VQ!BroadcastBatch
  <2> QED BY <2>1
<1>7. CASE VQ!Reload
  BY <1>7 DEF VQ!Reload, VQ!Idle, Loads
<1>8. ASSUME NEW m \in Memories,
             VQ!RetryVerification(m) \/ VQ!RemoveVerification(m) \/ VQ!Commit(m)
      PROVE  Listed'
  BY <1>2, <1>8 DEF VQ!RetryVerification, VQ!RemoveVerification, VQ!Commit
<1>9. ASSUME NEW m \in Memories, VQ!DenyFinal(m) PROVE Listed'
  BY <1>5, <1>9 DEF VQ!DenyFinal
<1>10. ASSUME NEW S \in Bannable, VQ!BanContributor(S) PROVE Listed'
  BY <1>5, <1>10 DEF VQ!BanContributor
<1>11. CASE VQ!VerifyAll \/ VQ!PrepareBatchSubmit
  BY <1>2, <1>11 DEF VQ!VerifyAll, VQ!PrepareBatchSubmit
<1>12. CASE VQ!RunJob
  BY <1>2, <1>12 DEF VQ!RunJob, VQ!Serve, VQ!FinishJob
<1>13. CASE VQ!Lose \/ VQ!Connect \/ VQ!Disconnect
  BY <1>2, <1>13 DEF VQ!Lose, VQ!Connect, VQ!Disconnect
<1>14. CASE UNCHANGED ofVQ
  BY <1>2, <1>14 DEF ofVQ
<1> QED BY <1>3, <1>4, <1>6, <1>7, <1>8, <1>9, <1>10, <1>11, <1>12, <1>13, <1>14
        DEF VQ!Next, VQ!Panel

\* Every step of the panel, of the queue and of the hub keeps the rest of it.
LEMMA NextHonest == InvVQ /\ [VQ!Next]_ofVQ => HonestVQ'
<1> SUFFICES ASSUME InvVQ, [VQ!Next]_ofVQ PROVE HonestVQ'
  OBVIOUS
<1> USE DEF InvVQ, HonestVQ, VQ!tabQueue, VQ!lists
<1>a. CASE UNCHANGED <<status, jobs, step, reply, batchOf, verified, failed, inputs, mcp>>
  BY <1>a, RowsVQ DEF TypeVQ, Answered
<1>b. PICK B : batchOf \in [Memories -> B]
  BY DEF TypeVQ
<1>c. \A m \in Memories : m \in VQ!Shown <=> batchOf[m] # NoBatch
  BY DEF VQ!Shown
<1>1. CASE VQ!VerifyAll
  <2> DEFINE q == VQ!SetToSeq(VQ!Awaiting)
             b == VQ!FreshIds({0})[0]
             S == VQ!Range(q)
  <2>1. VQ!Awaiting \in SUBSET Memories
    BY DEF VQ!Awaiting, Listed
  <2>2. PICK n \in Nat : q \in [1..n -> Memories] /\ {q[i] : i \in 1..n} = S /\ DOMAIN q = 1..n
    BY <2>1, ListedVQ
  <2>3. VQ!EnqueueVerificationBatch(q) /\ UNCHANGED <<status, reply, verified, mcp>>
    BY <1>1 DEF VQ!VerifyAll
  <2>4. /\ jobs' = jobs \o [i \in DOMAIN q |-> [memory |-> q[i], batch |-> b]]
        /\ batchOf' = [m \in Memories |-> IF m \in S THEN b ELSE batchOf[m]]
        /\ inputs' = inputs \cup S /\ failed' = failed \ S
        /\ step' = VQ!ProcessNext(jobs', step)
    BY <2>3 DEF VQ!EnqueueVerificationBatch
  <2> HIDE DEF q, b, S
  <2>5. /\ \E X : jobs' \in Seq([memory : Memories, batch : X])
        /\ VQ!Queued' = VQ!Queued \cup S
        /\ jobs # <<>> => jobs' # <<>> /\ jobs'[1] = jobs[1]
    <3>1. jobs' = jobs \o [i \in 1..n |-> [memory |-> q[i], batch |-> b]]
      BY <2>2, <2>4
    <3> QED BY <2>2, <3>1, AddedVQ
  <2>6. batchOf' \in [Memories -> B \cup {b}]
    BY <1>b, <2>4
  <2>7. TypeVQ'
    BY <2>3, <2>5, <2>6 DEF TypeVQ
  <2>8. Answered' /\ Going'
    BY <2>3, <2>4, <2>5, ProcessNextVQ DEF Answered, Going, VQ!Connected, VQ!ProcessNext
  <2>9. Failing'
    BY <2>4, <2>5 DEF Failing
  <2>10. ASSUME NEW m \in VQ!Shown'
         PROVE  m \in VQ!Queued' \cup verified' \cup (failed' \cap inputs')
    <3>1. m \in Memories /\ batchOf'[m] # NoBatch
      BY DEF VQ!Shown
    <3>2. CASE m \in S
      BY <2>5, <3>2
    <3>3. CASE m \notin S
      <4>1. m \in VQ!Shown
        BY <1>c, <2>4, <3>1, <3>3
      <4> QED BY <2>3, <2>4, <2>5, <3>3, <4>1 DEF Accounted
    <3> QED BY <3>2, <3>3
  <2>11. VQ!VerifiedIsVerified'
    BY <2>3 DEF VQ!VerifiedIsVerified
  <2> QED BY <2>7, <2>8, <2>9, <2>10, <2>11 DEF Accounted
<1>2. ASSUME NEW m \in Memories, VQ!RetryVerification(m) PROVE HonestVQ'
  <2>0. /\ m \in failed /\ m \in inputs /\ m \notin VQ!Queued /\ failed' = failed \ {m}
        /\ UNCHANGED <<status, reply, batchOf, inputs, mcp>>
    BY <1>2 DEF VQ!RetryVerification, VQ!CanRetry, Failing
  <2>1. /\ jobs' = Append(jobs, [memory |-> m, batch |-> batchOf[m]])
        /\ step' = VQ!ProcessNext(jobs', step)
        /\ verified' = verified \ {m}
    BY <1>2, <2>0 DEF VQ!RetryVerification
  <2>2. /\ \E X : jobs' \in Seq([memory : Memories, batch : X])
        /\ VQ!Queued' = VQ!Queued \cup {m}
        /\ jobs # <<>> => jobs' # <<>> /\ jobs'[1] = jobs[1]
    BY <2>1, AppendedVQ
  <2>3. TypeVQ'
    BY <2>0, <2>1, <2>2 DEF TypeVQ
  <2>4. Answered' /\ Going'
    BY <2>0, <2>1, <2>2 DEF Answered, Going, VQ!Connected, VQ!ProcessNext
  <2>5. Failing'
    BY <2>0, <2>2 DEF Failing
  <2>6. Accounted'
    BY <2>0, <2>1, <2>2 DEF Accounted, VQ!Shown
  <2>7. VQ!VerifiedIsVerified'
    BY <2>0, <2>1 DEF VQ!VerifiedIsVerified
  <2> QED BY <2>3, <2>4, <2>5, <2>6, <2>7
<1>3. ASSUME NEW m \in Memories, VQ!RemoveVerification(m) PROVE HonestVQ'
  <2> DEFINE gone == {n \in VQ!Concluded(VQ!Without(batchOf, {m}), verified) :
                        VQ!Without(batchOf, {m})[n] = batchOf[m]}
  <2>0. /\ m \in failed /\ m \notin VQ!Queued /\ jobs' = VQ!WithoutMemory(m)
        /\ failed' = failed \ {m} /\ inputs' = inputs \ {m}
        /\ batchOf' = VQ!Without(VQ!Without(batchOf, {m}), gone)
        /\ verified' = verified \ (gone \cup {m})
        /\ UNCHANGED <<status, step, reply, mcp>>
    BY <1>3 DEF VQ!RemoveVerification, VQ!CanRetry, Failing
  <2> HIDE DEF gone
  <2>1. jobs' = jobs /\ VQ!Queued' = VQ!Queued
    <3>1. jobs' = jobs
      BY <2>0, WithoutMemoryVQ
    <3> QED BY <3>1 DEF VQ!Queued
  <2>2. /\ batchOf' = [n \in Memories |-> IF n \in gone \cup {m} THEN NoBatch ELSE batchOf[n]]
    BY <2>0 DEF VQ!Without
  <2>3. batchOf' \in [Memories -> B \cup {NoBatch}]
    BY <1>b, <2>2
  <2>4. TypeVQ'
    BY <2>0, <2>1, <2>3 DEF TypeVQ
  <2>5. Answered' /\ Going'
    BY <2>0, <2>1 DEF Answered, Going, VQ!Connected
  <2>6. Failing'
    BY <2>0, <2>1 DEF Failing
  <2>7. ASSUME NEW n \in VQ!Shown'
         PROVE  n \in VQ!Queued' \cup verified' \cup (failed' \cap inputs')
    <3>1. n \in Memories /\ n \notin gone \cup {m} /\ batchOf[n] # NoBatch
      BY <2>2 DEF VQ!Shown
    <3> QED BY <1>c, <2>0, <2>1, <3>1 DEF Accounted
  <2>8. VQ!VerifiedIsVerified'
    BY <2>0 DEF VQ!VerifiedIsVerified
  <2> QED BY <2>4, <2>5, <2>6, <2>7, <2>8 DEF Accounted
<1>4. CASE VQ!ShowLists
  <2> PICK f \in Refreshes : VQ!EndOfLoad(f)
    BY <1>4 DEF VQ!ShowLists
  <2> DEFINE settled == {m \in VQ!Shown : VQ!Batch(batchOf[m]) \subseteq load[f].chain}
  <2>0. /\ batchOf' = VQ!Without(batchOf, settled) /\ verified' = verified \ settled
        /\ UNCHANGED <<status, jobs, step, reply, failed, inputs, mcp>>
    BY <1>4 DEF VQ!ShowLists, VQ!EndOfLoad, VQ!ReconcileSettledHashes
  <2> HIDE DEF settled
  <2>1. batchOf' = [n \in Memories |-> IF n \in settled THEN NoBatch ELSE batchOf[n]]
    BY <2>0 DEF VQ!Without
  <2>2. batchOf' \in [Memories -> B \cup {NoBatch}] /\ VQ!Queued' = VQ!Queued
    BY <1>b, <2>0, <2>1 DEF VQ!Queued
  <2>3. TypeVQ' /\ Answered' /\ Going' /\ Failing'
    BY <2>0, <2>2 DEF TypeVQ, Answered, Going, Failing, VQ!Connected
  <2>4. ASSUME NEW n \in VQ!Shown'
         PROVE  n \in VQ!Queued' \cup verified' \cup (failed' \cap inputs')
    <3>1. n \in Memories /\ n \notin settled /\ batchOf[n] # NoBatch
      BY <2>1 DEF VQ!Shown
    <3> QED BY <1>c, <2>0, <2>2, <3>1 DEF Accounted
  <2>5. VQ!VerifiedIsVerified'
    BY <2>0 DEF VQ!VerifiedIsVerified
  <2> QED BY <2>3, <2>4, <2>5 DEF Accounted
<1>5. ASSUME NEW m \in Memories, VQ!DenyFinal(m) \/ VQ!Commit(m) PROVE HonestVQ'
  <2>1. /\ \E r \in {"denied", "committed"} : status' = [status EXCEPT ![m] = r]
        /\ UNCHANGED <<jobs, step, reply, batchOf, verified, failed, inputs, mcp>>
    BY <1>5 DEF VQ!DenyFinal, VQ!Commit
  <2> QED BY <2>1, RowsVQ DEF TypeVQ, HubRows
<1>6. ASSUME NEW S \in Bannable, VQ!BanContributor(S) PROVE HonestVQ'
  <2>1. /\ status' = [m \in Memories |->
                        IF m \in S /\ status[m] \in VQ!Pending THEN "denied" ELSE status[m]]
        /\ UNCHANGED <<jobs, step, reply, batchOf, verified, failed, inputs, mcp>>
    BY <1>6 DEF VQ!BanContributor
  <2> QED BY <2>1, RowsVQ DEF TypeVQ, HubRows
<1>7. CASE VQ!LoadAll \/ VQ!PrepareBatchSubmit \/ VQ!BroadcastBatch
  BY <1>a, <1>7 DEF VQ!LoadAll, VQ!PrepareBatchSubmit, VQ!BroadcastBatch
<1>8. CASE VQ!Serve
  <2>0. UNCHANGED <<jobs, batchOf, verified, failed, inputs, mcp>>
    BY <1>8 DEF VQ!Serve
  <2>1. CASE step # "idle" /\ step' # "idle" /\ UNCHANGED status /\ reply' \in {reply, "error"}
    BY <2>0, <2>1 DEF TypeVQ, Answered, Failing, Accounted, Going, VQ!VerifiedIsVerified,
                      VQ!Shown, VQ!Queued, VQ!Connected
  <2>2. ASSUME step = "verify", status' = [status EXCEPT ![VQ!Current] = "pending_chain"],
               UNCHANGED step
        PROVE  HonestVQ'
    <3>1. jobs # <<>> /\ VQ!Current \in Memories /\ VQ!Current = jobs[1].memory
      BY <2>2, QueuedVQ DEF Answered
    <3>2. status' \in [Memories -> HubRows] /\ status'[VQ!Current] = "pending_chain"
          /\ \A m \in Memories : m # VQ!Current => status'[m] = status[m]
      BY <2>2, <3>1 DEF TypeVQ, HubRows
    <3> QED BY <2>0, <2>2, <3>1, <3>2, RowsVQ
  <2>3. CASE VQ!StoreKeywords \/ VQ!Embed
    BY <2>1, <2>3 DEF VQ!StoreKeywords, VQ!Embed, VQ!NextStage, VQ!Answer
  <2>4. CASE VQ!VerifyKeywords
    BY <2>1, <2>2, <2>4 DEF VQ!VerifyKeywords, VQ!Answer
  <2> QED BY <1>8, <2>3, <2>4 DEF VQ!Serve
<1>9. CASE VQ!FinishJob
  <2> DEFINE c == VQ!Current
  <2>0. /\ jobs' = VQ!WithoutMemory(c) /\ reply' = "none"
        /\ step' = VQ!ProcessNext(jobs', "idle") /\ UNCHANGED <<status, mcp>>
        /\ \/ step = "verify" /\ VQ!FinishVerified(c)
           \/ step # "idle" /\ VQ!FinishFailed(c)
    BY <1>9 DEF VQ!FinishJob
  <2>1. jobs # <<>> /\ c \in Memories /\ c = jobs[1].memory
    BY <2>0, QueuedVQ DEF Answered
  <2>2. /\ \E X : jobs' \in Seq([memory : Memories, batch : X])
        /\ VQ!Queued' = VQ!Queued \ {c}
    BY <2>0, WithoutMemoryVQ
  <2> HIDE DEF c
  <2>3. Answered' /\ Going'
    BY <2>0, ProcessNextVQ DEF Answered, Going, VQ!Connected, VQ!ProcessNext
  <2>4. CASE VQ!FinishVerified(c)
    <3>1. /\ reply = "ok" /\ failed' = failed \ {c} /\ inputs' = inputs \ {c}
          /\ verified' = verified \cup {c}
          /\ \/ batchOf' = batchOf
             \/ batchOf' = [batchOf EXCEPT ![c] = jobs[1].batch]
      BY <2>4 DEF VQ!FinishVerified
    <3>2. /\ batchOf' \in [Memories -> B \cup {jobs[1].batch}]
          /\ \A m \in Memories : m # c => batchOf'[m] = batchOf[m]
      BY <1>b, <3>1
    <3>3. TypeVQ'
      BY <2>0, <2>1, <2>2, <3>1, <3>2 DEF TypeVQ
    <3>4. Failing'
      BY <2>2, <3>1 DEF Failing
    <3>5. ASSUME NEW m \in VQ!Shown', m # c
          PROVE  m \in VQ!Queued' \cup verified' \cup (failed' \cap inputs')
      <4>1. m \in Memories /\ batchOf'[m] # NoBatch
        BY DEF VQ!Shown
      <4> QED BY <1>c, <2>2, <3>1, <3>2, <3>5, <4>1 DEF Accounted
    <3>6. VQ!VerifiedIsVerified'
      BY <2>0, <2>1, <3>1 DEF VQ!VerifiedIsVerified, Answered
    <3> QED BY <2>3, <3>1, <3>3, <3>4, <3>5, <3>6 DEF Accounted
  <2>5. CASE VQ!FinishFailed(c)
    <3>1. /\ failed' = failed \cup {c} /\ inputs' = inputs \cup {c}
          /\ UNCHANGED <<batchOf, verified>>
      BY <2>5 DEF VQ!FinishFailed
    <3>2. TypeVQ'
      BY <2>0, <2>2, <3>1 DEF TypeVQ
    <3>3. Failing'
      BY <2>2, <3>1 DEF Failing
    <3>4. Accounted'
      BY <2>2, <3>1 DEF Accounted, VQ!Shown
    <3>5. VQ!VerifiedIsVerified'
      BY <2>0, <3>1 DEF VQ!VerifiedIsVerified
    <3> QED BY <2>3, <3>2, <3>3, <3>4, <3>5
  <2> QED BY <2>0, <2>4, <2>5
<1>10. CASE VQ!Lose
  <2>1. /\ reply' = "error"
        /\ UNCHANGED <<status, jobs, step, batchOf, verified, failed, inputs, mcp>>
    BY <1>10 DEF VQ!Lose, VQ!Answer
  <2> QED BY <2>1, RowsVQ DEF TypeVQ
<1>11. CASE VQ!Connect \/ VQ!Disconnect
  <2>1. /\ UNCHANGED <<status, jobs, reply, batchOf, verified, failed, inputs>>
        /\ \/ step' = IF step = "idle" /\ jobs # <<>> THEN "update" ELSE step
           \/ step' = step /\ mcp' = "connecting"
    BY <1>11 DEF VQ!Connect, VQ!Disconnect
  <2>2. TypeVQ' /\ Answered' /\ Going'
    BY <2>1 DEF TypeVQ, Answered, Going, VQ!Connected
  <2> QED BY <2>1, <2>2 DEF Failing, Accounted, VQ!Shown, VQ!Queued, VQ!VerifiedIsVerified
<1>12. CASE VQ!Reload
  <2>0. /\ step' = "idle" /\ reply' = "none" /\ mcp' = "connecting"
        /\ VQ!LoadPersistedState \/ VQ!ClearPersistedQueueState
    BY <1>12 DEF VQ!Reload
  <2>1. /\ status' \in [Memories -> HubRows]
        /\ \A m \in Memories : status[m] # "pending_keyword" => status'[m] # "pending_keyword"
    <3>1. CASE UNCHANGED status
      BY <3>1 DEF TypeVQ
    <3>2. ASSUME step = "verify", status' = [status EXCEPT ![VQ!Current] = "pending_chain"]
          PROVE  /\ status' \in [Memories -> HubRows]
                 /\ \A m \in Memories :
                      status[m] # "pending_keyword" => status'[m] # "pending_keyword"
      BY <3>2 DEF TypeVQ, HubRows
    <3> QED BY <1>12, <3>1, <3>2 DEF VQ!Reload
  <2>2. Answered' /\ Going'
    BY <2>0 DEF Answered, Going, VQ!Connected
  <2>3. CASE VQ!LoadPersistedState
    <3> DEFINE kept0 == VQ!Without(batchOf, VQ!Concluded(batchOf, verified))
               lost == {m \in failed : kept0[m] = NoBatch}
               own == VQ!FreshIds(lost)
               batch(m) == (CHOOSE j \in VQ!Range(jobs) : j.memory = m).batch
    <3>1. /\ batchOf' = [m \in Memories |-> CASE m \in lost -> own[m]
                                              [] kept0[m] = NoBatch /\ m \in VQ!Queued -> batch(m)
                                              [] OTHER -> kept0[m]]
          /\ verified' = {m \in verified : kept0[m] # NoBatch}
          /\ inputs' = inputs \cup VQ!Queued /\ UNCHANGED <<jobs, failed>>
      BY <2>3 DEF VQ!LoadPersistedState
    <3>2. \A m \in Memories : kept0[m] # NoBatch => batchOf[m] # NoBatch
      BY DEF VQ!Without
    <3> HIDE DEF kept0, own, batch
    <3>3. VQ!Queued' = VQ!Queued
      BY <3>1 DEF VQ!Queued
    <3>4. \A m \in Memories : m \notin lost \cup VQ!Queued => batchOf'[m] = kept0[m]
      BY <3>1
    <3>5. batchOf' \in [Memories -> {batchOf'[m] : m \in Memories}]
      BY <3>1
    <3>6. TypeVQ'
      BY <2>1, <3>1, <3>5 DEF TypeVQ
    <3>7. Failing'
      BY <3>1, <3>3 DEF Failing
    <3>8. ASSUME NEW m \in VQ!Shown', m \notin lost \cup VQ!Queued
          PROVE  m \in verified' \cup (failed' \cap inputs')
      <4>1. m \in Memories /\ kept0[m] # NoBatch
        BY <3>4, <3>8 DEF VQ!Shown
      <4>2. m \in VQ!Shown
        BY <1>c, <3>2, <4>1
      <4> QED BY <3>1, <3>8, <4>1, <4>2 DEF Accounted
    <3>9. Accounted'
      BY <3>1, <3>3, <3>8 DEF Accounted, Failing
    <3>10. VQ!VerifiedIsVerified'
      BY <2>1, <3>1 DEF VQ!VerifiedIsVerified, TypeVQ
    <3> QED BY <2>2, <3>6, <3>7, <3>9, <3>10
  <2>4. CASE VQ!ClearPersistedQueueState
    <3>1. /\ jobs' = <<>> /\ batchOf' = [m \in Memories |-> NoBatch]
          /\ verified' = {} /\ failed' = {} /\ inputs' = {}
      BY <2>4 DEF VQ!ClearPersistedQueueState
    <3>2. jobs' \in Seq([memory : Memories, batch : {}]) /\ batchOf' \in [Memories -> {NoBatch}]
      BY <3>1
    <3>3. TypeVQ'
      BY <2>1, <3>1, <3>2 DEF TypeVQ
    <3>4. VQ!Shown' = {}
      BY <3>1 DEF VQ!Shown
    <3> QED BY <2>2, <3>1, <3>3, <3>4 DEF Failing, Accounted, VQ!VerifiedIsVerified
  <2> QED BY <2>0, <2>3, <2>4
<1>13. CASE UNCHANGED ofVQ
  BY <1>a, <1>13 DEF ofVQ
<1> QED BY <1>1, <1>2, <1>3, <1>4, <1>5, <1>6, <1>7, <1>8, <1>9, <1>10, <1>11, <1>12, <1>13
        DEF VQ!Next, VQ!Panel, VQ!RunJob

\* The queue never leaves a memory on screen without a job, a verification behind it or a
\* failure that can be retried, and never calls a row verified that the hub has not taken:
\* not when an answer is lost, a page is reloaded or a list is stale.
THEOREM TheQueueIsHonest == FairSpec => []QueueIsHonest
<1>1. Init => InvVQ
  BY InitVQ DEF Init
<1>2. InvVQ /\ [Next]_vars => InvVQ'
  <2> SUFFICES ASSUME InvVQ, [Next]_vars PROVE InvVQ'
    OBVIOUS
  <2>1. [VQ!Next]_ofVQ
    BY MovesVQ
  <2>2. HonestVQ'
    BY <2>1, NextHonest
  <2>3. Listed'
    BY <2>1, NextListed DEF InvVQ
  <2> QED BY <2>2, <2>3 DEF InvVQ
<1>3. InvVQ => QueueIsHonest
  BY DEF InvVQ, HonestVQ, QueueIsHonest, Accounted, Going, VQ!NothingHangs
<1> QED
  BY <1>1, <1>2, <1>3, PTL DEF FairSpec

(***************************************************************************)
(* The types of the desks.                                                 *)
(* What the invariants above do not say of the variables.                  *)
(***************************************************************************)
\* Only moderators recommend.
Recommending == \A p \in RD!Pages :
                  answer[p] # <<>> /\ answer[p][2] = "recommend" => p \in Moderators
\* So only they vote.
Votes == votes \in [Reports -> SUBSET Moderators]

TypesRD == Recommending /\ Votes

\* The types of the reports follow from both.
LEMMA AllTypesRD == InvRD /\ TypesRD => RD!TypeOK
  BY DEF InvRD, TypesRD, TypeRD, Votes, RD!TypeOK, RD!Idle, RD!Answers, RD!Resolutions, Commands,
         Statuses

\* They hold at first.
LEMMA InitTypesRD == RD!Init => TypesRD
  BY DEF TypesRD, RD!Init, RD!Idle, Recommending, Votes

\* Every step keeps them: an answer on its way that votes is a moderator's.
LEMMA NextTypesRD == InvRD /\ TypesRD /\ [RD!Next]_ofRD => TypesRD'
<1> SUFFICES ASSUME TypeRD, Recommending, Votes, [RD!Next]_ofRD PROVE (Recommending /\ Votes)'
  BY DEF InvRD, TypesRD
<1>1. CASE \/ RD!RemoveReporter \/ UNCHANGED ofRD
           \/ \E r \in Reports : RD!CheckReport(r) \/ RD!CreateReport(r)
  BY <1>1 DEF RD!RemoveReporter, ofRD, RD!CheckReport, RD!CreateReport, RD!decided,
              Recommending, Votes
<1>2. ASSUME NEW p \in RD!Pages, NEW r \in Reports, RD!Clicks(p, r)
      PROVE  (Recommending /\ Votes)'
  <2>1. PICK what \in {"upheld", "dismissed", "recommend", "commit"} :
          /\ answer' = [answer EXCEPT ![p] = <<r, what, "sent">>]
          /\ what = "recommend" => p \in Moderators
    BY <1>2 DEF RD!Clicks, RD!HandleResolve, RD!HandleRecommend, RD!HandleCommitReport, RD!Click,
                RD!CanRecommend, RD!Resolutions
  <2>2. Recommending'
    BY <2>1 DEF TypeRD, Recommending
  <2> QED BY <1>2, <2>2 DEF RD!Clicks, RD!decided, Votes
<1>3. ASSUME NEW p \in RD!Pages, NEW r \in Reports,
             \/ RD!LoadForUpdate(p, r) \/ RD!UpdateReport(p, r) \/ RD!VoteOnReport(p, r)
             \/ RD!RollBack(p, r) \/ RD!ReportMemory(p, r)
      PROVE  (Recommending /\ Votes)'
  <2>1. /\ answer[p] # <<>>
        /\ answer' = [answer EXCEPT ![p] = <<>>] \/ answer' = [answer EXCEPT ![p][3] = "held"]
        /\ votes' = votes \/ /\ votes' = [votes EXCEPT ![r] = @ \cup {p}]
                             /\ answer[p][2] = "recommend"
    BY <1>3 DEF RD!LoadForUpdate, RD!UpdateReport, RD!VoteOnReport, RD!RollBack,
                RD!ReportMemory, RD!Hold, RD!Done, RD!At, RD!Idle, RD!decided
  <2>2. answer[p] \in Commands
    BY <2>1 DEF TypeRD
  <2>3. Recommending'
    BY <2>1, <2>2 DEF TypeRD, Recommending, Commands
  <2>4. Votes'
    BY <2>1 DEF Recommending, Votes
  <2> QED BY <2>3, <2>4
<1> QED BY <1>1, <1>2, <1>3 DEF RD!Next

\* What a request to join may hold besides.
TypesJD ==
  /\ row \in {"none", "member", "trial"} /\ landed \in {"none", "member", "trial"}
  /\ listed \subseteq Desks /\ included \subseteq Numbers /\ joinFaults \in 0..MaxJoinFaults

\* The types of the desk follow.
LEMMA AllTypesJD == InvJD /\ TypesJD => JD!TypeOK
  <1>1. ASSUME InvJD PROVE relayed \subseteq 1..MaxApprovals
    BY <1>1, BoundsAssumption DEF InvJD, TypeJD, Numbered
  <1> QED BY <1>1 DEF InvJD, TypeJD, TypesJD, JD!TypeOK, JD!Tiers, JD!Phases, Busy, Numbers

\* They hold at first.
LEMMA InitTypesJD == JD!Init => TypesJD
  BY BoundsAssumption DEF JD!Init, TypesJD

\* Every step keeps them.
LEMMA NextTypesJD == InvJD /\ TypesJD /\ [JD!Next]_ofJD => TypesJD'
<1> SUFFICES ASSUME InvJD, TypesJD, [JD!Next]_ofJD PROVE TypesJD'
  OBVIOUS
<1>f. ASSUME NEW k, JD!Fault(k) PROVE joinFaults' \in 0..MaxJoinFaults
  <2>1. MaxJoinFaults \in Nat
    BY BoundsAssumption
  <2> QED BY <1>f, <2>1 DEF JD!Fault, TypesJD
<1>1. CASE JD!RevertStale \/ JD!AddMember \/ UNCHANGED ofJD
  BY <1>1 DEF JD!RevertStale, JD!AddMember, JD!chain, ofJD, TypesJD, InvJD, TypeJD
<1>2. ASSUME NEW n \in Numbers, JD!Include(n) PROVE TypesJD'
  <2>1. choice[n] \in {"member", "trial"}
    BY DEF InvJD, TypeJD
  <2> QED BY <1>2, <2>1 DEF JD!Include, JD!hub, TypesJD
<1>3. ASSUME NEW d \in Desks,
             \/ JD!LoadRequests(d) \/ JD!HandleApprove(d) \/ JD!HandleDeny(d)
             \/ JD!BroadcastEnds(d) \/ JD!CheckDenial(d) \/ JD!DenyJoinRequest(d)
      PROVE  TypesJD'
  BY <1>3 DEF JD!LoadRequests, JD!HandleApprove, JD!HandleDeny, JD!BroadcastEnds,
     JD!CheckDenial, JD!DenyJoinRequest, JD!hub, JD!chain, TypesJD
<1>4. ASSUME NEW d \in Desks,
             \/ JD!Broadcast(d) \/ JD!Reload(d)
             \/ JD!ApproveJoinRequest(d) \/ JD!CancelJoinApproval(d)
      PROVE  TypesJD'
  <2>1. /\ row' = row /\ landed' = landed /\ included' = included /\ listed' \subseteq listed
        /\ joinFaults' = joinFaults \/ \E k : JD!Fault(k)
    BY <1>4 DEF JD!Broadcast, JD!Reload, JD!ApproveJoinRequest, JD!CancelJoinApproval, JD!hub,
                JD!chain
  <2> QED BY <2>1, <1>f DEF TypesJD
<1> QED BY <1>1, <1>2, <1>3, <1>4 DEF JD!Next, Numbers

\* An injection into a set that is large enough.
LEMMA Injects ==
  ASSUME NEW S, NEW T, IsFiniteSet(S), IsFiniteSet(T), Cardinality(S) <= Cardinality(T)
  PROVE  \E f \in [S -> T] : \A x, y \in S : f[x] = f[y] => x = y
<1> DEFINE s == Cardinality(S)
           t == Cardinality(T)
<1>1. s \in Nat /\ t \in Nat /\ ExistsBijection(1..s, S) /\ ExistsBijection(1..t, T)
  BY FS_CardinalityType
<1>0. s <= t
  OBVIOUS
<1> HIDE DEF s, t
<1>2. PICK f \in Bijection(1..s, S) : TRUE
  BY <1>1 DEF ExistsBijection
<1>3. PICK g \in Bijection(1..t, T) : TRUE
  BY <1>1 DEF ExistsBijection
<1>4. /\ f \in [1..s -> S] /\ \A x \in S : \E k \in 1..s : f[k] = x
      /\ g \in [1..t -> T] /\ \A k, l \in 1..t : g[k] = g[l] => k = l
  BY <1>2, <1>3 DEF Bijection, Injection, Surjection, IsInjective
<1> DEFINE n(x) == CHOOSE k \in 1..s : f[k] = x
           h == [x \in S |-> g[n(x)]]
<1>5. ASSUME NEW x \in S PROVE n(x) \in 1..t /\ f[n(x)] = x
  <2>1. n(x) \in 1..s /\ f[n(x)] = x
    BY <1>4
  <2> HIDE DEF n
  <2> QED BY <1>0, <1>1, <2>1
<1>6. h \in [S -> T] /\ \A x \in S : h[x] = g[n(x)]
  BY <1>4, <1>5
<1>7. ASSUME NEW x \in S, NEW y \in S, h[x] = h[y] PROVE x = y
  <2>1. g[n(x)] = g[n(y)]
    BY <1>6, <1>7
  <2> HIDE DEF n, h
  <2>2. n(x) = n(y)
    BY <1>4, <1>5, <2>1
  <2> QED BY <1>5, <2>2
<1> HIDE DEF h
<1> QED BY <1>6, <1>7

\* The ids of the batches, one for each memory that an entry or the screen has.
SameBatch == \A k, l \in 1..Len(jobs) : jobs[k].memory = jobs[l].memory =>
               jobs[k].batch = jobs[l].batch

\* Every batch has one of the ids.
BatchesVQ == /\ jobs \in Seq(VQ!JobSet) /\ batchOf \in [Memories -> VQ!BatchIds \cup {NoBatch}]
             /\ SameBatch

\* There are two ids for each memory, and one more.
LEMMA BatchIdsVQ ==
  /\ Cardinality(Memories) \in Nat /\ VQ!BatchIds = 1..(2 * Cardinality(Memories) + 1)
  /\ IsFiniteSet(VQ!BatchIds) /\ Cardinality(VQ!BatchIds) = 2 * Cardinality(Memories) + 1
<1>1. Cardinality(Memories) \in Nat
  BY SetsAssumption, FS_CardinalityType
<1>2. VQ!BatchIds = 1..(2 * Cardinality(Memories) + 1)
  BY DEF VQ!BatchIds, VQ!Cardinality, Cardinality
<1> DEFINE n == 2 * Cardinality(Memories) + 1
<1>3. n \in Nat /\ 1 <= n
  BY <1>1
<1> HIDE DEF n
<1>4. IsFiniteSet(1..n) /\ Cardinality(1..n) = n
  BY <1>3, FS_Interval
<1> QED BY <1>1, <1>2, <1>4 DEF n

\* The image of a finite set.
LEMMA ImageVQ ==
  ASSUME NEW S, IsFiniteSet(S), NEW f
  PROVE  IsFiniteSet({f[x] : x \in S}) /\ Cardinality({f[x] : x \in S}) <= Cardinality(S)
<1> DEFINE T == {f[x] : x \in S}
           g == [x \in S |-> f[x]]
<1>1. g \in Surjection(S, T)
  BY DEF Surjection
<1> HIDE DEF T, g
<1>2. IsFiniteSet(T) /\ Cardinality(T) <= Cardinality(S)
  BY <1>1, FS_Surjection
<1> QED BY <1>2 DEF T

\* There are ids left for a new batch, or for the failures that a reload brings back.
LEMMA FreshIdsVQ ==
  ASSUME TypeVQ, BatchesVQ, NEW S, IsFiniteSet(S),
         Cardinality(S) + Cardinality(VQ!Queued) <= Cardinality(Memories) + 1
  PROVE  VQ!FreshIds(S) \in [S -> VQ!BatchIds]
<1> DEFINE screen == {batchOf[m] : m \in VQ!Shown}
           inJobs == {jobs[i].batch : i \in DOMAIN jobs}
           at == [m \in VQ!Queued |-> CHOOSE i \in DOMAIN jobs : jobs[i].memory = m]
           of == [m \in VQ!Queued |-> jobs[at[m]].batch]
           used == screen \cup inJobs
           free == VQ!BatchIds \ used
           M == Cardinality(Memories)
           Q == Cardinality(VQ!Queued)
<1>1. /\ DOMAIN jobs = 1..Len(jobs) /\ VQ!Queued \subseteq Memories
      /\ VQ!Shown \subseteq Memories
  BY QueuedVQ DEF BatchesVQ, VQ!Shown
<1>2. /\ IsFiniteSet(VQ!Queued) /\ Q \in Nat /\ IsFiniteSet(VQ!Shown)
      /\ Cardinality(VQ!Shown) <= M /\ Cardinality(VQ!Shown) \in Nat /\ M \in Nat
      /\ Cardinality(S) \in Nat
  BY <1>1, SetsAssumption, FS_Subset, FS_CardinalityType
<1>3. inJobs = {of[m] : m \in VQ!Queued}
  <2>1. ASSUME NEW m \in VQ!Queued PROVE at[m] \in DOMAIN jobs /\ jobs[at[m]].memory = m
    BY DEF VQ!Queued
  <2>2. ASSUME NEW m \in VQ!Queued PROVE of[m] \in inJobs
    BY <2>1
  <2>3. ASSUME NEW i \in DOMAIN jobs
        PROVE  jobs[i].memory \in VQ!Queued /\ of[jobs[i].memory] = jobs[i].batch
    <3>1. jobs[i].memory \in VQ!Queued
      BY DEF VQ!Queued
    <3>2. at[jobs[i].memory] \in DOMAIN jobs /\ jobs[at[jobs[i].memory]].memory = jobs[i].memory
      BY <2>1, <3>1
    <3>3. jobs[at[jobs[i].memory]].batch = jobs[i].batch
      BY <1>1, <3>2 DEF BatchesVQ, SameBatch
    <3> QED BY <3>1, <3>3
  <2> HIDE DEF at, of
  <2> QED BY <2>2, <2>3
<1> HIDE DEF of, at, inJobs, screen
<1>4. IsFiniteSet(inJobs) /\ Cardinality(inJobs) <= Q /\ Cardinality(inJobs) \in Nat
  BY <1>2, <1>3, ImageVQ, FS_CardinalityType
<1>5. IsFiniteSet(screen) /\ Cardinality(screen) <= M /\ Cardinality(screen) \in Nat
  <2>1. IsFiniteSet(screen) /\ Cardinality(screen) <= Cardinality(VQ!Shown)
    BY <1>2, ImageVQ DEF screen
  <2>2. Cardinality(screen) \in Nat
    BY <2>1, FS_CardinalityType
  <2> HIDE DEF M
  <2> QED BY <1>2, <2>1, <2>2
<1>6. IsFiniteSet(used) /\ Cardinality(used) \in Nat /\ Cardinality(used) <= M + Q
  <2>1. IsFiniteSet(screen \cap inJobs) /\ Cardinality(screen \cap inJobs) \in Nat
    BY <1>4, FS_Subset, FS_CardinalityType
  <2>2. /\ IsFiniteSet(used) /\ Cardinality(used) \in Nat
        /\ Cardinality(used) =
             Cardinality(screen) + Cardinality(inJobs) - Cardinality(screen \cap inJobs)
    BY <1>4, <1>5, FS_Union, FS_CardinalityType
  <2> HIDE DEF M, Q
  <2> QED BY <1>2, <1>4, <1>5, <2>1, <2>2
<1> HIDE DEF used
<1>7. IsFiniteSet(free) /\ Cardinality(S) <= Cardinality(free)
  <2>1. /\ Cardinality(VQ!BatchIds \cap used) <= Cardinality(used)
        /\ Cardinality(VQ!BatchIds \cap used) \in Nat
    BY <1>6, FS_Subset, FS_CardinalityType
  <2>2. /\ IsFiniteSet(free)
        /\ Cardinality(free) = (2 * M + 1) - Cardinality(VQ!BatchIds \cap used)
    BY BatchIdsVQ, FS_Difference
  <2>3. Cardinality(S) + Q <= M + 1
    OBVIOUS
  <2> HIDE DEF M, Q, free
  <2> QED BY <1>2, <1>6, <2>1, <2>2, <2>3
<1>8. \E f \in [S -> free] : VQ!IsInjective(f)
  <2> HIDE DEF free
  <2>1. PICK f \in [S -> free] : \A x, y \in S : f[x] = f[y] => x = y
    BY <1>7, Injects
  <2>2. VQ!IsInjective(f)
    BY <2>1 DEF VQ!IsInjective
  <2> QED BY <2>2
<1>9. VQ!FreshIds(S) = CHOOSE f \in [S -> free] : VQ!IsInjective(f)
  BY DEF VQ!FreshIds, used, screen, inJobs
<1>10. VQ!FreshIds(S) \in [S -> free]
  <2> HIDE DEF free
  <2> QED BY <1>8, <1>9
<1> QED BY <1>10

\* The types of the other variables.
PlainVQ ==
  /\ onChain \subseteq Memories /\ ready \subseteq Memories /\ sending \subseteq Memories
  /\ failed \subseteq Memories /\ inputs \subseteq Memories
  /\ step \in {"idle", "update", "embed", "verify"} /\ reply \in {"none", "ok", "error"}
  /\ mcp \in {"connecting", "connected"} /\ queueFaults \in 0..MaxQueueFaults

TypesVQ == BatchesVQ /\ PlainVQ

\* The types of the queue and the panel follow.
LEMMA AllTypesVQ == InvVQ /\ TypesVQ => VQ!TypeOK
  BY DEF InvVQ, HonestVQ, TypeVQ, HubRows, Listed, Loads, TypesVQ, BatchesVQ, PlainVQ, VQ!TypeOK,
         VQ!Pending

\* They hold when the page opens first.
LEMMA InitTypesVQ == VQ!Init => TypesVQ
<1> SUFFICES ASSUME VQ!Init PROVE TypesVQ
  OBVIOUS
<1>1. Len(jobs) = 0 /\ jobs \in Seq(VQ!JobSet)
  BY DEF VQ!Init
<1>2. MaxQueueFaults \in Nat
  BY BoundsAssumption
<1> QED BY <1>1, <1>2 DEF VQ!Init, TypesVQ, BatchesVQ, SameBatch, PlainVQ

\* The entries that stay keep their batches.
LEMMA BatchesStay ==
  ASSUME BatchesVQ, NEW m, jobs' = VQ!WithoutMemory(m)
  PROVE  jobs' \in Seq(VQ!JobSet) /\ SameBatch'
<1> DEFINE keep == {i \in DOMAIN jobs : jobs[i].memory # m}
           q == Kept(jobs, keep)
<1>1. jobs' = q
  BY KeptVQ DEF VQ!WithoutMemory
<1>2. jobs \in Seq(VQ!JobSet) /\ keep \in SUBSET (DOMAIN jobs)
  BY DEF BatchesVQ
<1> HIDE DEF keep
<1>3. q \in Seq(VQ!JobSet) /\ \A k \in DOMAIN q : \E i \in keep : q[k] = jobs[i]
  BY <1>2, KeptEntries
<1> HIDE DEF q
<1>4. \A k \in 1..Len(jobs') : \E i \in 1..Len(jobs) : jobs'[k] = jobs[i]
  <2>1. DOMAIN q = 1..Len(q) /\ DOMAIN jobs = 1..Len(jobs)
    BY <1>2, <1>3
  <2> QED BY <1>1, <1>2, <1>3, <2>1
<1>5. SameBatch'
  BY <1>4 DEF BatchesVQ, SameBatch
<1> QED BY <1>1, <1>3, <1>5

\* New entries are of one batch, and of memories that have no entry.
LEMMA BatchesGrow ==
  ASSUME TypeVQ, BatchesVQ, NEW n \in Nat, NEW q \in [1..n -> Memories], NEW b \in VQ!BatchIds,
         \A i \in 1..n : q[i] \notin VQ!Queued,
         jobs' = jobs \o [i \in 1..n |-> [memory |-> q[i], batch |-> b]]
  PROVE  jobs' \in Seq(VQ!JobSet) /\ SameBatch'
<1> DEFINE e == [i \in 1..n |-> [memory |-> q[i], batch |-> b]]
<1>1. jobs \in Seq(VQ!JobSet) /\ Len(jobs) \in Nat
  BY DEF BatchesVQ
<1>2. \A i \in 1..n : [memory |-> q[i], batch |-> b] \in VQ!JobSet
  BY DEF VQ!JobSet
<1>3. /\ e \in Seq(VQ!JobSet) /\ Len(e) = n
      /\ \A i \in 1..n : e[i].memory = q[i] /\ e[i].batch = b
  BY <1>2
<1>4. jobs' = jobs \o e
  OBVIOUS
<1> HIDE DEF e
<1>5. /\ jobs' \in Seq(VQ!JobSet) /\ Len(jobs') = Len(jobs) + n
      /\ \A k \in 1..(Len(jobs) + n) :
           jobs'[k] = IF k <= Len(jobs) THEN jobs[k] ELSE e[k - Len(jobs)]
  <2>1. /\ jobs \o e \in Seq(VQ!JobSet) /\ Len(jobs \o e) = Len(jobs) + Len(e)
        /\ \A k \in 1..(Len(jobs) + Len(e)) :
             (jobs \o e)[k] = IF k <= Len(jobs) THEN jobs[k] ELSE e[k - Len(jobs)]
    BY <1>1, <1>3, ConcatProperties
  <2> QED BY <1>3, <1>4, <2>1
<1>6. ASSUME NEW k \in 1..Len(jobs')
      PROVE  \/ k \in 1..Len(jobs) /\ jobs'[k] = jobs[k]
             \/ jobs'[k].memory \notin VQ!Queued /\ jobs'[k].batch = b
  <2>1. CASE k <= Len(jobs)
    BY <1>1, <1>5, <2>1
  <2>2. CASE ~ (k <= Len(jobs))
    <3>1. k - Len(jobs) \in 1..n /\ k \in 1..(Len(jobs) + n)
      BY <1>1, <1>5, <2>2
    <3>2. jobs'[k] = e[k - Len(jobs)]
      BY <1>5, <2>2, <3>1
    <3>3. e[k - Len(jobs)].memory \notin VQ!Queued /\ e[k - Len(jobs)].batch = b
      BY <1>3, <3>1
    <3> QED BY <3>2, <3>3
  <2> QED BY <2>1, <2>2
<1>7. \A k \in 1..Len(jobs) : jobs[k].memory \in VQ!Queued
  BY QueuedVQ
<1>8. SameBatch'
  <2>1. ASSUME NEW k \in 1..Len(jobs'), NEW l \in 1..Len(jobs'),
               jobs'[k].memory = jobs'[l].memory
        PROVE  jobs'[k].batch = jobs'[l].batch
    <3>1. CASE k \in 1..Len(jobs) /\ jobs'[k] = jobs[k]
      BY <1>6, <1>7, <2>1, <3>1 DEF BatchesVQ, SameBatch
    <3>2. CASE jobs'[k].memory \notin VQ!Queued /\ jobs'[k].batch = b
      BY <1>6, <1>7, <2>1, <3>2
    <3> QED BY <1>6, <3>1, <3>2
  <2> QED BY <2>1 DEF SameBatch
<1> QED BY <1>5, <1>8

\* A memory that is tried again keeps its batch.
LEMMA BatchAppended ==
  ASSUME TypeVQ, BatchesVQ, NEW m \in Memories, m \notin VQ!Queued, NEW b \in VQ!BatchIds,
         jobs' = Append(jobs, [memory |-> m, batch |-> b])
  PROVE  jobs' \in Seq(VQ!JobSet) /\ SameBatch'
<1> DEFINE j == [memory |-> m, batch |-> b]
<1>1. jobs \in Seq(VQ!JobSet) /\ Len(jobs) \in Nat /\ jobs' = Append(jobs, j)
  BY DEF BatchesVQ
<1>2. j \in VQ!JobSet /\ j.memory = m /\ j.batch = b
  BY DEF VQ!JobSet
<1> HIDE DEF j
<1>3. /\ jobs' \in Seq(VQ!JobSet) /\ Len(jobs') = Len(jobs) + 1
      /\ \A k \in 1..Len(jobs) : jobs'[k] = jobs[k]
      /\ jobs'[Len(jobs) + 1] = j
  BY <1>1, <1>2, AppendProperties
<1>4. \A k \in 1..Len(jobs') : (k \in 1..Len(jobs) /\ jobs'[k] = jobs[k]) \/ jobs'[k] = j
  BY <1>1, <1>3
<1>5. \A k \in 1..Len(jobs) : jobs[k].memory \in VQ!Queued
  BY QueuedVQ
<1>6. SameBatch'
  BY <1>2, <1>4, <1>5 DEF BatchesVQ, SameBatch
<1> QED BY <1>3, <1>6

\* Every step keeps the batches within the ids.
LEMMA NextBatchesVQ == InvVQ /\ TypesVQ /\ [VQ!Next]_ofVQ => BatchesVQ'
<1> SUFFICES ASSUME InvVQ, TypesVQ, [VQ!Next]_ofVQ PROVE BatchesVQ'
  OBVIOUS
<1> USE DEF VQ!tabQueue, VQ!lists
<1> DEFINE B == VQ!BatchIds \cup {NoBatch}
<1>0. /\ TypeVQ /\ BatchesVQ /\ Listed /\ Answered /\ Failing
      /\ jobs \in Seq(VQ!JobSet) /\ batchOf \in [Memories -> B]
  BY DEF InvVQ, HonestVQ, TypesVQ, BatchesVQ
<1>a. CASE UNCHANGED <<jobs, batchOf>>
  BY <1>0, <1>a DEF BatchesVQ, SameBatch
<1>b. ASSUME jobs' \in Seq(VQ!JobSet), SameBatch', batchOf' \in [Memories -> B]
      PROVE  BatchesVQ'
  BY <1>b DEF BatchesVQ, VQ!BatchIds
<1>c. ASSUME UNCHANGED jobs, batchOf' \in [Memories -> B] PROVE BatchesVQ'
  BY <1>0, <1>c DEF BatchesVQ, SameBatch
<1>d. ASSUME NEW S \in SUBSET Memories, NEW of \in [Memories -> B]
      PROVE  VQ!Without(of, S) \in [Memories -> B]
  BY DEF VQ!Without
<1> HIDE DEF B
<1>e. /\ IsFiniteSet(VQ!Queued) /\ Cardinality(VQ!Queued) \in Nat
      /\ Cardinality(VQ!Queued) <= Cardinality(Memories) /\ Cardinality(Memories) \in Nat
      /\ VQ!Queued \subseteq Memories
  BY <1>0, QueuedVQ, SetsAssumption, FS_Subset, FS_CardinalityType
<1>1. CASE VQ!VerifyAll
  <2> DEFINE q == VQ!SetToSeq(VQ!Awaiting)
             b == VQ!FreshIds({0})[0]
             S == VQ!Range(q)
  <2>1. VQ!Awaiting \in SUBSET Memories /\ VQ!Awaiting \cap VQ!Queued = {}
    BY <1>0 DEF VQ!Awaiting, Listed
  <2>2. PICK n \in Nat : /\ q \in [1..n -> Memories] /\ {q[i] : i \in 1..n} = S
                          /\ DOMAIN q = 1..n /\ S \subseteq VQ!Awaiting
    BY <2>1, ListedVQ
  <2>4. /\ jobs' = jobs \o [i \in DOMAIN q |-> [memory |-> q[i], batch |-> b]]
        /\ batchOf' = [m \in Memories |-> IF m \in S THEN b ELSE batchOf[m]]
    BY <1>1 DEF VQ!VerifyAll, VQ!EnqueueVerificationBatch
  <2>5. b \in VQ!BatchIds
    <3>1. IsFiniteSet({0}) /\ Cardinality({0}) = 1
      BY FS_Singleton
    <3>2. Cardinality({0}) + Cardinality(VQ!Queued) <= Cardinality(Memories) + 1
      BY <1>e, <3>1
    <3>3. VQ!FreshIds({0}) \in [{0} -> VQ!BatchIds]
      BY <1>0, <3>1, <3>2, FreshIdsVQ
    <3> QED BY <3>3
  <2> HIDE DEF q, b, S
  <2>6. \A i \in 1..n : q[i] \notin VQ!Queued
    BY <2>1, <2>2
  <2>7. jobs' = jobs \o [i \in 1..n |-> [memory |-> q[i], batch |-> b]]
    BY <2>2, <2>4
  <2>8. jobs' \in Seq(VQ!JobSet) /\ SameBatch'
    BY <1>0, <2>2, <2>5, <2>6, <2>7, BatchesGrow
  <2>9. batchOf' \in [Memories -> B]
    BY <1>0, <2>4, <2>5 DEF B
  <2> QED BY <1>b, <2>8, <2>9
<1>2. ASSUME NEW m \in Memories, VQ!RetryVerification(m) PROVE BatchesVQ'
  <2>0. m \in VQ!Shown /\ UNCHANGED batchOf
    BY <1>2 DEF VQ!RetryVerification, VQ!CanRetry
  <2>1. CASE m \in VQ!Queued \/ m \notin inputs
    BY <1>2, <1>a, <2>0, <2>1 DEF VQ!RetryVerification
  <2>2. CASE ~ (m \in VQ!Queued \/ m \notin inputs)
    <3>1. jobs' = Append(jobs, [memory |-> m, batch |-> batchOf[m]])
      BY <1>2, <2>2 DEF VQ!RetryVerification
    <3>2. batchOf[m] \in VQ!BatchIds
      BY <1>0, <2>0 DEF VQ!Shown, B
    <3>3. jobs' \in Seq(VQ!JobSet) /\ SameBatch'
      BY <1>0, <2>2, <3>1, <3>2, BatchAppended
    <3> QED BY <1>0, <1>b, <2>0, <3>3
  <2> QED BY <2>1, <2>2
<1>3. ASSUME NEW m \in Memories, VQ!RemoveVerification(m) PROVE BatchesVQ'
  <2> DEFINE gone == {n \in VQ!Concluded(VQ!Without(batchOf, {m}), verified) :
                        VQ!Without(batchOf, {m})[n] = batchOf[m]}
  <2>1. /\ jobs' = VQ!WithoutMemory(m)
        /\ batchOf' = VQ!Without(VQ!Without(batchOf, {m}), gone)
    BY <1>3 DEF VQ!RemoveVerification
  <2>2. gone \in SUBSET Memories
    BY DEF VQ!Concluded
  <2> HIDE DEF gone
  <2>3. VQ!Without(batchOf, {m}) \in [Memories -> B]
    BY <1>0, <1>d
  <2>4. batchOf' \in [Memories -> B]
    BY <1>d, <2>1, <2>2, <2>3
  <2>5. jobs' \in Seq(VQ!JobSet) /\ SameBatch'
    BY <1>0, <2>1, BatchesStay
  <2> QED BY <1>b, <2>4, <2>5
<1>4. CASE VQ!ShowLists
  <2> PICK f \in Refreshes : VQ!EndOfLoad(f)
    BY <1>4 DEF VQ!ShowLists
  <2> DEFINE settled == {m \in VQ!Shown : VQ!Batch(batchOf[m]) \subseteq load[f].chain}
  <2>1. batchOf' = VQ!Without(batchOf, settled) /\ UNCHANGED jobs
    BY <1>4 DEF VQ!ShowLists, VQ!EndOfLoad, VQ!ReconcileSettledHashes
  <2>2. settled \in SUBSET Memories
    BY DEF VQ!Shown
  <2> HIDE DEF settled
  <2> QED BY <1>0, <1>c, <1>d, <2>1, <2>2
<1>5. ASSUME NEW m \in Memories, VQ!DenyFinal(m) \/ VQ!Commit(m) PROVE BatchesVQ'
  BY <1>a, <1>5 DEF VQ!DenyFinal, VQ!Commit
<1>6. ASSUME NEW S \in Bannable, VQ!BanContributor(S) PROVE BatchesVQ'
  BY <1>a, <1>6 DEF VQ!BanContributor
<1>7. CASE VQ!LoadAll \/ VQ!PrepareBatchSubmit \/ VQ!BroadcastBatch
  BY <1>a, <1>7 DEF VQ!LoadAll, VQ!PrepareBatchSubmit, VQ!BroadcastBatch
<1>8. CASE VQ!Serve \/ VQ!Lose \/ VQ!Connect \/ VQ!Disconnect
  BY <1>a, <1>8 DEF VQ!Serve, VQ!Lose, VQ!Connect, VQ!Disconnect
<1>9. CASE VQ!FinishJob
  <2> DEFINE c == VQ!Current
  <2>1. /\ jobs' = VQ!WithoutMemory(c) /\ step # "idle"
        /\ batchOf' \in {batchOf, [batchOf EXCEPT ![c] = jobs[1].batch]}
    BY <1>9 DEF VQ!FinishJob, VQ!FinishVerified, VQ!FinishFailed
  <2>2. jobs' \in Seq(VQ!JobSet) /\ SameBatch'
    BY <1>0, <2>1, BatchesStay
  <2>3. jobs[1].batch \in VQ!BatchIds
    <3>1. 1 \in 1..Len(jobs)
      BY <1>0, <2>1, QueuedVQ DEF Answered
    <3>2. jobs[1] \in VQ!JobSet
      BY <1>0, <3>1
    <3> QED BY <3>2 DEF VQ!JobSet
  <2> HIDE DEF c
  <2>4. batchOf' \in [Memories -> B]
    BY <1>0, <2>1, <2>3 DEF B
  <2> QED BY <1>b, <2>2, <2>4
<1>10. CASE VQ!Reload
  <2>1. CASE VQ!LoadPersistedState
    <3> DEFINE kept0 == VQ!Without(batchOf, VQ!Concluded(batchOf, verified))
               lost == {m \in failed : kept0[m] = NoBatch}
               own == VQ!FreshIds(lost)
               batch(m) == (CHOOSE j \in VQ!Range(jobs) : j.memory = m).batch
    <3>1. /\ batchOf' = [m \in Memories |-> CASE m \in lost -> own[m]
                                              [] kept0[m] = NoBatch /\ m \in VQ!Queued -> batch(m)
                                              [] OTHER -> kept0[m]]
          /\ UNCHANGED jobs
      BY <2>1 DEF VQ!LoadPersistedState
    <3>2. kept0 \in [Memories -> B]
      <4>1. VQ!Concluded(batchOf, verified) \in SUBSET Memories
        BY DEF VQ!Concluded
      <4> QED BY <1>0, <1>d, <4>1
    <3>7. lost \in SUBSET Memories /\ lost \cap VQ!Queued = {}
      <4> HIDE DEF kept0
      <4> QED BY <1>0 DEF TypesVQ, PlainVQ, Failing
    <3>3. own \in [lost -> VQ!BatchIds]
      <4>1. lost \in SUBSET Memories /\ lost \cap VQ!Queued = {}
        BY <3>7
      <4> HIDE DEF lost
      <4>2. IsFiniteSet(lost) /\ Cardinality(lost) \in Nat
        BY <4>1, SetsAssumption, FS_Subset, FS_CardinalityType
      <4>3. lost \cup VQ!Queued \in SUBSET Memories
        BY <1>e, <4>1
      <4>4. Cardinality(lost \cup VQ!Queued) <= Cardinality(Memories)
        BY <4>3, SetsAssumption, FS_Subset
      <4>5. Cardinality(lost \cup VQ!Queued) =
              Cardinality(lost) + Cardinality(VQ!Queued) - Cardinality({})
        BY <1>e, <4>1, <4>2, FS_Union
      <4>6. Cardinality({}) = 0
        BY FS_EmptySet
      <4>7. Cardinality(lost) + Cardinality(VQ!Queued) <= Cardinality(Memories) + 1
        BY <1>e, <4>2, <4>4, <4>5, <4>6
      <4> QED BY <1>0, <4>2, <4>7, FreshIdsVQ DEF own
    <3>4. ASSUME NEW m \in VQ!Queued PROVE batch(m) \in VQ!BatchIds
      <4>1. PICK k \in 1..Len(jobs) : jobs[k].memory = m
        BY <1>0, QueuedVQ
      <4>2. jobs[k] \in VQ!Range(jobs) /\ \A j \in VQ!Range(jobs) : j \in VQ!JobSet
        BY <1>0 DEF VQ!Range
      <4>3. (CHOOSE j \in VQ!Range(jobs) : j.memory = m) \in VQ!JobSet
        BY <4>1, <4>2
      <4> QED BY <4>3 DEF VQ!JobSet
    <3> HIDE DEF kept0, lost, own, batch
    <3>5. ASSUME NEW m \in Memories PROVE batchOf'[m] \in B
      <4>1. CASE m \in lost
        <5>1. batchOf'[m] = own[m]
          BY <3>1, <3>7, <4>1
        <5>2. own[m] \in VQ!BatchIds
          BY <3>3, <4>1
        <5> QED BY <5>1, <5>2 DEF B
      <4>2. CASE m \notin lost /\ kept0[m] = NoBatch /\ m \in VQ!Queued
        BY <3>1, <3>4, <4>2 DEF B
      <4>3. CASE m \notin lost /\ ~ (kept0[m] = NoBatch /\ m \in VQ!Queued)
        BY <3>1, <3>2, <4>3
      <4> QED BY <4>1, <4>2, <4>3
    <3>6. batchOf' = [m \in Memories |-> batchOf'[m]]
      BY <3>1
    <3> QED BY <1>c, <3>1, <3>5, <3>6
  <2>2. CASE VQ!ClearPersistedQueueState
    <3>1. jobs' = <<>> /\ batchOf' = [m \in Memories |-> NoBatch]
      BY <2>2 DEF VQ!ClearPersistedQueueState
    <3>2. jobs' \in Seq(VQ!JobSet) /\ SameBatch'
      BY <3>1 DEF SameBatch
    <3> QED BY <1>b, <3>1, <3>2 DEF B
  <2> QED BY <1>10, <2>1, <2>2 DEF VQ!Reload
<1>11. CASE UNCHANGED ofVQ
  BY <1>a, <1>11 DEF ofVQ
<1> QED BY <1>1, <1>2, <1>3, <1>4, <1>5, <1>6, <1>7, <1>8, <1>9, <1>10, <1>11
        DEF VQ!Next, VQ!Panel, VQ!RunJob

\* Every step keeps the other types.
LEMMA NextPlainVQ == InvVQ /\ TypesVQ /\ [VQ!Next]_ofVQ => PlainVQ'
<1> SUFFICES ASSUME InvVQ, TypesVQ, [VQ!Next]_ofVQ PROVE PlainVQ'
  OBVIOUS
<1> USE DEF VQ!tabQueue, VQ!lists
<1>0. /\ TypeVQ /\ Listed /\ Answered /\ PlainVQ /\ MaxQueueFaults \in Nat
      /\ VQ!Queued \subseteq Memories
      /\ jobs # <<>> => VQ!Current \in Memories
  <2>1. TypeVQ /\ Listed /\ Answered /\ PlainVQ /\ MaxQueueFaults \in Nat
    BY BoundsAssumption DEF InvVQ, HonestVQ, TypesVQ
  <2> QED BY <2>1, QueuedVQ
<1>f. \A k : VQ!Fault(k) => queueFaults' \in 0..MaxQueueFaults
  BY <1>0 DEF VQ!Fault, PlainVQ
<1>p. \A q, busy : busy \in {"idle", "update", "embed", "verify"} =>
        VQ!ProcessNext(q, busy) \in {"idle", "update", "embed", "verify"}
  BY DEF VQ!ProcessNext
<1> USE DEF PlainVQ
<1>1. CASE VQ!VerifyAll
  <2>1. VQ!Range(VQ!SetToSeq(VQ!Awaiting)) \subseteq Memories
    <3>1. VQ!Awaiting \in SUBSET Memories
      BY <1>0 DEF VQ!Awaiting, Listed
    <3> QED BY <3>1, ListedVQ
  <2>2. /\ inputs' = inputs \cup VQ!Range(VQ!SetToSeq(VQ!Awaiting))
        /\ failed' = failed \ VQ!Range(VQ!SetToSeq(VQ!Awaiting))
        /\ step' = VQ!ProcessNext(jobs', step)
        /\ UNCHANGED <<onChain, reply, ready, sending, mcp, queueFaults>>
    BY <1>1 DEF VQ!VerifyAll, VQ!EnqueueVerificationBatch
  <2> QED BY <1>0, <1>p, <2>1, <2>2
<1>2. ASSUME NEW m \in Memories, VQ!RetryVerification(m) PROVE PlainVQ'
  <2>1. /\ failed' = failed \ {m} /\ step' \in {step, VQ!ProcessNext(jobs', step)}
        /\ UNCHANGED <<onChain, reply, inputs, ready, sending, mcp, queueFaults>>
    BY <1>2 DEF VQ!RetryVerification
  <2> QED BY <1>0, <1>p, <2>1
<1>3. ASSUME NEW m \in Memories, VQ!RemoveVerification(m) PROVE PlainVQ'
  BY <1>0, <1>3 DEF VQ!RemoveVerification
<1>4. CASE VQ!ShowLists
  <2>1. PICK f \in Refreshes : ready' = load[f].chain
    BY <1>4 DEF VQ!ShowLists, VQ!EndOfLoad
  <2>2. ready' \subseteq Memories
    BY <1>0, <2>1 DEF Listed, Loads
  <2> QED BY <1>0, <1>4, <2>2 DEF VQ!ShowLists
<1>5. ASSUME NEW m \in Memories, VQ!DenyFinal(m) \/ VQ!Commit(m) PROVE PlainVQ'
  BY <1>0, <1>5 DEF VQ!DenyFinal, VQ!Commit
<1>6. ASSUME NEW S \in Bannable, VQ!BanContributor(S) PROVE PlainVQ'
  BY <1>0, <1>6, <1>f DEF VQ!BanContributor
<1>7. CASE VQ!LoadAll
  BY <1>0, <1>7, <1>f DEF VQ!LoadAll
<1>8. CASE VQ!PrepareBatchSubmit
  BY <1>0, <1>8 DEF VQ!PrepareBatchSubmit, VQ!Rows
<1>9. CASE VQ!BroadcastBatch
  BY <1>0, <1>9 DEF VQ!BroadcastBatch
<1>10. CASE VQ!Serve
  <2>1. /\ step' \in {step, "embed", "verify"} /\ reply' \in {reply, "ok", "error"}
        /\ UNCHANGED <<onChain, failed, inputs, ready, sending, mcp, queueFaults>>
    BY <1>10 DEF VQ!Serve, VQ!StoreKeywords, VQ!Embed, VQ!VerifyKeywords, VQ!Answer,
                 VQ!NextStage
  <2> QED BY <1>0, <2>1
<1>11. CASE VQ!Lose
  BY <1>0, <1>11, <1>f DEF VQ!Lose, VQ!Answer
<1>12. CASE VQ!FinishJob
  <2>1. /\ step # "idle" /\ reply' = "none" /\ step' = VQ!ProcessNext(jobs', "idle")
        /\ failed' \in {failed \cup {VQ!Current}, failed \ {VQ!Current}}
        /\ inputs' \in {inputs \cup {VQ!Current}, inputs \ {VQ!Current}}
        /\ UNCHANGED <<onChain, ready, sending, mcp, queueFaults>>
    BY <1>12 DEF VQ!FinishJob, VQ!FinishVerified, VQ!FinishFailed
  <2>2. VQ!Current \in Memories
    BY <1>0, <2>1 DEF Answered
  <2> QED BY <1>0, <1>p, <2>1, <2>2
<1>13. CASE VQ!Connect
  BY <1>0, <1>13 DEF VQ!Connect
<1>14. CASE VQ!Disconnect
  BY <1>0, <1>14, <1>f DEF VQ!Disconnect
<1>15. CASE VQ!Reload
  <2>1. /\ step' = "idle" /\ reply' = "none" /\ mcp' = "connecting" /\ ready' = {}
        /\ sending' = {} /\ UNCHANGED onChain
    BY <1>15 DEF VQ!Reload
  <2>2. queueFaults' \in 0..MaxQueueFaults
    BY <1>15, <1>f DEF VQ!Reload
  <2>3. failed' \subseteq Memories /\ inputs' \subseteq Memories
    BY <1>0, <1>15 DEF VQ!Reload, VQ!LoadPersistedState, VQ!ClearPersistedQueueState
  <2> QED BY <1>0, <2>1, <2>2, <2>3
<1>16. CASE UNCHANGED ofVQ
  BY <1>0, <1>16 DEF ofVQ
<1> QED BY <1>1, <1>2, <1>3, <1>4, <1>5, <1>6, <1>7, <1>8, <1>9, <1>10, <1>11, <1>12, <1>13,
           <1>14, <1>15, <1>16
        DEF VQ!Next, VQ!Panel, VQ!RunJob, VQ!Refresh
=============================================================================
