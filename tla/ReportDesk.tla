----------------------------- MODULE ReportDesk -----------------------------
(***************************************************************************)
(* Reports of a memory by one member: made at the hub, answered on the     *)
(* report pages (app/(dashboard)/moderation/reported/page.tsx) of the      *)
(* leader, who resolves them and commits what is upheld to the chain, and  *)
(* of the moderators, who recommend.  The hub's handlers hold the row of a *)
(* report from reading its status to the end of their transaction.  A      *)
(* report dismissed as malicious is counted like any dismissed one, and    *)
(* the three recommendations are one here.                                 *)
(***************************************************************************)
EXTENDS Naturals, FiniteSets

CONSTANTS Reports,    \* reports of one memory by one reporter
          LeaderTabs, \* pages of the leader
          Moderators  \* pages of the moderators

Pages == LeaderTabs \cup Moderators
Resolutions == {"upheld", "dismissed"}
Answers == Resolutions \cup {"recommend"}

VARIABLES
  state,          \* the status of each report; "none" and "checked" before it is made
  votes,          \* the moderators who recommend something
  overdue,        \* reports that got a recommendation when they were resolved
  holder,         \* the page whose transaction holds the row of each report
  dismissedCount, \* members.dismissed_reports_count of the reporter
  active,         \* the reporter is an active member
  uncounted,      \* reports dismissed when he was not
  raced,          \* two reports were checked at a time
  answer,         \* what each page is doing: report, what, and how far it is
  onRecord        \* the reports the chain has on record

vars == <<state, votes, overdue, holder, dismissedCount, active, uncounted, raced, answer,
          onRecord>>
decided == <<votes, overdue, dismissedCount, uncounted>>

Idle == <<>>

Init ==
  /\ state = [r \in Reports |-> "none"]
  /\ votes = [r \in Reports |-> {}] /\ overdue = {}
  /\ holder = [r \in Reports |-> {}]
  /\ dismissedCount = 0 /\ active = TRUE /\ uncounted = {} /\ raced = FALSE
  /\ answer = [p \in Pages |-> Idle] /\ onRecord = {}

(***************************************************************************)
(* Making a report.                                                        *)
(***************************************************************************)
\* CreateReport counts the pending reports of the reporter and the memory, ...
CheckReport(r) ==
  /\ state[r] = "none" /\ active /\ \A q \in Reports : state[q] # "pending"
  /\ state' = [state EXCEPT ![r] = "checked"]
  /\ raced' = (raced \/ \E q \in Reports : state[q] = "checked")
  /\ UNCHANGED <<decided, holder, active, answer, onRecord>>

\* ... and inserts one more.
CreateReport(r) ==
  /\ state[r] = "checked" /\ state' = [state EXCEPT ![r] = "pending"]
  /\ UNCHANGED <<decided, holder, active, raced, answer, onRecord>>

\* The chain removes the reporter, and the watcher follows.
RemoveReporter ==
  /\ active /\ active' = FALSE
  /\ UNCHANGED <<state, decided, holder, raced, answer, onRecord>>

(***************************************************************************)
(* The pages.                                                              *)
(***************************************************************************)
CanResolve(p) == p \in LeaderTabs
CanRecommend(p) == p \in Moderators

\* A page reads its list again after each success, with the tab that is open, and on demand;
\* a read that fails, as the one of "Upheld Pending TX" always does, leaves the rows.  So a
\* page may offer a report as it was at any time.
OfferedAs(r) ==
  CASE state[r] \in {"none", "checked"} -> {}
    [] state[r] = "upheld_pending_tx" -> {"pending", "upheld_pending_tx"}
    [] OTHER -> {"pending"}

\* Bound: a page answers one report at a time.
Click(p, r, what) == answer[p] = Idle /\ answer' = [answer EXCEPT ![p] = <<r, what, "sent">>]

HandleResolve(p, r) ==
  CanResolve(p) /\ "pending" \in OfferedAs(r) /\ \E s \in Resolutions : Click(p, r, s)

HandleRecommend(p, r) ==
  CanRecommend(p) /\ "pending" \in OfferedAs(r) /\ Click(p, r, "recommend")

HandleCommitReport(p, r) ==
  CanResolve(p) /\ "upheld_pending_tx" \in OfferedAs(r) /\ Click(p, r, "commit")

Clicks(p, r) ==
  /\ HandleResolve(p, r) \/ HandleRecommend(p, r) \/ HandleCommitReport(p, r)
  /\ UNCHANGED <<state, decided, holder, active, raced, onRecord>>

(***************************************************************************)
(* The hub.                                                                *)
(***************************************************************************)
At(p, r, S, at) == answer[p] # Idle /\ answer[p][1] = r /\ answer[p][2] \in S /\ answer[p][3] = at
Hold(p) == answer' = [answer EXCEPT ![p][3] = "held"]
Done(p) == answer' = [answer EXCEPT ![p] = Idle]

\* SELECT ... FOR UPDATE waits for the transaction that holds the row.
\* Variation: it does not.
Unguarded(r) == TRUE

Free(r) == holder[r] = {}

LoadForUpdate(p, r) ==
  /\ At(p, r, Answers, "sent") /\ Free(r)
  /\ IF state[r] = "pending"
     THEN Hold(p) /\ holder' = [holder EXCEPT ![r] = @ \cup {p}]
     ELSE Done(p) /\ UNCHANGED holder
  /\ UNCHANGED <<state, decided, active, raced, onRecord>>

\* The transaction ends; a reply that is lost leaves no more than an old list.
Release(p, r) == holder' = [holder EXCEPT ![r] = @ \ {p}]

\* Upheld waits for the chain; a dismissal counts against the reporter, if active.
Resolved(s) == IF s = "upheld" THEN "upheld_pending_tx" ELSE s

UpdateReport(p, r) ==
  /\ At(p, r, Resolutions, "held") /\ Release(p, r) /\ Done(p)
  /\ LET s == answer[p][2] IN
       /\ state' = [state EXCEPT ![r] = Resolved(s)]
       /\ dismissedCount' = IF s = "dismissed" /\ active THEN dismissedCount + 1
                            ELSE dismissedCount
       /\ uncounted' = IF s = "dismissed" /\ ~active THEN uncounted \cup {r} ELSE uncounted
  /\ UNCHANGED <<votes, overdue, active, raced, onRecord>>

VoteOnReport(p, r) ==
  /\ At(p, r, {"recommend"}, "held") /\ Release(p, r) /\ Done(p)
  /\ votes' = [votes EXCEPT ![r] = @ \cup {p}]
  /\ overdue' = IF state[r] = "pending" THEN overdue ELSE overdue \cup {r}
  /\ UNCHANGED <<state, dismissedCount, uncounted, active, raced, onRecord>>

\* A statement fails and the transaction is rolled back.
RollBack(p, r) ==
  /\ At(p, r, Answers, "held") /\ Release(p, r) /\ Done(p)
  /\ UNCHANGED <<state, decided, active, raced, onRecord>>

(***************************************************************************)
(* The chain.  The hub never learns of the record: the statement that      *)
(* would set the report to upheld names a column the table does not have,  *)
(* in the watcher as in CommitReport, which no page calls.                 *)
(***************************************************************************)
ReportMemory(p, r) ==
  /\ At(p, r, {"commit"}, "sent")
  /\ \/ Done(p) /\ onRecord' = onRecord \cup {r}
     \/ Done(p) /\ UNCHANGED onRecord
  /\ UNCHANGED <<state, decided, holder, active, raced>>

Next ==
  \/ RemoveReporter
  \/ \E r \in Reports : CheckReport(r) \/ CreateReport(r)
  \/ \E p \in Pages, r \in Reports :
       \/ Clicks(p, r) \/ LoadForUpdate(p, r) \/ UpdateReport(p, r) \/ VoteOnReport(p, r)
       \/ RollBack(p, r) \/ ReportMemory(p, r)

Spec == Init /\ [][Next]_vars

(***************************************************************************)
(* Properties.                                                             *)
(***************************************************************************)
TypeOK ==
  /\ state \in [Reports -> {"none", "checked", "pending", "upheld_pending_tx",
                         "dismissed"}]
  /\ votes \in [Reports -> SUBSET Moderators] /\ overdue \subseteq Reports
  /\ holder \in [Reports -> SUBSET Pages] /\ dismissedCount \in Nat /\ active \in BOOLEAN
  /\ uncounted \subseteq Reports /\ raced \in BOOLEAN /\ onRecord \subseteq Reports
  /\ \A p \in Pages : answer[p] = Idle \/
       answer[p] \in Reports \X (Answers \cup {"commit"}) \X {"sent", "held"}

\* However many pages answer a report from lists of different ages, it is settled once: each
\* dismissal of an active member's report is counted once, a resolved report gets no more
\* recommendations, what the chain has on record the leader has upheld, and a memory has one
\* pending report of a member unless two were made at a time.
ReportsAreSettledOnce ==
  /\ dismissedCount + Cardinality(uncounted)
       = Cardinality({r \in Reports : state[r] = "dismissed"})
  /\ overdue = {}
  /\ \A r \in onRecord : state[r] = "upheld_pending_tx"
  /\ raced \/ Cardinality({r \in Reports : state[r] = "pending"}) <= 1
=============================================================================
