---------------------------- MODULE OrgSettings ----------------------------
(***************************************************************************)
(* The forms of the organisation settings page                             *)
(* (app/(dashboard)/org-settings/page.tsx) while the leader moves from one *)
(* organisation to another.  Each form reads the values of the active      *)
(* organisation when it changes, and its button writes what the form holds *)
(* for the organisation that is active then.  Reads and writes take their  *)
(* time; the page stays, so both may end after the next change.  The forms *)
(* do not touch one another: a behaviour follows one of them.              *)
(***************************************************************************)
EXTENDS Naturals

CONSTANTS UserOrgs,    \* organisations of the user
          Leads,       \* those the user leads
          NoOrg,       \* none is active, or the form holds nobody's values
          MaxSwitches  \* bound: changes of the active organisation

VARIABLES
  form,       \* "transfer", "serving", "profile", "receipts" or "rate"
  activeOrg,  \* the active organisation
  visit,      \* changes so far: the effect that ran last
  requests,   \* reads in flight: organisation and effect
  loading,    \* the form is marked as loading; the serving addresses have no such mark
  error,      \* it shows an error, or (serving) no summary
  holds,      \* the organisation whose values it holds
  saving,     \* the organisation a write in flight is for
  late,       \* a write for another organisation has ended on it since the last read
  dismissed,  \* the error of a read was cleared by an attempt to write
  editor      \* the dialog of a transfer or the serving editor: whether it is open, and of
              \* the editor whose values it began with, after which effect, and in what doubt

vars == <<form, activeOrg, visit, requests, loading, error, holds, saving, late, dismissed,
          editor>>
shown == <<loading, error, holds, late, dismissed>>

Closed == [open |-> FALSE, org |-> NoOrg, visit |-> 0, doubt |-> FALSE]

Init ==
  /\ form \in {"transfer", "serving", "profile", "receipts", "rate"}
  /\ activeOrg = NoOrg /\ visit = 0 /\ requests = {} /\ loading = FALSE /\ error = FALSE
  /\ holds = NoOrg /\ saving = NoOrg /\ late = FALSE /\ dismissed = FALSE /\ editor = Closed

(***************************************************************************)
(* The effects that run when the active organisation changes.              *)
(***************************************************************************)
\* The read begins; the form keeps what it holds.
Ask(o) ==
  /\ loading' = TRUE /\ error' = FALSE /\ dismissed' = FALSE
  /\ requests' = requests \cup {[org |-> o, visit |-> visit']}
  /\ UNCHANGED <<holds, late>>

Clear ==
  /\ loading' = FALSE /\ error' = FALSE /\ dismissed' = FALSE
  /\ holds' = NoOrg /\ late' = FALSE /\ UNCHANGED requests

AskOrClear(o, S) == IF o \in S THEN Ask(o) ELSE Clear

LoadTransferMembers(o) == form = "transfer" /\ AskOrClear(o, UserOrgs)
LoadExtractionProfile(o) == form = "profile" /\ AskOrClear(o, Leads)
LoadRecallRateLimit(o) == form = "rate" /\ AskOrClear(o, Leads)

\* Without an organisation this effect returns at once, and a cancelled read never takes
\* the loading mark away.
LoadChainConfig(o) ==
  form = "receipts" /\ IF o = NoOrg THEN UNCHANGED <<shown, requests>> ELSE Ask(o)

\* The summary is dropped, the addresses shown from it are not.
LoadServing(o) ==
  /\ form = "serving"
  /\ IF o = NoOrg THEN error' = TRUE /\ UNCHANGED <<loading, holds, late, dismissed, requests>>
     ELSE Ask(o)

SetActiveOrg(o) ==
  /\ o # activeOrg /\ visit < MaxSwitches
  /\ activeOrg' = o /\ visit' = visit + 1
  /\ \/ LoadTransferMembers(o) \/ LoadExtractionProfile(o) \/ LoadRecallRateLimit(o)
     \/ LoadChainConfig(o) \/ LoadServing(o)
  /\ editor' = IF form = "transfer" /\ o = NoOrg THEN Closed ELSE editor
  /\ UNCHANGED <<form, saving>>

\* The clean-up of an effect cancels its read.
\* Variation: it does not.
NeverCancelled(r) == FALSE

Cancelled(r) == r.visit # visit

\* A read that fails leaves the form as it is, but for the members, who are gone.
ReadEnds(r) ==
  /\ r \in requests /\ requests' = requests \ {r}
  /\ IF Cancelled(r) THEN UNCHANGED shown
     ELSE /\ loading' = FALSE
          /\ \/ /\ holds' = r.org /\ late' = FALSE /\ dismissed' = FALSE /\ UNCHANGED error
             \/ /\ error' = TRUE
                /\ holds' = IF form = "transfer" THEN NoOrg ELSE holds
                /\ UNCHANGED <<late, dismissed>>
  /\ UNCHANGED <<form, activeOrg, visit, saving, editor>>

(***************************************************************************)
(* The buttons.                                                            *)
(***************************************************************************)
Offered == activeOrg \in Leads
Enabled == Offered /\ ~loading /\ saving = NoOrg

\* The dialog that confirms a transfer to the member selected.  It closes without an active
\* organisation, and stays open from one to the next.
OpenDialog ==
  /\ form = "transfer" /\ Enabled /\ holds # NoOrg
  /\ editor' = [Closed EXCEPT !.open = TRUE]

\* An editor is opened with what is shown, read or not, and stays open when the
\* organisation changes.
OpenServingEditor ==
  /\ form = "serving" /\ Offered
  /\ editor' = [open |-> TRUE, org |-> holds, visit |-> visit,
                doubt |-> loading \/ error \/ late]

OpenEditor ==
  /\ ~editor.open
  /\ OpenDialog \/ OpenServingEditor
  /\ UNCHANGED <<form, activeOrg, visit, requests, shown, saving>>

CancelEditor ==
  /\ editor.open /\ Offered /\ saving = NoOrg /\ editor' = Closed
  /\ UNCHANGED <<form, activeOrg, visit, requests, shown, saving>>

SelectExtractionPreset ==
  /\ form = "profile" /\ Enabled /\ holds' = activeOrg /\ late' = FALSE
  /\ UNCHANGED <<form, activeOrg, visit, requests, loading, error, saving, dismissed, editor>>

\* The dialog's own button and the editor's do not wait for a read.
CanTransfer == form = "transfer" /\ Offered /\ saving = NoOrg /\ editor.open /\ holds # NoOrg
CanSaveServing == form = "serving" /\ Offered /\ saving = NoOrg /\ editor.open
CanSaveProfile == form = "profile" /\ Enabled
CanToggleReceipts == form = "receipts" /\ Enabled
CanSaveRate == form = "rate" /\ Enabled

CanSave == CanTransfer \/ CanSaveServing \/ CanSaveProfile \/ CanToggleReceipts \/ CanSaveRate

\* An attempt clears the form's error; the serving editors have an error of their own.
Save ==
  /\ CanSave
  /\ saving' = activeOrg
  /\ IF form = "serving" THEN UNCHANGED <<error, dismissed>>
     ELSE error' = FALSE /\ dismissed' = (dismissed \/ error)
  /\ UNCHANGED <<form, activeOrg, visit, requests, loading, holds, late, editor>>

\* What was written for an organisation, or read back for it, is put in the form, whatever
\* is active by now (of the rate, all but the unit of its window).
PutInForm == holds' = saving /\ late' = (saving # activeOrg) /\ dismissed' = FALSE

\* The dialog closes when the transfer is done and stays when it fails.
TransferEnds == form = "transfer" /\ editor' \in {Closed, editor} /\ UNCHANGED shown

ServingEnds ==
  /\ form = "serving"
  /\ \/ PutInForm /\ editor' = Closed /\ UNCHANGED <<loading, error>>
     \/ UNCHANGED <<shown, editor>>

ChainConfigEnds ==
  /\ form = "receipts" /\ UNCHANGED <<loading, error, editor>>
  /\ PutInForm \/ UNCHANGED <<holds, late, dismissed>>

RecallRateLimitEnds ==
  /\ form = "rate" /\ UNCHANGED <<loading, editor>>
  /\ \/ PutInForm /\ UNCHANGED error
     \/ error' = TRUE /\ UNCHANGED <<holds, late, dismissed>>

\* The profile is written, then read back; either may fail, and one that is not found leaves
\* the form as it is.
ExtractionProfileEnds ==
  /\ form = "profile" /\ UNCHANGED <<loading, editor>>
  /\ \/ PutInForm /\ UNCHANGED error
     \/ UNCHANGED <<error, holds, late, dismissed>>
     \/ error' = TRUE /\ UNCHANGED <<holds, late, dismissed>>

SaveEnds ==
  /\ saving # NoOrg /\ saving' = NoOrg
  /\ \/ TransferEnds \/ ServingEnds \/ ChainConfigEnds \/ RecallRateLimitEnds
     \/ ExtractionProfileEnds
  /\ UNCHANGED <<form, activeOrg, visit, requests>>

Next ==
  \/ \E o \in UserOrgs \cup {NoOrg} : SetActiveOrg(o)
  \/ \E r \in requests : ReadEnds(r)
  \/ OpenEditor \/ CancelEditor \/ SelectExtractionPreset \/ Save \/ SaveEnds

Spec == Init /\ [][Next]_vars

(***************************************************************************)
(* Properties.                                                             *)
(***************************************************************************)
OrgIds == UserOrgs \cup {NoOrg}

TypeOK ==
  /\ form \in {"transfer", "serving", "profile", "receipts", "rate"}
  /\ activeOrg \in OrgIds /\ visit \in 0..MaxSwitches
  /\ requests \subseteq [org : UserOrgs, visit : 0..MaxSwitches]
  /\ loading \in BOOLEAN /\ error \in BOOLEAN /\ late \in BOOLEAN /\ dismissed \in BOOLEAN
  /\ holds \in OrgIds /\ saving \in OrgIds
  /\ editor \in [open : BOOLEAN, org : OrgIds, visit : 0..MaxSwitches, doubt : BOOLEAN]

\* What a click on the form's button writes for the active organisation is that one's: the
\* members of the dialog, the values the editor began with, those the form holds.
Written == IF form = "serving" THEN editor.org ELSE holds

\* The gaps.  The dialog of a transfer stays open while the members of the next organisation
\* are read; an editor stays open through a change of the organisation, and may be opened
\* before the summary has come or when it has not; a form shows the error of its read, or has
\* lost it to an attempt to write, and a write for another organisation may have put that
\* one's values in it.
Doubtful ==
  IF form = "serving" THEN editor.visit # visit \/ editor.doubt
  ELSE \/ error \/ late \/ dismissed
       \/ form = "transfer" /\ loading

\* Outside these gaps no organisation gets another one's settings, however reads, writes and
\* changes of the organisation overlap.
FormShowsItsOrg == CanSave /\ ~Doubtful => Written = activeOrg
=============================================================================
