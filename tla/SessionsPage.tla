---------------------------- MODULE SessionsPage ----------------------------
(***************************************************************************)
(* The sessions page (app/(dashboard)/sessions/page.tsx) over the          *)
(* extraction queue.  One card is open at a time; its buttons act on the   *)
(* transcript that was loaded last, and transcripts are loaded without a   *)
(* guard on late answers.  The page keeps the contributor from paying for  *)
(* the same session twice: a session that has a draft, or that the hub has *)
(* recorded for the organisation, is extracted only after a question.      *)
(***************************************************************************)
EXTENDS FiniteSets

CONSTANTS Sessions,  \* the coding sessions
          NoSession  \* no card is open, no transcript is held, nothing is asked

VARIABLES
  open,             \* the page is on screen
  opened,           \* the session of the open card
  detail,           \* the session whose transcript is held
  detailLoading,    \* the card shows a spinner
  extractionError,  \* the card shows that a transcript could not be loaded
  fetching,         \* the sessions whose transcript is being fetched
  asking,           \* the session the re-extract question is about
  providerReady,    \* the provider check of this visit has succeeded
  hubExtracted,     \* the sessions the page knows the hub has recorded
  extracting,       \* the extraction queue: the sessions in it
  drafted,          \* the sessions with a draft
  parkedShown,      \* the sessions with a parked job
  failedShown,      \* the sessions with a failure reason
  unasked           \* sessions extracted again without a question

vars == <<open, opened, detail, detailLoading, extractionError, fetching, asking,
          providerReady, hubExtracted, extracting, drafted, parkedShown, failedShown, unasked>>
card == <<open, opened, detail, detailLoading, extractionError, fetching, providerReady>>
queueView == <<extracting, drafted, parkedShown, failedShown>>

Blank ==
  /\ opened' = NoSession /\ detail' = NoSession /\ detailLoading' = FALSE
  /\ extractionError' = FALSE /\ fetching' = {}
  /\ asking' = NoSession /\ providerReady' = FALSE /\ hubExtracted' = {}

Init ==
  /\ open = FALSE /\ opened = NoSession /\ detail = NoSession /\ detailLoading = FALSE
  /\ extractionError = FALSE /\ fetching = {} /\ asking = NoSession
  /\ providerReady = FALSE /\ hubExtracted = {}
  /\ extracting = {} /\ drafted = {} /\ parkedShown = {} /\ failedShown = {}
  /\ unasked = {}

\* What the page takes for extracted, by the drafts and by the hub's records.
Extracted == hubExtracted \cup drafted

(***************************************************************************)
(* Visiting the page, and what it loads.                                   *)
(***************************************************************************)
OpenPage ==
  /\ ~open /\ open' = TRUE /\ Blank
  /\ UNCHANGED <<queueView, unasked>>

\* The queue goes on; answers to the page that was left change nothing.
LeavePage ==
  /\ open /\ open' = FALSE /\ Blank
  /\ UNCHANGED <<queueView, unasked>>

\* A check that fails, or goes wrong, leaves the provider not ready.
LoadReadiness ==
  /\ open /\ ~providerReady /\ providerReady' = TRUE
  /\ UNCHANGED <<open, opened, detail, detailLoading, extractionError, fetching, asking,
                 hubExtracted, queueView, unasked>>

\* The list of one organisation after another: an answer replaces what the page knew, and
\* one that fails empties it.
LoadExtractedSessions ==
  /\ open /\ hubExtracted' \in SUBSET Sessions
  /\ UNCHANGED <<card, asking, queueView, unasked>>

(***************************************************************************)
(* The cards.                                                              *)
(***************************************************************************)
\* The card of a queued session cannot be clicked.  A link to a session, from the bell of
\* the layout too, opens its card whatever state the session is in, and again whenever it
\* is closed or another one opened.
SelectSession(s) ==
  /\ open
  /\ s \notin extracting \/ opened # s
  /\ detail' = NoSession /\ extractionError' = FALSE
  /\ IF opened = s
     THEN opened' = NoSession /\ detailLoading' = FALSE /\ UNCHANGED fetching
     ELSE opened' = s /\ detailLoading' = TRUE /\ fetching' = fetching \cup {s}
  /\ UNCHANGED <<open, asking, providerReady, hubExtracted, queueView, unasked>>

\* Whatever answer comes last is held, for the open card or for one that was left.  Only a
\* new request takes an error away; Try again stays on the card as long as one is shown.
LoadSessionDetail(s) ==
  /\ s \in fetching
  /\ detail' \in {s, NoSession} /\ detailLoading' = FALSE /\ fetching' = fetching \ {s}
  /\ extractionError' = (extractionError \/ detail' = NoSession)
  /\ UNCHANGED <<open, opened, asking, providerReady, hubExtracted, queueView, unasked>>

TryAgain ==
  /\ opened # NoSession /\ extractionError /\ ~detailLoading
  /\ detailLoading' = TRUE /\ extractionError' = FALSE /\ fetching' = fetching \cup {opened}
  /\ UNCHANGED <<open, opened, detail, asking, providerReady, hubExtracted, queueView, unasked>>

(***************************************************************************)
(* Extraction.  The modal is on top of everything while it is open.        *)
(***************************************************************************)
Settled == open /\ opened # NoSession /\ detail # NoSession /\ ~detailLoading
Ready == Settled /\ providerReady /\ asking = NoSession /\ opened \notin extracting
CanExtract == Ready /\ opened \notin drafted
CanRetry == Ready /\ opened \in failedShown \ parkedShown

\* enqueueActiveSession queues the session of the transcript that is held; asked is the
\* session the question was about, if there was one.
EnqueueActiveSession(asked) ==
  /\ extracting' = extracting \cup {detail}
  /\ failedShown' = failedShown \ {detail} /\ parkedShown' = parkedShown \ {detail}
  /\ unasked' = IF detail \in Extracted /\ detail # asked THEN unasked \cup {detail}
                ELSE unasked
  /\ UNCHANGED drafted

RequestExtraction ==
  /\ CanExtract \/ CanRetry
  /\ IF detail \in Extracted
     THEN asking' = detail /\ UNCHANGED <<queueView, unasked>>
     ELSE EnqueueActiveSession(NoSession) /\ UNCHANGED asking
  /\ UNCHANGED <<card, hubExtracted>>

\* Re-extract anyway.  An answer may have replaced the transcript since the question.
\* Variation: the question is not compared with the transcript.
ConfirmWhatIsHeld ==
  /\ asking # NoSession /\ asking' = NoSession
  /\ IF detail # NoSession
     THEN EnqueueActiveSession(asking)
     ELSE UNCHANGED <<queueView, unasked>>
  /\ UNCHANGED <<card, hubExtracted>>

ConfirmReextract ==
  /\ asking # NoSession /\ asking' = NoSession
  /\ IF detail = asking
     THEN EnqueueActiveSession(asking)
     ELSE UNCHANGED <<queueView, unasked>>
  /\ UNCHANGED <<card, hubExtracted>>

CloseReextractModal ==
  /\ asking # NoSession /\ asking' = NoSession
  /\ UNCHANGED <<card, hubExtracted, queueView, unasked>>

\* The Extract with paid model buttons take the parked job of the open card.
ResumeParkedSession ==
  /\ Settled /\ asking = NoSession /\ opened \in parkedShown \ extracting
  /\ extracting' = extracting \cup {opened}
  /\ parkedShown' = parkedShown \ {opened} /\ failedShown' = failedShown \ {opened}
  /\ UNCHANGED <<card, asking, hubExtracted, drafted, unasked>>

\* The queue: a job ends with a draft, is parked or fails; the page, if it is on
\* screen, has the hub record the session for the organisation that is active then.
JobEnds(s) ==
  /\ s \in extracting /\ extracting' = extracting \ {s}
  /\ \/ drafted' = drafted \cup {s} /\ UNCHANGED <<parkedShown, failedShown>>
     \/ parkedShown' = parkedShown \cup {s} /\ UNCHANGED <<drafted, failedShown>>
     \/ failedShown' = failedShown \cup {s} /\ UNCHANGED <<drafted, parkedShown>>
  /\ \/ UNCHANGED hubExtracted
     \/ open /\ s \in drafted' /\ hubExtracted' = hubExtracted \cup {s}
  /\ UNCHANGED <<card, asking, unasked>>

\* The draft is submitted or discarded on its own page.
DraftLeaves(s) ==
  /\ s \in drafted /\ drafted' = drafted \ {s}
  /\ UNCHANGED <<card, asking, hubExtracted, extracting, parkedShown, failedShown,
                 unasked>>

Next ==
  \/ OpenPage \/ LeavePage \/ LoadReadiness \/ LoadExtractedSessions \/ TryAgain
  \/ RequestExtraction \/ ConfirmReextract \/ CloseReextractModal \/ ResumeParkedSession
  \/ \E s \in Sessions :
       SelectSession(s) \/ LoadSessionDetail(s) \/ JobEnds(s) \/ DraftLeaves(s)

Spec == Init /\ [][Next]_vars

(***************************************************************************)
(* Properties.                                                             *)
(***************************************************************************)
SessionIds == Sessions \cup {NoSession}

TypeOK ==
  /\ open \in BOOLEAN /\ detailLoading \in BOOLEAN /\ extractionError \in BOOLEAN
  /\ providerReady \in BOOLEAN
  /\ opened \in SessionIds /\ detail \in SessionIds /\ asking \in SessionIds
  /\ fetching \subseteq Sessions /\ hubExtracted \subseteq Sessions
  /\ extracting \subseteq Sessions /\ drafted \subseteq Sessions
  /\ parkedShown \subseteq Sessions /\ failedShown \subseteq Sessions
  /\ unasked \subseteq Sessions

\* A session the page takes for extracted is queued again only after the contributor was
\* asked about that very session, although a late transcript may take the place of the one
\* the question was asked about while the question is on screen.
NeverAgainUnasked == unasked = {}
=============================================================================
