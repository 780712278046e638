-------------------------- MODULE ExtractionQueue --------------------------
(***************************************************************************)
(* The contributor's extraction queue, in one browser tab                  *)
(* (lib/extraction-queue.ts, the sessions page, the api/extract routes).   *)
(* The queue has the local MCP server extract one session at a time and    *)
(* polls the job until it is done, has failed or is parked for a decision  *)
(* on the model.  A finished job leaves a draft (see DraftReview).  The    *)
(* MCP server runs its jobs whether anybody watches them or not; only the  *)
(* drafts outlive the page.                                                *)
(***************************************************************************)
EXTENDS Naturals, Sequences, SequencesExt, Filter

CONSTANTS Sessions,       \* coding sessions
          MaxMcpJobs,     \* bound: jobs the MCP server is asked for
          ExtractFaults,  \* what may go wrong: "reply", "reload"
          MaxExtractFaults

VARIABLES
  mcpJobs,       \* the jobs of the MCP server: session and state
  xjobs,         \* the queue: session and, for a resumed job, its id
  poll,          \* the job the queue runs: session, id and phase
  parked,        \* the parked job the page shows for each session
  failure,       \* the sessions with a failure reason
  resuming,      \* the parked job a resume request in flight is about
  listing,       \* the parked jobs a reattach in flight has read
  draft,         \* the sessions with a draft
  orphans,       \* running jobs the page has lost sight of
  extractFaults  \* what has gone wrong so far

vars == <<mcpJobs, xjobs, poll, parked, failure, resuming, listing, draft, orphans,
          extractFaults>>
queue == <<xjobs, poll, parked, failure>>

None == 0
JobIds == 0..MaxMcpJobs
Ids == 1..Len(mcpJobs)
NoOne == [s \in Sessions |-> None]
Resting == [session |-> None, id |-> None, phase |-> "idle"]
NoListing == [ids |-> {}, phase |-> "idle"]

Queued == {xjobs[i].session : i \in DOMAIN xjobs}
ParkedJobs == {i \in Ids : mcpJobs[i].state = "parked"}
Running(S) == {i \in S : mcpJobs[i].state = "running"}

Fault(k) == /\ k \in ExtractFaults /\ extractFaults < MaxExtractFaults
            /\ extractFaults' = extractFaults + 1

Init ==
  /\ mcpJobs = <<>> /\ xjobs = <<>> /\ poll = Resting
  /\ parked = NoOne /\ failure = {} /\ resuming = NoOne /\ listing = NoListing
  /\ draft = {} /\ orphans = {} /\ extractFaults = 0

\* processNext: the next queued session starts; a resumed one has its job already.
ProcessNext(q, busy) ==
  IF busy.phase # "idle" \/ q = <<>> THEN busy
  ELSE [session |-> q[1].session, id |-> q[1].resume,
        phase |-> IF q[1].resume = None THEN "start" ELSE "poll"]

\* The page asks for the extraction of a session (see SessionsPage); one that is queued
\* already is not queued twice.
EnqueueExtraction(s) ==
  /\ Len(mcpJobs) < MaxMcpJobs
  /\ failure' = failure \ {s} /\ parked' = [parked EXCEPT ![s] = None]
  /\ IF s \in Queued THEN UNCHANGED <<xjobs, poll>>
     ELSE /\ xjobs' = Append(xjobs, [session |-> s, resume |-> None])
          /\ poll' = ProcessNext(xjobs', poll)
  /\ UNCHANGED <<mcpJobs, resuming, listing, draft, orphans, extractFaults>>

(***************************************************************************)
(* The running job.                                                        *)
(***************************************************************************)
Entries(s) == {j \in Range(xjobs) : j.session = s}
WithoutSession(s) == Kept(xjobs, {i \in DOMAIN xjobs : xjobs[i].session # s})

\* runJob's finally block drops every entry of the session.  A resumed entry that took the
\* running one's place is lost with it.
Overtaken == {j.resume : j \in Entries(poll.session)} \ {None, poll.id}

\* Variation: the next session is not started.
LeaveAtRest(lost) ==
  /\ xjobs' = WithoutSession(poll.session)
  /\ poll' = Resting
  /\ orphans' = orphans \cup lost \cup Running(Overtaken)

Leave(lost) ==
  /\ xjobs' = WithoutSession(poll.session)
  /\ poll' = ProcessNext(xjobs', Resting)
  /\ orphans' = orphans \cup lost \cup Running(Overtaken)

LeaveFailed(lost) == Leave(lost) /\ failure' = failure \cup {poll.session}

\* The dashboard's server passes the request on and the MCP server makes a job.
Create ==
  /\ Len(mcpJobs) < MaxMcpJobs
  /\ mcpJobs' = Append(mcpJobs, [session |-> poll.session, state |-> "running"])

JobAccepted ==
  /\ Create
  /\ poll' = [poll EXCEPT !.id = Len(mcpJobs'), !.phase = "poll"]
  /\ UNCHANGED <<xjobs, failure, orphans, extractFaults>>

\* The provider is not configured: that is only a toast.
ProviderMissing == Leave({}) /\ UNCHANGED <<mcpJobs, failure, extractFaults>>

\* Any other refusal, the MCP server's own included, is a failure of the session.
JobRefused == LeaveFailed({}) /\ UNCHANGED <<mcpJobs, extractFaults>>

\* The request times out or its answer is lost, and the MCP server has taken it.
AcceptanceLost == Fault("reply") /\ Create /\ LeaveFailed({Len(mcpJobs')})

StartJob ==
  /\ poll.phase = "start"
  /\ JobAccepted \/ ProviderMissing \/ JobRefused \/ AcceptanceLost
  /\ UNCHANGED <<parked, resuming, listing, draft>>

PollAnswer(state) == poll.phase = "poll" /\ mcpJobs[poll.id].state = state

\* The result becomes the session's draft, in place of the one before.
PersistDoneExtraction ==
  /\ PollAnswer("done")
  /\ draft' = draft \cup {poll.session}
  /\ Leave({})
  /\ UNCHANGED <<failure, parked>>

Park ==
  /\ PollAnswer("parked")
  /\ parked' = [parked EXCEPT ![poll.session] = poll.id]
  /\ Leave({})
  /\ UNCHANGED <<failure, draft>>

\* The job failed, or its output holds no memories that can be read.
PollFailed == PollAnswer("failed") /\ LeaveFailed({}) /\ UNCHANGED <<parked, draft>>

PollJob ==
  /\ PersistDoneExtraction \/ Park \/ PollFailed
  /\ UNCHANGED <<mcpJobs, resuming, listing, extractFaults>>

\* Three polls fail in a row, or twenty minutes are over: the job is left alone.
GiveUp ==
  /\ poll.phase = "poll"
  /\ LeaveFailed(Running({poll.id}))
  /\ UNCHANGED <<mcpJobs, parked, resuming, listing, draft, extractFaults>>

\* The MCP server.
EndJob(i) ==
  /\ mcpJobs[i].state = "running"
  /\ \E s \in {"done", "failed", "parked"} : mcpJobs' = [mcpJobs EXCEPT ![i].state = s]
  /\ orphans' = orphans \ {i}
  /\ UNCHANGED <<queue, resuming, listing, draft, extractFaults>>

(***************************************************************************)
(* Parked jobs.                                                            *)
(***************************************************************************)
\* The page asks for the parked jobs when it opens, and shows the answer later.
ReadParked ==
  /\ listing.phase = "idle"
  /\ listing' = [ids |-> ParkedJobs, phase |-> "read"]
  /\ UNCHANGED <<mcpJobs, queue, resuming, draft, orphans, extractFaults>>

\* Of several parked jobs of a session the one listed last is shown, in whatever order the
\* MCP server lists them.
Shows(s, i) ==
  LET Of == {k \in listing.ids : mcpJobs[k].session = s}
  IN  IF Of = {} THEN i = parked[s] ELSE i \in Of

ReattachParkedJobs ==
  /\ listing.phase = "read"
  /\ parked' \in {p \in [Sessions -> JobIds] : \A s \in Sessions : Shows(s, p[s])}
  /\ listing' = NoListing
  /\ UNCHANGED <<mcpJobs, xjobs, poll, failure, resuming, draft, orphans,
                 extractFaults>>

\* The Extract with paid model buttons of a parked session: the MCP server resumes a job
\* that is parked.
CanResume(s) == s \notin Queued /\ parked[s] # None /\ resuming[s] = None

McpResumes(i) == i \in ParkedJobs /\ mcpJobs' = [mcpJobs EXCEPT ![i].state = "running"]

ResumeParkedJob(s) ==
  /\ CanResume(s)
  /\ McpResumes(parked[s])
  /\ resuming' = [resuming EXCEPT ![s] = parked[s]]
  /\ UNCHANGED <<queue, listing, draft, orphans, extractFaults>>

\* Its answer replaces whatever the queue holds for the session, the running entry too.
\* Variation: the entry does not carry the id of the resumed job.
ResumedAsNew(s) ==
  /\ parked' = [parked EXCEPT ![s] = None] /\ failure' = failure \ {s}
  /\ xjobs' = Append(WithoutSession(s), [session |-> s, resume |-> None])
  /\ poll' = ProcessNext(xjobs', poll)

Resumed(s) ==
  /\ parked' = [parked EXCEPT ![s] = None] /\ failure' = failure \ {s}
  /\ xjobs' = Append(WithoutSession(s), [session |-> s, resume |-> resuming[s]])
  /\ poll' = ProcessNext(xjobs', poll)

ResumeAnswered(s) ==
  /\ resuming[s] # None
  /\ Resumed(s)
  /\ resuming' = [resuming EXCEPT ![s] = None]
  /\ UNCHANGED <<mcpJobs, listing, draft, orphans, extractFaults>>

\* The request has timed out or its answer is lost: the page still shows the job parked.
ResumeLost(s) ==
  /\ resuming[s] # None /\ Fault("reply")
  /\ orphans' = orphans \cup Running({resuming[s]})
  /\ resuming' = [resuming EXCEPT ![s] = None]
  /\ UNCHANGED <<mcpJobs, queue, listing, draft>>

\* The draft is submitted, discarded or cleared.
TakeDraft(s) ==
  /\ s \in draft /\ draft' = draft \ {s}
  /\ UNCHANGED <<mcpJobs, queue, resuming, listing, orphans, extractFaults>>

\* The page is reloaded: the drafts stay.
Reload ==
  /\ Fault("reload")
  /\ xjobs' = <<>> /\ poll' = Resting /\ parked' = NoOne /\ failure' = {}
  /\ resuming' = NoOne /\ listing' = NoListing
  /\ orphans' = Running(Ids)
  /\ UNCHANGED <<mcpJobs, draft>>

Run == StartJob \/ PollJob \/ GiveUp

Next ==
  \/ Run \/ ReadParked \/ ReattachParkedJobs \/ Reload
  \/ \E i \in Ids : EndJob(i)
  \/ \E s \in Sessions :
       \/ EnqueueExtraction(s) \/ ResumeParkedJob(s) \/ ResumeAnswered(s) \/ ResumeLost(s)
       \/ TakeDraft(s)

\* The tab polls every four seconds and gives up after twenty minutes.
FairSpec == Init /\ [][Next]_vars /\ WF_vars(Run)

(***************************************************************************)
(* Properties.                                                             *)
(***************************************************************************)
SessionIds == Sessions \cup {None}

TypeOK ==
  /\ mcpJobs \in Seq([session : Sessions, state : {"running", "parked", "done", "failed"}])
  /\ xjobs \in Seq([session : Sessions, resume : JobIds])
  /\ poll \in [session : SessionIds, id : JobIds, phase : {"idle", "start", "poll"}]
  /\ parked \in [Sessions -> JobIds] /\ resuming \in [Sessions -> JobIds]
  /\ draft \subseteq Sessions /\ failure \subseteq Sessions
  /\ listing.ids \subseteq JobIds
  /\ orphans \subseteq JobIds /\ extractFaults \in 0..MaxExtractFaults

\* A job the contributor pays for is watched: the queue polls it, will poll it, or waits for
\* the answer of its resume request, unless the page lost it in a way it cannot help (a
\* reload, a lost answer), gave it up, or dropped it because the session was extracted anew
\* while the resume request was under way.
RunningIsWatched ==
  \A i \in Ids : mcpJobs[i].state = "running" =>
     \/ poll.phase = "poll" /\ poll.id = i
     \/ \E j \in Range(xjobs) : j.resume = i
     \/ \E s \in Sessions : resuming[s] = i
     \/ i \in orphans

\* A session that was queued leaves the queue, whatever the MCP server does.
QueueDrains == \A s \in Sessions : s \in Queued ~> s \notin Queued
=============================================================================
