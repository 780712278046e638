-------------------------- MODULE ProviderSettings --------------------------
(***************************************************************************)
(* The provider settings of one device.  They are kept in a file           *)
(* (lib/settings.ts) that two pages edit, each from a copy of its own: the *)
(* settings page (provider, key, fixed extraction model) and the model     *)
(* form of the organisation settings page (embedding).  A page never sees  *)
(* a stored key, only its mask, and a save writes the whole copy.  Whether *)
(* the provider would take the key and has the model is asked before an    *)
(* extraction and by two pages; the server keeps the last answer for a     *)
(* minute (lib/provider-readiness.ts).                                     *)
(***************************************************************************)
EXTENDS Naturals

CONSTANTS Keys,           \* keys the provider has given to the user
          NoKey, MaskOfKey,
          Models, NoModel,
          MaxSaves        \* bound: saves of the two pages together

VARIABLES
  stored,   \* the file
  typed,    \* the last key the user has typed and saved
  verdict,  \* the cached answer of the provider
  checks,   \* the readiness checks of the two pages and of an extraction
  copy,     \* what each page shows
  put,      \* the save of each page on its way
  saves

vars == <<stored, typed, verdict, checks, copy, put, saves>>

Pages == {"profile", "org"}
Checkers == {"profile", "extract"}
Providers == {"local", "openrouter"}
Settings == [provider : Providers, key : Keys \cup {NoKey, MaskOfKey},
             pinned : Models \cup {NoModel}]
Questions == [provider : Providers, key : Keys \cup {NoKey, MaskOfKey},
              model : Models \cup {NoModel}]

Defaults == [provider |-> "local", key |-> NoKey, pinned |-> NoModel]
Question(s, m) == [provider |-> s.provider, key |-> s.key, model |-> m]
NoQuestion == Question(Defaults, NoModel)
NoVerdict == [held |-> FALSE, of |-> NoQuestion, ready |-> FALSE, late |-> FALSE]
Idle == [phase |-> "idle", of |-> NoQuestion, late |-> FALSE]
NoPut == [phase |-> "idle", body |-> Defaults]

Init ==
  /\ stored = Defaults /\ typed = NoKey /\ verdict = NoVerdict
  /\ checks = [c \in Checkers |-> Idle]
  /\ copy = [p \in Pages |-> [open |-> FALSE, of |-> Defaults]]
  /\ put = [p \in Pages |-> NoPut]
  /\ saves = 0

\* GET and PUT answer with the settings, the key masked.
Masked(s) == [s EXCEPT !.key = IF @ = NoKey THEN NoKey ELSE MaskOfKey]

(***************************************************************************)
(* Readiness checks.                                                       *)
(***************************************************************************)
Asked == [Idle EXCEPT !.phase = "asked"]

\* The settings page drops a check while another one is in flight.
RunReadinessCheck ==
  checks' = IF checks["profile"].phase = "idle"
            THEN [checks EXCEPT !["profile"] = Asked] ELSE checks

ConfigReady(s) == s.provider = "openrouter" => s.key # NoKey

\* The cached answer is looked up by provider, model and by whether there is a key at all.
SameSignature(s, model) ==
  /\ verdict.held /\ verdict.of.provider = s.provider /\ verdict.of.model = model
  /\ (verdict.of.key = NoKey) = (s.key = NoKey)

\* The extract route uses the answer at once, a page gets it in a reply.
Reply(c, outcome) ==
  checks' = [checks EXCEPT ![c] =
               IF c = "extract" THEN Idle ELSE [Idle EXCEPT !.phase = outcome]]

\* An extraction brings the model of its session; a page has nothing to ask about when no
\* model is fixed.
GetCertifiedReadiness(c) ==
  /\ checks[c].phase = IF c = "extract" THEN "idle" ELSE "asked"
  /\ \/ c # "extract" /\ stored.pinned = NoModel /\ Reply(c, "answered")
     \/ \E model \in IF stored.pinned # NoModel THEN {stored.pinned}
                     ELSE IF c = "extract" THEN Models ELSE {} :
          \/ ~ConfigReady(stored) /\ Reply(c, "answered")
          \/ /\ ConfigReady(stored) /\ SameSignature(stored, model)
             /\ Reply(c, "answered")
          \/ /\ ConfigReady(stored) /\ ~SameSignature(stored, model)
             /\ checks' = [checks EXCEPT ![c].phase = "probing",
                                         ![c].of = Question(stored, model)]
  /\ UNCHANGED <<stored, typed, verdict, copy, put, saves>>

\* The provider answers, or cannot be reached, which is not kept.
Probe(c) ==
  /\ checks[c].phase = "probing"
  /\ \/ \E ready \in BOOLEAN :
          /\ verdict' = [held |-> TRUE, of |-> checks[c].of, ready |-> ready,
                         late |-> checks[c].late]
          /\ Reply(c, "answered")
     \/ Reply(c, "transient") /\ UNCHANGED verdict
  /\ UNCHANGED <<stored, typed, copy, put, saves>>

\* A minute has passed.
Expire ==
  /\ verdict.held /\ verdict' = NoVerdict
  /\ UNCHANGED <<stored, typed, checks, copy, put, saves>>

\* The answer arrives, or is lost.  A page asks again, up to three times in all, while the
\* provider cannot be reached; how often it has asked is left open.
CheckEnds(c) ==
  /\ checks[c].phase \in {"answered", "transient"}
  /\ \/ checks' = [checks EXCEPT ![c] = Idle]
     \/ checks[c].phase = "transient" /\ checks' = [checks EXCEPT ![c] = Asked]
  /\ UNCHANGED <<stored, typed, verdict, copy, put, saves>>

(***************************************************************************)
(* The two pages.  A read and its arrival are one step, for a copy gets    *)
(* old in either; reloads while a request of the page is in flight are not *)
(* modelled.                                                               *)
(***************************************************************************)
Read(p) == IF p = "profile" THEN Masked(stored) ELSE [Masked(stored) EXCEPT !.pinned = NoModel]

Load(p) ==
  /\ put[p].phase = "idle" /\ (p = "profile" => checks[p].phase = "idle")
  /\ copy' = [copy EXCEPT ![p] = [open |-> TRUE, of |-> Read(p)]]
  /\ IF p = "profile" THEN RunReadinessCheck ELSE UNCHANGED checks
  /\ UNCHANGED <<stored, typed, verdict, put, saves>>

\* What the user may have made of a page's copy before a save.  A key is typed anew; the fields
\* of the other page (embedding) are left out: what matters of its saves is the copy of the
\* rest that goes with them.  An edit during a save is overwritten by its answer.
Edited(p) ==
  IF p = "profile"
  THEN {form \in Settings : form.key \in Keys \cup {NoKey, copy[p].of.key}}
  ELSE {copy[p].of}

\* The settings page wants a key for a provider that needs one.
CanSave(p, form) == /\ copy[p].open /\ put[p].phase = "idle"
                    /\ p = "profile" => ConfigReady(form)

Save(p) ==
  /\ saves < MaxSaves /\ saves' = saves + 1
  /\ \E form \in Edited(p) :
       /\ CanSave(p, form)
       /\ copy' = [copy EXCEPT ![p].of = form]
       /\ put' = [put EXCEPT ![p] = [phase |-> "sent", body |-> form]]
  /\ UNCHANGED <<stored, typed, verdict, checks>>

\* A mask or no key keeps the stored one.
\* Variation: only no key does.
KeptIfEmpty(k, current) == IF k = NoKey THEN current ELSE k

KeyToStore(k, current) == IF k \in {NoKey, MaskOfKey} THEN current ELSE k

\* The model form of the other page knows nothing of the fixed model.
Merge(p, body) ==
  [body EXCEPT !.key = KeyToStore(@, stored.key),
               !.pinned = IF p = "profile" THEN @ ELSE stored.pinned]

\* Variation: a save leaves the cached answer.
InvalidateNothing == verdict

InvalidateReadinessCache == NoVerdict

Put(p) ==
  /\ put[p].phase = "sent"
  /\ stored' = Merge(p, put[p].body)
  /\ put' = [put EXCEPT ![p] = [phase |-> "answered", body |-> Masked(stored')]]
  /\ typed' = IF put[p].body.key \in Keys THEN put[p].body.key ELSE typed
  /\ verdict' = InvalidateReadinessCache
  /\ checks' = [c \in Checkers |-> IF checks[c].phase = "probing"
                                   THEN [checks[c] EXCEPT !.late = TRUE] ELSE checks[c]]
  /\ UNCHANGED <<copy, saves>>

\* The settings page takes over what was stored, the other one keeps its copy.
SaveAnswered(p) ==
  /\ put[p].phase = "answered" /\ put' = [put EXCEPT ![p] = NoPut]
  /\ IF p = "profile"
     THEN copy' = [copy EXCEPT ![p].of = put[p].body] /\ RunReadinessCheck
     ELSE UNCHANGED <<copy, checks>>
  /\ UNCHANGED <<stored, typed, verdict, saves>>

SaveLost(p) ==
  /\ put[p].phase \in {"sent", "answered"}
  /\ put' = [put EXCEPT ![p] = NoPut]
  /\ UNCHANGED <<stored, typed, verdict, checks, copy, saves>>

Next ==
  \/ \E c \in Checkers : GetCertifiedReadiness(c) \/ Probe(c)
                         \/ CheckEnds(c)
  \/ \E p \in Pages : Load(p) \/ Save(p) \/ Put(p)
                      \/ SaveAnswered(p) \/ SaveLost(p)
  \/ Expire

Spec == Init /\ [][Next]_vars

(***************************************************************************)
(* Properties.                                                             *)
(***************************************************************************)
CheckPhases == {"idle", "asked", "probing", "answered", "transient"}

TypeOK ==
  /\ stored \in Settings /\ stored.key # MaskOfKey /\ typed \in Keys \cup {NoKey}
  /\ verdict \in [held : BOOLEAN, of : Questions,
                  ready : BOOLEAN, late : BOOLEAN]
  /\ checks \in [Checkers -> [phase : CheckPhases, of : Questions,
                              late : BOOLEAN]]
  /\ copy \in [Pages -> [open : BOOLEAN, of : Settings]]
  /\ put \in [Pages -> [phase : {"idle", "sent", "answered"}, body : Settings]]
  /\ saves \in 0..MaxSaves

\* An answer kept for later checks is about the stored provider and about the last key the
\* user has typed and saved, whichever page, with however old a copy, has saved since.  One
\* way is left: a probe that was on its way when the settings were saved.
ReadinessIsCurrent ==
  verdict.held /\ ~verdict.late => /\ verdict.of.provider = stored.provider
                                   /\ verdict.of.key = typed
=============================================================================
