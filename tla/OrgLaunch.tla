----------------------------- MODULE OrgLaunch -----------------------------
(***************************************************************************)
(* Buying an organisation (app/(dashboard)/buy-org/page.tsx).  The MCP     *)
(* server on the contributor's machine makes the organisation's keys and a *)
(* recovery phrase, the wallet pays for a slot on the chain, the MCP       *)
(* server learns the organisation its keys are for, the hub records it,    *)
(* and only then is the phrase shown, once.  Other buyers take slots       *)
(* meanwhile, and every step after the payment may fail.  A purchase runs  *)
(* on when the contributor moves to another page of the dashboard, with no *)
(* page left to show its phrase on.                                        *)
(***************************************************************************)
EXTENDS Naturals, Sequences, FiniteSets

CONSTANTS SlotCap,       \* the slots the chain sells
          MaxSetups,     \* bound: purchases begun
          LaunchFaults,  \* what may go wrong: "broadcast", "finalize", "record", "reload"
          MaxLaunchFaults

VARIABLES
  hasIdentity, hasWallet,  \* what the page asks for first
  production,   \* the phrase is checked only in production
  slot,         \* the slot the page shows as the next one
  sold,         \* what the chain has sold: the setup of each organisation, 0 for others
  confirmOpen,  \* the purchase dialog is open
  buying,       \* the purchases under way, the page's ("here") and that of a page that was
                \* left ("left"): step, setup and organisation
  setups,       \* setups made by the MCP server so far
  keysFor,      \* the organisation each setup was finalised for
  recorded,     \* the organisation the hub has recorded for this leader
  shown,        \* the phrase on screen: setup and organisation
  phrasePhase,  \* how far the contributor is with it
  warned,       \* setups whose purchase was reported as failed, or cut off by a reload
  seenPhrase,   \* setups whose phrase was shown
  unshown,      \* setups bought for good when their page was gone
  launchFaults  \* what has gone wrong so far

vars == <<hasIdentity, hasWallet, production, slot, sold, confirmOpen, buying, setups, keysFor,
          recorded, shown, phrasePhase, warned, seenPhrase, unshown, launchFaults>>
account == <<hasIdentity, hasWallet, production>>
page == <<slot, confirmOpen, shown, phrasePhase, seenPhrase, unshown>>

None == 0
Purchases == {"here", "left"}
AtRest == [step |-> "idle", setup |-> 0, org |-> 0]
NoPhrase == [setup |-> 0, org |-> 0]

Fault(k) == /\ k \in LaunchFaults /\ launchFaults < MaxLaunchFaults
            /\ launchFaults' = launchFaults + 1

Init ==
  /\ hasIdentity = FALSE /\ hasWallet = FALSE /\ production \in BOOLEAN
  /\ slot = 0 /\ sold = <<>> /\ confirmOpen = FALSE /\ buying = [w \in Purchases |-> AtRest]
  /\ setups = 0 /\ keysFor = [s \in 1..MaxSetups |-> None] /\ recorded = None
  /\ shown = NoPhrase /\ phrasePhase = "none" /\ warned = {} /\ seenPhrase = {}
  /\ unshown = {} /\ launchFaults = 0

(***************************************************************************)
(* Before the purchase.                                                    *)
(***************************************************************************)
CanBuyOrgFlow == hasIdentity /\ hasWallet
CapReached == slot >= SlotCap
Submitting == buying["here"].step # "idle"

CreateIdentity ==
  /\ ~hasIdentity /\ hasIdentity' = TRUE
  /\ UNCHANGED <<hasWallet, production, page, sold, buying, setups, keysFor, recorded, warned,
                 launchFaults>>

LinkWallet ==
  /\ hasIdentity /\ ~hasWallet /\ hasWallet' = TRUE
  /\ UNCHANGED <<hasIdentity, production, page, sold, buying, setups, keysFor, recorded, warned,
                 launchFaults>>

\* The hub's directory says how many slots are taken; an error shows the first slot.
LoadCurrentSlot ==
  /\ CanBuyOrgFlow /\ slot' \in {Len(sold), 0}
  /\ UNCHANGED <<account, sold, confirmOpen, buying, setups, keysFor, recorded, shown,
                 phrasePhase, warned, seenPhrase, unshown, launchFaults>>

OtherBuyer ==
  /\ Len(sold) < SlotCap /\ sold' = Append(sold, None)
  /\ UNCHANGED <<account, page, buying, setups, keysFor, recorded, warned, launchFaults>>

OpenConfirmModal ==
  /\ CanBuyOrgFlow /\ ~CapReached /\ ~confirmOpen /\ confirmOpen' = TRUE
  /\ UNCHANGED <<account, slot, sold, buying, setups, keysFor, recorded, shown, phrasePhase,
                 warned, seenPhrase, unshown, launchFaults>>

Cancel ==
  /\ confirmOpen /\ ~Submitting /\ confirmOpen' = FALSE
  /\ UNCHANGED <<account, slot, sold, buying, setups, keysFor, recorded, shown, phrasePhase,
                 warned, seenPhrase, unshown, launchFaults>>

(***************************************************************************)
(* The purchase.                                                           *)
(***************************************************************************)
At(w, step) == buying[w].step = step
Advance(w, step) == buying' = [buying EXCEPT ![w].step = step]
Rest(w) == buying' = [buying EXCEPT ![w] = AtRest]

\* handleConfirmBuy's catch block: a message, and the dialog stays open for another try.
Fail(w) == Rest(w) /\ warned' = warned \cup ({buying[w].setup} \ {0})

ConfirmBuy ==
  /\ confirmOpen /\ CanBuyOrgFlow /\ ~Submitting /\ ~CapReached
  /\ buying' = [buying EXCEPT !["here"].step = "wallet"]
  /\ UNCHANGED <<account, page, sold, setups, keysFor, recorded, warned, launchFaults>>

\* The wallet is another one, or the hub does not say its serving address.
CheckWallet(w) ==
  /\ At(w, "wallet") /\ (Advance(w, "setup") \/ Rest(w))
  /\ UNCHANGED <<account, page, sold, setups, keysFor, recorded, warned, launchFaults>>

\* The MCP server makes keys and phrase; or it is offline, or holds another identity.
RequestOrgCryptoSetup(w) ==
  /\ At(w, "setup")
  /\ \/ /\ setups < MaxSetups /\ setups' = setups + 1
        /\ buying' = [buying EXCEPT ![w].step = "broadcast", ![w].setup = setups']
     \/ Rest(w) /\ UNCHANGED setups
  /\ UNCHANGED <<account, page, sold, keysFor, recorded, warned, launchFaults>>

\* The wallet pays; the organisation's id comes back in the transaction's response.
BroadcastRegisterOrg(w) ==
  /\ At(w, "broadcast")
  /\ \/ /\ Len(sold) < SlotCap /\ sold' = Append(sold, buying[w].setup)
        /\ buying' = [buying EXCEPT ![w].step = "finalize", ![w].org = Len(sold')]
        /\ UNCHANGED <<warned, launchFaults>>
     \/ Fail(w) /\ UNCHANGED <<sold, launchFaults>>
     \/ /\ Len(sold) < SlotCap /\ Fault("broadcast")
        /\ sold' = Append(sold, buying[w].setup) /\ Fail(w)
  /\ UNCHANGED <<account, page, setups, keysFor, recorded>>

\* The MCP server learns which organisation its keys are for.
TakeId(w) == keysFor' = [keysFor EXCEPT ![buying[w].setup] = buying[w].org]

\* Variation: a failure of the MCP server to take the id is ignored.
FinalizeAnyway(w) ==
  /\ At(w, "finalize")
  /\ \/ TakeId(w) /\ UNCHANGED launchFaults
     \/ Fault("finalize") /\ UNCHANGED keysFor
  /\ Advance(w, "record")
  /\ UNCHANGED <<account, page, sold, setups, recorded, warned>>

FinalizeOrgSetup(w) ==
  /\ At(w, "finalize")
  /\ \/ TakeId(w) /\ Advance(w, "record") /\ UNCHANGED <<warned, launchFaults>>
     \/ Fault("finalize") /\ Fail(w) /\ UNCHANGED keysFor
     \/ Fault("finalize") /\ Fail(w) /\ TakeId(w)
  /\ UNCHANGED <<account, page, sold, setups, recorded>>

\* The hub takes one organisation for a leader.
RecordOrg(w) ==
  /\ At(w, "record")
  /\ \/ /\ recorded = None /\ recorded' = buying[w].org
        /\ Advance(w, "show") /\ UNCHANGED <<warned, launchFaults>>
     \/ recorded # None /\ Fail(w) /\ UNCHANGED <<recorded, launchFaults>>
     \/ Fault("record") /\ Fail(w) /\ UNCHANGED recorded
     \/ recorded = None /\ Fault("record") /\ recorded' = buying[w].org /\ Fail(w)
  /\ UNCHANGED <<account, page, sold, setups, keysFor>>

\* The phrase comes on screen.  When the page is gone nothing does, and a toast says that
\* the organisation was created.
ShowPhrase(w) ==
  /\ At(w, "show") /\ Advance(w, "confirm")
  /\ \/ /\ w = "here"
        /\ shown' = [setup |-> buying[w].setup, org |-> buying[w].org]
        /\ phrasePhase' = "reveal" /\ confirmOpen' = FALSE
        /\ seenPhrase' = seenPhrase \cup {buying[w].setup} /\ UNCHANGED unshown
     \/ /\ w = "left" /\ unshown' = unshown \cup {buying[w].setup}
        /\ UNCHANGED <<shown, phrasePhase, confirmOpen, seenPhrase>>
  /\ UNCHANGED <<account, slot, sold, setups, keysFor, recorded, warned, launchFaults>>

\* The chain is asked for the organisation until it knows it, or for long enough.
AwaitConfirmation(w) ==
  /\ At(w, "confirm") /\ Rest(w)
  /\ UNCHANGED <<account, page, sold, setups, keysFor, recorded, warned, launchFaults>>

Purchase(w) ==
  \/ CheckWallet(w) \/ RequestOrgCryptoSetup(w) \/ BroadcastRegisterOrg(w)
  \/ FinalizeOrgSetup(w) \/ RecordOrg(w) \/ ShowPhrase(w) \/ AwaitConfirmation(w)

(***************************************************************************)
(* The phrase on screen.                                                   *)
(***************************************************************************)
StartRecoveryVerification ==
  /\ phrasePhase = "reveal"
  /\ phrasePhase' = IF production THEN "confirm" ELSE "passed"
  /\ UNCHANGED <<account, slot, sold, confirmOpen, buying, setups, keysFor, recorded, shown,
                 warned, seenPhrase, unshown, launchFaults>>

\* Three words are right, or the phrase is shown again.
RecoveryConfirmSubmit ==
  /\ phrasePhase = "confirm" /\ phrasePhase' \in {"passed", "reveal"}
  /\ UNCHANGED <<account, slot, sold, confirmOpen, buying, setups, keysFor, recorded, shown,
                 warned, seenPhrase, unshown, launchFaults>>

\* What the page held is lost, the phrase too.
Blank ==
  /\ slot' = 0 /\ confirmOpen' = FALSE /\ shown' = NoPhrase /\ phrasePhase' = "none"
  /\ UNCHANGED <<account, sold, setups, keysFor, recorded, seenPhrase, unshown>>

\* Another page of the dashboard is opened: a purchase under way runs on.  (Of those of
\* pages that were left, one at a time is followed.)
LeavePage ==
  /\ AtRest \in {buying[w] : w \in Purchases}
  /\ buying' = [buying EXCEPT !["here"] = AtRest,
                                 !["left"] = IF Submitting THEN buying["here"] ELSE @]
  /\ Blank /\ UNCHANGED <<warned, launchFaults>>

\* The page is reloaded, and no purchase runs on.
Reload ==
  /\ Fault("reload")
  /\ buying' = [w \in Purchases |-> AtRest]
  /\ warned' = warned \cup ({buying[w].setup : w \in Purchases} \ {0})
  /\ Blank

Next ==
  \/ CreateIdentity \/ LinkWallet \/ LoadCurrentSlot \/ OtherBuyer \/ OpenConfirmModal \/ Cancel
  \/ ConfirmBuy \/ StartRecoveryVerification \/ RecoveryConfirmSubmit \/ LeavePage \/ Reload
  \/ \E w \in Purchases : Purchase(w)

Spec == Init /\ [][Next]_vars

(***************************************************************************)
(* Properties.                                                             *)
(***************************************************************************)
SetupIds == 0..MaxSetups
OrgIds == 0..SlotCap

TypeOK ==
  /\ hasIdentity \in BOOLEAN /\ hasWallet \in BOOLEAN /\ production \in BOOLEAN
  /\ slot \in OrgIds /\ sold \in Seq(SetupIds) /\ confirmOpen \in BOOLEAN
  /\ buying \in [Purchases -> [step : {"idle", "wallet", "setup", "broadcast", "finalize",
                                       "record", "show", "confirm"},
                               setup : SetupIds, org : OrgIds]]
  /\ setups \in SetupIds /\ keysFor \in [1..MaxSetups -> OrgIds] /\ recorded \in OrgIds
  /\ shown \in [setup : SetupIds, org : OrgIds]
  /\ phrasePhase \in {"none", "reveal", "confirm", "passed"}
  /\ warned \subseteq SetupIds /\ seenPhrase \subseteq SetupIds /\ unshown \subseteq SetupIds
  /\ launchFaults \in 0..MaxLaunchFaults

\* The phrase on screen opens the organisation named beside it: the chain sold that slot for
\* the keys the phrase restores, the MCP server holds them under that id and the hub has
\* recorded it.  And an organisation that was paid for is never lost in silence: its phrase
\* was shown, its purchase is under way, the contributor saw it fail, or had left the page
\* before the phrase could be shown.
PhraseOpensOrg ==
  /\ shown # NoPhrase => /\ sold[shown.org] = shown.setup
                         /\ keysFor[shown.setup] = shown.org /\ recorded = shown.org
  /\ \A i \in DOMAIN sold : sold[i] # None =>
       \/ sold[i] \in seenPhrase \cup warned \cup unshown
       \/ \E w \in Purchases : buying[w].setup = sold[i] /\ buying[w].org = i
=============================================================================
