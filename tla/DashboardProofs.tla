-------------------------- MODULE DashboardProofs --------------------------
(***************************************************************************)
(* From the scenes of MCDashboard to its components: in every scene, a     *)
(* step moves a component as the component's own Next says, or not at all. *)
(* DeskProofs and PageProofs prove what a component promises from its own  *)
(* actions, and cite these lemmas to carry the result over to FairSpec.    *)
(* Both queues drop entries with Array.prototype.filter; what Filter       *)
(* keeps, and in which order, is proved here for both. At the end are the  *)
(* types of the components that need no more than their own actions.       *)
(***************************************************************************)
EXTENDS MCDashboard, Filter, Integers, FiniteSetTheorems, SequenceTheorems, TLAPS

\* A step of the dashboard is one of the verification queue, or leaves it as it is.
LEMMA MovesVQ == [Next]_vars => [VQ!Next]_ofVQ
  BY DEF Next, vars, VerifyQueueNext, ExtractionQueueNext, DraftReviewNext,
         SessionsPageNext, BroadcastNext, OrgLaunchNext, IdentityNext, OrgSettingsNext,
         ProviderSettingsNext, OrgListsNext, JoinDeskNext, ReportDeskNext, BesideXQ,
         BesideDR, BesideSP, BesideBC, BesideOL, BesideID, BesideOS, BesidePS, BesideLI,
         BesideJD, BesideRD

\* A step of the dashboard is one of the extraction queue, or leaves it as it is.
LEMMA MovesXQ == [Next]_vars => [XQ!Next]_ofXQ
  BY DEF Next, vars, VerifyQueueNext, ExtractionQueueNext, DraftReviewNext,
         SessionsPageNext, BroadcastNext, OrgLaunchNext, IdentityNext, OrgSettingsNext,
         ProviderSettingsNext, OrgListsNext, JoinDeskNext, ReportDeskNext, BesideVQ,
         BesideDR, BesideSP, BesideBC, BesideOL, BesideID, BesideOS, BesidePS, BesideLI,
         BesideJD, BesideRD

\* A step of the dashboard is one of the review of an extraction's drafts, or leaves it as it is.
LEMMA MovesDR == [Next]_vars => [DR!Next]_ofDR
  BY DEF Next, vars, VerifyQueueNext, ExtractionQueueNext, DraftReviewNext,
         SessionsPageNext, BroadcastNext, OrgLaunchNext, IdentityNext, OrgSettingsNext,
         ProviderSettingsNext, OrgListsNext, JoinDeskNext, ReportDeskNext, BesideVQ,
         BesideXQ, BesideSP, BesideBC, BesideOL, BesideID, BesideOS, BesidePS, BesideLI,
         BesideJD, BesideRD

\* A step of the dashboard is one of the sessions page, or leaves it as it is.
LEMMA MovesSP == [Next]_vars => [SP!Next]_ofSP
  BY DEF Next, vars, VerifyQueueNext, ExtractionQueueNext, DraftReviewNext,
         SessionsPageNext, BroadcastNext, OrgLaunchNext, IdentityNext, OrgSettingsNext,
         ProviderSettingsNext, OrgListsNext, JoinDeskNext, ReportDeskNext, BesideVQ,
         BesideXQ, BesideDR, BesideBC, BesideOL, BesideID, BesideOS, BesidePS, BesideLI,
         BesideJD, BesideRD

\* A step of the dashboard is one of the wallet's broadcast client, or leaves it as it is.
LEMMA MovesBC == [Next]_vars => [BC!Next]_ofBC
  BY DEF Next, vars, VerifyQueueNext, ExtractionQueueNext, DraftReviewNext,
         SessionsPageNext, BroadcastNext, OrgLaunchNext, IdentityNext, OrgSettingsNext,
         ProviderSettingsNext, OrgListsNext, JoinDeskNext, ReportDeskNext, BesideVQ,
         BesideXQ, BesideDR, BesideSP, BesideOL, BesideID, BesideOS, BesidePS, BesideLI,
         BesideJD, BesideRD

\* A step of the dashboard is one of the purchase of an organisation, or leaves it as it is.
LEMMA MovesOL == [Next]_vars => [OL!Next]_ofOL
  BY DEF Next, vars, VerifyQueueNext, ExtractionQueueNext, DraftReviewNext,
         SessionsPageNext, BroadcastNext, OrgLaunchNext, IdentityNext, OrgSettingsNext,
         ProviderSettingsNext, OrgListsNext, JoinDeskNext, ReportDeskNext, BesideVQ,
         BesideXQ, BesideDR, BesideSP, BesideBC, BesideID, BesideOS, BesidePS, BesideLI,
         BesideJD, BesideRD

\* A step of the dashboard is one of the identity of the browser, or leaves it as it is.
LEMMA MovesID == [Next]_vars => [ID!Next]_ofID
  BY DEF Next, vars, VerifyQueueNext, ExtractionQueueNext, DraftReviewNext,
         SessionsPageNext, BroadcastNext, OrgLaunchNext, IdentityNext, OrgSettingsNext,
         ProviderSettingsNext, OrgListsNext, JoinDeskNext, ReportDeskNext, BesideVQ,
         BesideXQ, BesideDR, BesideSP, BesideBC, BesideOL, BesideOS, BesidePS, BesideLI,
         BesideJD, BesideRD

\* A step of the dashboard is one of the settings of an organisation, or leaves it as it is.
LEMMA MovesOS == [Next]_vars => [OS!Next]_ofOS
  BY DEF Next, vars, VerifyQueueNext, ExtractionQueueNext, DraftReviewNext,
         SessionsPageNext, BroadcastNext, OrgLaunchNext, IdentityNext, OrgSettingsNext,
         ProviderSettingsNext, OrgListsNext, JoinDeskNext, ReportDeskNext, BesideVQ,
         BesideXQ, BesideDR, BesideSP, BesideBC, BesideOL, BesideID, BesidePS, BesideLI,
         BesideJD, BesideRD

\* A step of the dashboard is one of the provider settings, or leaves it as it is.
LEMMA MovesPS == [Next]_vars => [PS!Next]_ofPS
  BY DEF Next, vars, VerifyQueueNext, ExtractionQueueNext, DraftReviewNext,
         SessionsPageNext, BroadcastNext, OrgLaunchNext, IdentityNext, OrgSettingsNext,
         ProviderSettingsNext, OrgListsNext, JoinDeskNext, ReportDeskNext, BesideVQ,
         BesideXQ, BesideDR, BesideSP, BesideBC, BesideOL, BesideID, BesideOS, BesideLI,
         BesideJD, BesideRD

\* A step of the dashboard is one of the lists of an organisation, or leaves it as it is.
LEMMA MovesLI == [Next]_vars => [LI!Next]_ofLI
  BY DEF Next, vars, VerifyQueueNext, ExtractionQueueNext, DraftReviewNext,
         SessionsPageNext, BroadcastNext, OrgLaunchNext, IdentityNext, OrgSettingsNext,
         ProviderSettingsNext, OrgListsNext, JoinDeskNext, ReportDeskNext, BesideVQ,
         BesideXQ, BesideDR, BesideSP, BesideBC, BesideOL, BesideID, BesideOS, BesidePS,
         BesideJD, BesideRD

\* A step of the dashboard is one of the review of a join request, or leaves it as it is.
LEMMA MovesJD == [Next]_vars => [JD!Next]_ofJD
  BY DEF Next, vars, VerifyQueueNext, ExtractionQueueNext, DraftReviewNext,
         SessionsPageNext, BroadcastNext, OrgLaunchNext, IdentityNext, OrgSettingsNext,
         ProviderSettingsNext, OrgListsNext, JoinDeskNext, ReportDeskNext, BesideVQ,
         BesideXQ, BesideDR, BesideSP, BesideBC, BesideOL, BesideID, BesideOS, BesidePS,
         BesideLI, BesideRD

\* A step of the dashboard is one of the review of reports, or leaves it as it is.
LEMMA MovesRD == [Next]_vars => [RD!Next]_ofRD
  BY DEF Next, vars, VerifyQueueNext, ExtractionQueueNext, DraftReviewNext,
         SessionsPageNext, BroadcastNext, OrgLaunchNext, IdentityNext, OrgSettingsNext,
         ProviderSettingsNext, OrgListsNext, JoinDeskNext, ReportDeskNext, BesideVQ,
         BesideXQ, BesideDR, BesideSP, BesideBC, BesideOL, BesideID, BesideOS, BesidePS,
         BesideLI, BesideJD

(***************************************************************************)
(* The queues.                                                             *)
(***************************************************************************)
\* The places of the entries kept are the numbers from 1 on, each of them once.
LEMMA PlacesFill ==
  ASSUME NEW n \in Nat, NEW keep \in SUBSET (1..n)
  PROVE  /\ IsFiniteSet(keep) /\ Cardinality(keep) \in Nat
         /\ \A i \in keep : Place(keep, i) \in 1..Cardinality(keep)
         /\ \A k \in 1..Cardinality(keep) : \E i \in keep : Place(keep, i) = k
         /\ \A i, j \in keep : Place(keep, i) = Place(keep, j) => i = j
<1> DEFINE Up(i) == {j \in keep : j <= i}
           place == [i \in keep |-> Cardinality(Up(i))]
           K == 1..Cardinality(keep)
<1>1. IsFiniteSet(keep) /\ Cardinality(keep) \in Nat
  <2>1. IsFiniteSet(1..n)
    BY FS_Interval
  <2> QED BY <2>1, FS_Subset, FS_CardinalityType
<1>2. ASSUME NEW i \in keep
      PROVE  IsFiniteSet(Up(i)) /\ Cardinality(Up(i)) \in K
  <2>1. IsFiniteSet(Up(i)) /\ Cardinality(Up(i)) <= Cardinality(keep)
    BY <1>1, FS_Subset
  <2>2. Cardinality(Up(i)) \in Nat
    BY <2>1, FS_CardinalityType
  <2>3. i \in Up(i)
    OBVIOUS
  <2>4. Cardinality(Up(i)) # 0
    BY <2>1, <2>3, FS_EmptySet
  <2> QED BY <1>1, <2>1, <2>2, <2>4
<1>3. ASSUME NEW i \in keep, NEW j \in keep, i < j PROVE Cardinality(Up(i)) # Cardinality(Up(j))
  <2>1. Up(i) \in SUBSET Up(j) /\ j \in Up(j) /\ j \notin Up(i)
    <3>1. i \in Nat /\ j \in Nat /\ \A x \in keep : x \in Nat
      OBVIOUS
    <3>2. \A x \in keep : x <= i => x <= j
      BY <1>3, <3>1
    <3>3. j \in keep /\ j <= j /\ ~ (j <= i)
      BY <1>3, <3>1
    <3> QED BY <3>2, <3>3
  <2> QED BY <1>2, <2>1, FS_Subset
<1>4. place \in [keep -> K]
  BY <1>2
<1>5. ASSUME NEW i \in keep, NEW j \in keep, place[i] = place[j] PROVE i = j
  <2>1. Cardinality(Up(i)) = Cardinality(Up(j))
    BY <1>5
  <2>2. i \in Nat /\ j \in Nat
    OBVIOUS
  <2> HIDE DEF Up
  <2> QED BY <1>3, <2>1, <2>2
<1> HIDE DEF place, K
<1>6. place \in Injection(keep, K)
  BY <1>4, <1>5 DEF Injection, IsInjective
<1>7. IsFiniteSet(K) /\ Cardinality(K) = Cardinality(keep)
  BY <1>1, FS_Interval DEF K
<1>8. place \in Surjection(keep, K)
  BY <1>6, <1>7, FS_Injection
<1>9. \A i \in keep : place[i] = Place(keep, i)
  BY DEF place, Place
<1>10. \A k \in K : \E i \in keep : place[i] = k
  BY <1>8 DEF Surjection
<1> QED BY <1>1, <1>4, <1>5, <1>9, <1>10 DEF K

\* filter returns the entries kept and no others.
LEMMA KeptEntries ==
  ASSUME NEW S, NEW q \in Seq(S), NEW keep \in SUBSET (DOMAIN q)
  PROVE  /\ Kept(q, keep) \in Seq(S)
         /\ \A k \in DOMAIN Kept(q, keep) : \E i \in keep : Kept(q, keep)[k] = q[i]
         /\ \A i \in keep : \E k \in DOMAIN Kept(q, keep) : Kept(q, keep)[k] = q[i]
<1> DEFINE at(k) == CHOOSE i \in keep : Place(keep, i) = k
<1>1. Len(q) \in Nat /\ DOMAIN q = 1..Len(q) /\ \A i \in keep : q[i] \in S
  OBVIOUS
<1>2. /\ Cardinality(keep) \in Nat
      /\ \A i \in keep : Place(keep, i) \in 1..Cardinality(keep)
      /\ \A k \in 1..Cardinality(keep) : \E i \in keep : Place(keep, i) = k
      /\ \A i, j \in keep : Place(keep, i) = Place(keep, j) => i = j
  BY <1>1, PlacesFill
<1>3. ASSUME NEW k \in 1..Cardinality(keep) PROVE at(k) \in keep /\ Place(keep, at(k)) = k
  BY <1>2
<1>4. ASSUME NEW i \in keep PROVE at(Place(keep, i)) = i
  BY <1>2, <1>3
<1>5. Kept(q, keep) = [k \in 1..Cardinality(keep) |-> q[at(k)]]
  BY DEF Kept
<1> HIDE DEF at
<1>6. Kept(q, keep) \in Seq(S)
  BY <1>1, <1>2, <1>3, <1>5
<1>7. /\ DOMAIN Kept(q, keep) = 1..Cardinality(keep)
      /\ \A k \in 1..Cardinality(keep) : Kept(q, keep)[k] = q[at(k)]
  BY <1>5
<1>8. \A i \in keep : Kept(q, keep)[Place(keep, i)] = q[i]
  BY <1>2, <1>4, <1>7
<1> QED BY <1>2, <1>3, <1>6, <1>7, <1>8

\* filter that keeps all entries.
LEMMA KeptAll == ASSUME NEW S, NEW q \in Seq(S) PROVE Kept(q, DOMAIN q) = q
<1>1. Len(q) \in Nat /\ DOMAIN q = 1..Len(q) /\ q = [k \in 1..Len(q) |-> q[k]]
  OBVIOUS
<1>2. ASSUME NEW i \in 1..Len(q) PROVE Place(1..Len(q), i) = i
  <2>1. {j \in 1..Len(q) : j <= i} = 1..i /\ i \in Nat /\ i >= 1
    BY <1>1
  <2>2. Cardinality(1..i) = i
    BY <2>1, FS_Interval
  <2> QED BY <2>1, <2>2 DEF Place
<1>3. Cardinality(1..Len(q)) = Len(q)
  BY <1>1, FS_Interval
<1>4. ASSUME NEW k \in 1..Len(q) PROVE (CHOOSE i \in 1..Len(q) : Place(1..Len(q), i) = k) = k
  BY <1>2
<1> QED BY <1>1, <1>3, <1>4 DEF Kept

\* The same operator, as the two queues take it in.
LEMMA KeptVQ == ASSUME NEW q, NEW keep PROVE VQ!Kept(q, keep) = Kept(q, keep)
  BY DEF VQ!Kept, VQ!Place, VQ!Cardinality, Kept, Place, Cardinality

\* The extraction queue filters with the same operator.
LEMMA KeptXQ == ASSUME NEW q, NEW keep PROVE XQ!Kept(q, keep) = Kept(q, keep)
  BY DEF XQ!Kept, XQ!Place, XQ!Cardinality, Kept, Place, Cardinality

(***************************************************************************)
(* The types of the components that need nothing else: the sessions page,  *)
(* the identity, the settings forms and the list pages.                    *)
(***************************************************************************)
\* They hold when the page opens first.
LEMMA InitTypeSP == SP!Init => SP!TypeOK
  BY DEF SP!Init, SP!TypeOK, SP!SessionIds

\* Every step of the sessions page keeps its types.
LEMMA NextTypeSP == SP!TypeOK /\ [SP!Next]_ofSP => SP!TypeOK'
<1> SUFFICES ASSUME SP!TypeOK, [SP!Next]_ofSP PROVE SP!TypeOK'
  OBVIOUS
<1> USE DEF SP!TypeOK, SP!SessionIds, SP!queueView, SP!card
<1>1. CASE SP!OpenPage \/ SP!LeavePage
  BY <1>1 DEF SP!OpenPage, SP!LeavePage, SP!Blank
<1>2. CASE SP!LoadReadiness \/ SP!LoadExtractedSessions \/ SP!TryAgain
  BY <1>2 DEF SP!LoadReadiness, SP!LoadExtractedSessions, SP!TryAgain
<1>3. CASE SP!RequestExtraction \/ SP!ConfirmReextract
  BY <1>3 DEF SP!RequestExtraction, SP!ConfirmReextract, SP!EnqueueActiveSession,
              SP!CanExtract, SP!CanRetry, SP!Ready, SP!Settled, SP!Extracted
<1>4. CASE SP!CloseReextractModal \/ SP!ResumeParkedSession
  BY <1>4 DEF SP!CloseReextractModal, SP!ResumeParkedSession, SP!Settled
<1>5. ASSUME NEW s \in Sessions,
             SP!SelectSession(s) \/ SP!LoadSessionDetail(s) \/ SP!JobEnds(s) \/ SP!DraftLeaves(s)
      PROVE  SP!TypeOK'
  BY <1>5 DEF SP!SelectSession, SP!LoadSessionDetail, SP!JobEnds, SP!DraftLeaves
<1>6. CASE UNCHANGED ofSP
  BY <1>6 DEF ofSP
<1> QED BY <1>1, <1>2, <1>3, <1>4, <1>5, <1>6 DEF SP!Next

\* They hold at first, with an identity or without.
LEMMA InitTypeID == ID!Init => ID!TypeOK
<1> SUFFICES ASSUME ID!Init PROVE ID!TypeOK
  OBVIOUS
<1> USE DEF ID!Init, ID!TypeOK, ID!KeyIds, ID!Wrappers, ID!None
<1>1. MaxKeys \in Nat \ {0} /\ MaxSignIns \in Nat
  BY BoundsAssumption
<1>2. ID!NoRecord \in ID!Records
  BY <1>1 DEF ID!NoRecord, ID!Records
<1>3. record \in ID!Records /\ blobs \subseteq [key : ID!KeyIds, by : ID!Wrappers]
  BY <1>1, <1>2 DEF ID!Records
<1> QED BY <1>1, <1>2, <1>3

\* Every step of a tab keeps the types of the identity.
LEMMA NextTypeID == ID!TypeOK /\ [ID!Next]_ofID => ID!TypeOK'
<1> SUFFICES ASSUME ID!TypeOK, [ID!Next]_ofID PROVE ID!TypeOK'
  OBVIOUS
<1> USE DEF ID!TypeOK, ID!KeyIds, ID!Wrappers, ID!None
<1>n. MaxKeys \in Nat \ {0} /\ MaxSignIns \in Nat
  BY BoundsAssumption
<1>r. ID!NoRecord \in ID!Records
  BY <1>n DEF ID!NoRecord, ID!Records
<1>i. ASSUME NEW t \in Tabs, NEW r \in ID!Records, ID!Install(t, r)
      PROVE  /\ record' \in ID!Records /\ signIns' \in 0..MaxSignIns
             /\ memory' \in [Tabs -> ID!KeyIds] /\ session' \in [Tabs -> ID!KeyIds]
  BY <1>i, <1>n DEF ID!Install, ID!Records
<1>a. ASSUME NEW t \in Tabs, NEW k \in ID!KeyIds, NEW w \in Wallets \cup {Passkey},
             ID!Adopt(t, k, w)
      PROVE  /\ record' \in ID!Records /\ signIns' \in 0..MaxSignIns
             /\ memory' \in [Tabs -> ID!KeyIds] /\ session' \in [Tabs -> ID!KeyIds]
             /\ blobs' \subseteq [key : ID!KeyIds, by : ID!Wrappers]
             /\ UNCHANGED <<mcpKey, known, unlocking, editing>>
  <2> DEFINE stays == IF ID!Readable(record) THEN record.address ELSE NoWallet
             r == [key |-> k, by |-> w, address |-> IF w = Passkey THEN stays ELSE w]
  <2>1. stays \in Wallets \cup {NoWallet}
    BY DEF ID!Records
  <2>2. r \in ID!Records
    BY <2>1 DEF ID!Records
  <2>3. ID!Install(t, r) /\ UNCHANGED <<mcpKey, known, unlocking, editing>>
        /\ blobs' \in {blobs, blobs \cup {[key |-> k, by |-> w]}}
    BY <1>a DEF ID!Adopt
  <2> HIDE DEF r
  <2> QED BY <1>i, <2>2, <2>3
<1>b. ASSUME NEW t \in Tabs, NEW b, ID!Fetch(t, b) PROVE ID!TypeOK'
  <2> DEFINE r == [key |-> b.key, by |-> b.by,
                   address |-> IF b.by = Passkey THEN NoWallet ELSE b.by]
  <2>1. /\ r \in ID!Records /\ ID!Install(t, r)
        /\ UNCHANGED <<keys, blobs, mcpKey, known, unlocking, editing>>
    BY <1>b DEF ID!Fetch, ID!Records
  <2> HIDE DEF r
  <2> QED BY <1>i, <2>1
<1>1. ASSUME NEW t \in Tabs, ID!UnlockIdentity(t) \/ ID!FinishUnlock(t) PROVE ID!TypeOK'
  BY <1>1, <1>r DEF ID!UnlockIdentity, ID!FinishUnlock, ID!CachedSeed, ID!Records
<1>2. ASSUME NEW t \in Tabs, NEW w \in Wallets \cup {Passkey}, ID!CreateGuestIdentity(t, w)
      PROVE  ID!TypeOK'
  <2>1. keys' = keys + 1 /\ keys' \in 1..MaxKeys /\ ID!Adopt(t, keys', w)
    BY <1>2, <1>n DEF ID!CreateGuestIdentity
  <2> QED BY <1>a, <2>1, <1>n
<1>3. ASSUME NEW t \in Tabs, NEW w \in Wallets \cup {Passkey},
             ID!AdoptIdentityFromLocalMcp(t, w)
      PROVE  ID!TypeOK'
  BY <1>3, <1>a DEF ID!AdoptIdentityFromLocalMcp
<1>4. ASSUME NEW t \in Tabs, ID!ImportIdentityFromPhrase(t) PROVE ID!TypeOK'
  <2>1. PICK k \in 1..keys : ID!Adopt(t, k, Passkey) /\ UNCHANGED keys
    BY <1>4 DEF ID!ImportIdentityFromPhrase
  <2>2. k \in 0..MaxKeys
    BY <1>n
  <2> QED BY <1>a, <2>1, <2>2
<1>5. ASSUME NEW t \in Tabs, ID!PasskeySignIn(t) PROVE ID!TypeOK'
  BY <1>5, <1>b, <1>2, <1>3, <1>4 DEF ID!PasskeySignIn, ID!AdoptIdentityFromPasskey
<1>6. ASSUME NEW t \in Tabs, NEW w \in Wallets, ID!WalletSignIn(t, w) PROVE ID!TypeOK'
  BY <1>6, <1>b, <1>2, <1>3 DEF ID!WalletSignIn, ID!AdoptIdentityFromWallet
<1>7. ASSUME NEW t \in Tabs, ID!ReadForAddress(t) \/ ID!ClearIdentity(t) PROVE ID!TypeOK'
  BY <1>7, <1>r, <1>n DEF ID!ReadForAddress, ID!ClearIdentity
<1>s. CASE ID!SetWalletAddress
  BY <1>s, <1>r DEF ID!SetWalletAddress, ID!Records
<1>8. ASSUME NEW t \in Tabs, ID!Refresh(t) \/ ID!Reload(t) PROVE ID!TypeOK'
  BY <1>8, <1>r, <1>n DEF ID!Refresh, ID!Reload
<1>9. CASE ID!McpIdentity
  BY <1>9, <1>n DEF ID!McpIdentity
<1>10. CASE UNCHANGED ofID
  BY <1>10 DEF ofID
<1> QED BY <1>1, <1>5, <1>6, <1>7, <1>s, <1>8, <1>9, <1>10 DEF ID!Next

\* They hold before an organisation is chosen.
LEMMA InitTypeOS == OS!Init => OS!TypeOK
<1> SUFFICES ASSUME OS!Init PROVE OS!TypeOK
  OBVIOUS
<1>1. MaxSwitches \in Nat
  BY BoundsAssumption
<1>2. /\ requests \subseteq [org : UserOrgs, visit : 0..MaxSwitches] /\ visit \in 0..MaxSwitches
  BY <1>1 DEF OS!Init
<1>3. /\ loading \in BOOLEAN /\ error \in BOOLEAN /\ late \in BOOLEAN /\ dismissed \in BOOLEAN
  BY DEF OS!Init
<1>4. /\ form \in {"transfer", "serving", "profile", "receipts", "rate"}
      /\ activeOrg = NoOrg /\ holds = NoOrg /\ saving = NoOrg
  BY DEF OS!Init
<1>5. editor \in [open : BOOLEAN, org : OS!OrgIds, visit : 0..MaxSwitches, doubt : BOOLEAN]
  BY <1>1 DEF OS!Init, OS!Closed, OS!OrgIds
<1> QED BY <1>2, <1>3, <1>4, <1>5 DEF OS!TypeOK, OS!OrgIds

\* Every step of a settings form keeps its types.
LEMMA NextTypeOS == OS!TypeOK /\ [OS!Next]_ofOS => OS!TypeOK'
<1> SUFFICES ASSUME OS!TypeOK, [OS!Next]_ofOS PROVE OS!TypeOK'
  OBVIOUS
<1> USE DEF OS!TypeOK, OS!OrgIds, OS!shown
<1>n. /\ MaxSwitches \in Nat /\ Leads \subseteq UserOrgs
      /\ OS!Closed \in [open : BOOLEAN, org : UserOrgs \cup {NoOrg}, visit : 0..MaxSwitches,
                         doubt : BOOLEAN]
  BY BoundsAssumption, OrgsAssumption DEF OS!Closed
<1>1. ASSUME NEW o \in UserOrgs \cup {NoOrg}, OS!SetActiveOrg(o) PROVE OS!TypeOK'
  <2>1. /\ visit' \in 0..MaxSwitches /\ activeOrg' = o /\ UNCHANGED <<form, saving>>
        /\ editor' \in [open : BOOLEAN, org : UserOrgs \cup {NoOrg}, visit : 0..MaxSwitches,
                        doubt : BOOLEAN]
    <3>1. editor' \in {editor, OS!Closed}
      BY <1>1 DEF OS!SetActiveOrg
    <3>2. visit' \in 0..MaxSwitches /\ activeOrg' = o /\ UNCHANGED <<form, saving>>
      BY <1>1, <1>n DEF OS!SetActiveOrg
    <3> QED BY <1>n, <3>1, <3>2
  <2>2. CASE o \in UserOrgs /\ OS!Ask(o)
    <3>1. requests' \subseteq [org : UserOrgs, visit : 0..MaxSwitches]
      BY <2>1, <2>2 DEF OS!Ask
    <3>2. /\ loading' \in BOOLEAN /\ error' \in BOOLEAN /\ dismissed' \in BOOLEAN
          /\ holds' \in UserOrgs \cup {NoOrg} /\ late' \in BOOLEAN
      BY <2>2 DEF OS!Ask
    <3> QED BY <2>1, <3>1, <3>2
  <2>3. CASE OS!Clear
    BY <2>1, <2>3 DEF OS!Clear
  <2>4. CASE UNCHANGED <<loading, holds, late, dismissed, requests>> /\ error' \in {error, TRUE}
    BY <2>1, <2>4
  <2> QED
    BY <1>1, <1>n, <2>2, <2>3, <2>4 DEF OS!SetActiveOrg, OS!LoadTransferMembers,
       OS!LoadExtractionProfile, OS!LoadRecallRateLimit, OS!LoadChainConfig, OS!LoadServing,
       OS!AskOrClear
<1>2. ASSUME NEW r \in requests, OS!ReadEnds(r) PROVE OS!TypeOK'
  BY <1>2 DEF OS!ReadEnds
<1>3. CASE OS!OpenEditor \/ OS!CancelEditor
  <2>1. UNCHANGED <<form, activeOrg, visit, requests, loading, error, holds, late, dismissed,
                    saving>>
    BY <1>3 DEF OS!OpenEditor, OS!CancelEditor
  <2>2. CASE OS!OpenServingEditor
    <3>1. (loading \/ error \/ late) \in BOOLEAN
      OBVIOUS
    <3>2. editor' \in [open : BOOLEAN, org : UserOrgs \cup {NoOrg}, visit : 0..MaxSwitches,
                       doubt : BOOLEAN]
      BY <2>2, <3>1 DEF OS!OpenServingEditor
    <3> QED BY <2>1, <3>2
  <2>3. CASE OS!OpenDialog
    BY <1>n, <2>1, <2>3 DEF OS!OpenDialog
  <2>4. CASE OS!CancelEditor
    BY <1>n, <2>1, <2>4 DEF OS!CancelEditor
  <2> QED BY <1>3, <2>2, <2>3, <2>4 DEF OS!OpenEditor
<1>4. CASE OS!SelectExtractionPreset \/ OS!Save
  BY <1>4 DEF OS!SelectExtractionPreset, OS!Save
<1>5. CASE OS!SaveEnds
  BY <1>5, <1>n DEF OS!SaveEnds, OS!TransferEnds, OS!ServingEnds, OS!ChainConfigEnds,
     OS!RecallRateLimitEnds, OS!ExtractionProfileEnds, OS!PutInForm
<1>6. CASE UNCHANGED ofOS
  BY <1>6 DEF ofOS
<1> QED BY <1>1, <1>2, <1>3, <1>4, <1>5, <1>6 DEF OS!Next

\* They hold before an organisation is chosen.
LEMMA InitTypeLI == LI!Init => LI!TypeOK
<1> SUFFICES ASSUME LI!Init PROVE LI!TypeOK
  OBVIOUS
<1>1. MaxSwitches \in Nat /\ MaxReads \in Nat
  BY BoundsAssumption
<1>2. LI!Cardinality(acting) = 0
  BY FS_EmptySet DEF LI!Init, LI!Cardinality, Cardinality
<1>3. /\ switches \in 0..MaxSwitches /\ reads \in [Leads -> 0..MaxReads]
  BY <1>1 DEF LI!Init
<1>4. /\ waiting \in BOOLEAN /\ strayed \in BOOLEAN /\ kept \in BOOLEAN
      /\ unread \in BOOLEAN /\ staged \in BOOLEAN /\ connected \in BOOLEAN
  BY DEF LI!Init
<1>5. /\ page \in {"members", "joins", "reports", "review", "billing"} /\ current = NoOrg
      /\ rows = NoOrg /\ dialog = "none" /\ acting = {} /\ identifying = {}
  BY DEF LI!Init
<1> QED BY <1>2, <1>3, <1>4, <1>5 DEF LI!TypeOK, LI!OrgIds

\* Every step of a list page keeps its types.
LEMMA NextTypeLI == LI!TypeOK /\ [LI!Next]_ofLI => LI!TypeOK'
<1> SUFFICES ASSUME LI!TypeOK, [LI!Next]_ofLI PROVE LI!TypeOK'
  OBVIOUS
<1> USE DEF LI!TypeOK, LI!OrgIds, LI!shownRows, LI!asked
<1>n. MaxSwitches \in Nat /\ MaxReads \in Nat
  BY BoundsAssumption
<1>b. ASSUME NEW o, LI!Begin(o)
      PROVE  reads' \in [Leads -> 0..MaxReads] /\ waiting' = TRUE
  <2>1. CASE o \in Leads
    BY <1>b, <1>n, <2>1 DEF LI!Begin
  <2>2. CASE o \notin Leads
    <3>1. reads' = reads
      BY <1>b, <2>2 DEF LI!Begin
    <3> QED BY <1>b, <3>1 DEF LI!Begin
  <2> QED BY <2>1, <2>2
<1>l. ASSUME NEW o, LI!Load(o)
      PROVE  reads' \in [Leads -> 0..MaxReads] /\ waiting' = TRUE
  BY <1>b, <1>l DEF LI!Load, LI!RefreshMembers, LI!LoadRequests, LI!RefreshReports,
     LI!LoadQueue, LI!LoadFinances
<1>1. ASSUME NEW o \in Leads \cup {NoOrg}, LI!SetActiveOrg(o) PROVE LI!TypeOK'
  <2>1. /\ current' = o /\ switches' \in 0..MaxSwitches /\ unread' \in BOOLEAN
        /\ strayed' = FALSE /\ kept' = FALSE
        /\ UNCHANGED <<page, rows, staged, dialog, acting, connected>>
    BY <1>1, <1>n DEF LI!SetActiveOrg
  <2>2. /\ identifying' \subseteq Leads /\ waiting' \in BOOLEAN
        /\ reads' \in [Leads -> 0..MaxReads]
    BY <1>1, <1>l DEF LI!SetActiveOrg, LI!MembersEffect, LI!ReviewEffect, LI!ListEffect
  <2> QED BY <2>1, <2>2
<1>2. ASSUME NEW o \in Leads, LI!Identified(o) \/ LI!Answer(o) PROVE LI!TypeOK'
  <2>1. CASE LI!Identified(o)
    BY <1>b, <2>1 DEF LI!Identified, LI!RefreshMembers
  <2>2. CASE LI!Answer(o)
    <3>1. reads' \in [Leads -> 0..MaxReads]
      BY <1>n, <2>2 DEF LI!Answer
    <3> QED BY <2>2, <3>1 DEF LI!Answer
  <2> QED BY <1>2, <2>1, <2>2
<1>3. CASE LI!Reread \/ LI!Connect \/ LI!Disconnect
  BY <1>3, <1>b DEF LI!Reread, LI!Connect, LI!Disconnect, LI!LoadRequests, LI!RefreshReports,
     LI!LoadQueue
<1>4. CASE LI!ToggleStagedCapability \/ LI!Dialog
  BY <1>4 DEF LI!ToggleStagedCapability, LI!Dialog, LI!AskRemove, LI!AskClose, LI!CancelDialog
<1>5. ASSUME NEW a \in LI!Actions, LI!Act(a) PROVE LI!TypeOK'
  <2>1. current \in Leads
    BY <1>5 DEF LI!Act, LI!May, LI!Invite, LI!Remove, LI!ApproveCapabilities, LI!SetRecall,
       LI!CloseOrg, LI!AnswerReport, LI!Vote, LI!TopUp, LI!Actionable, LI!Leader
  <2>2. acting' \subseteq LI!Actions \X Leads /\ LI!Cardinality(acting') <= 1
    <3>1. acting' = {<<a, current>>} /\ LI!Cardinality(acting') = 1
      BY <1>5, FS_Singleton DEF LI!Act, LI!Cardinality, Cardinality
    <3> QED BY <2>1, <3>1
  <2> QED BY <1>5, <2>2 DEF LI!Act
<1>6. ASSUME NEW a \in LI!Actions, NEW o \in Leads, LI!ActionEnds(a, o) PROVE LI!TypeOK'
  <2>1. acting' = {} /\ LI!Cardinality(acting') <= 1
    <3>1. acting' = {} /\ LI!Cardinality(acting') = 0
      BY <1>6, FS_EmptySet DEF LI!ActionEnds, LI!Cardinality, Cardinality
    <3> QED BY <3>1
  <2>2. CASE LI!Succeeded(a, o)
    BY <1>6, <1>l, <2>1, <2>2 DEF LI!ActionEnds, LI!Succeeded
  <2>3. CASE LI!Failed
    BY <1>6, <2>1, <2>3 DEF LI!ActionEnds, LI!Failed
  <2> QED BY <1>6, <2>2, <2>3 DEF LI!ActionEnds
<1>7. CASE UNCHANGED ofLI
  BY <1>7 DEF ofLI
<1> QED BY <1>1, <1>2, <1>3, <1>4, <1>5, <1>6, <1>7 DEF LI!Next
=============================================================================
