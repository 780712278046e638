------------------------------ MODULE Identity ------------------------------
(***************************************************************************)
(* The dashboard identity in the tabs of one browser (lib/wevibe-auth.ts,  *)
(* lib/identity-context.tsx, components/onboarding).  The record of the    *)
(* identity, its seed wrapped by a wallet signature or by a passkey, is in *)
(* IndexedDB and shared by the tabs; each tab keeps the open seed in       *)
(* memory and in its sessionStorage.  An identity is minted, adopted from  *)
(* the local MCP server, or fetched from the hub, which keeps the wrapped  *)
(* seeds.  A passkey is named by the key it was made for.                  *)
(***************************************************************************)
EXTENDS Naturals, FiniteSets

CONSTANTS Tabs,      \* tabs of the browser
          Wallets,   \* accounts of the wallet extension
          Passkey,   \* in the place of a wallet: the seed is wrapped by a passkey
          NoWallet,  \* no wallet address is stored, or none is active
          MaxKeys,   \* bound: keys, the MCP server's (1) included
          MaxSignIns \* bound: identities installed in this browser

VARIABLES
  record,     \* the stored identity: key, what wraps its seed, wallet address; key 0 for none
  keys,       \* the keys made so far
  blobs,      \* the hub's wrapped seeds: key and what wraps it
  mcpKey,     \* the MCP server's key, 0 if it has none
  known,      \* the tabs that show an identity
  memory,     \* the seed each tab has open, 0 for none
  session,    \* the seed in each tab's sessionStorage
  unlocking,  \* the record each tab is waiting to open with a prompt
  editing,    \* the record a tab has read to write another wallet address into it
  signIns     \* the identities installed so far

vars == <<record, keys, blobs, mcpKey, known, memory, session, unlocking, editing, signIns>>

None == 0
NoRecord == [key |-> None, by |-> NoWallet, address |-> NoWallet]

\* The browser has no identity, or one that was signed in with before, whose seed the hub holds.
Init ==
  /\ keys = 1 /\ mcpKey \in {None, 1}
  /\ \/ record = NoRecord /\ blobs = {}
     \/ \E w \in Wallets \cup {Passkey} :
          /\ record = [key |-> 1, by |-> w, address |-> IF w = Passkey THEN NoWallet ELSE w]
          /\ blobs = {[key |-> 1, by |-> w]}
  /\ known = {}
  /\ memory = [t \in Tabs |-> None] /\ session = [t \in Tabs |-> None]
  /\ unlocking = [t \in Tabs |-> NoRecord]
  /\ editing = NoRecord /\ signIns = 0

\* loadIdentityRecord takes the record of a wallet for none if it lacks the address.
Readable(r) == r.key # None /\ (r.by # Passkey => r.address # NoWallet)

(***************************************************************************)
(* A seed comes into a tab.                                                *)
(***************************************************************************)
\* The new record replaces the old one, the tab drops the seed it had and takes the new.
Install(t, r) ==
  /\ signIns < MaxSignIns /\ signIns' = signIns + 1
  /\ record' = r
  /\ memory' = [memory EXCEPT ![t] = r.key] /\ session' = [session EXCEPT ![t] = None]

\* loadSeedFromSession is asked for the record's key.
\* Variation: whatever seed the session holds is taken.
AnyCachedSeed(t) == session[t] # None

CachedSeed(t) == session[t] = record.key

\* Signing needs the seed: the session's, or the one a wallet or passkey prompt opens.
UnlockIdentity(t) ==
  /\ t \in known /\ Readable(record) /\ memory[t] = None /\ unlocking[t] = NoRecord
  /\ IF CachedSeed(t)
     THEN memory' = [memory EXCEPT ![t] = session[t]] /\ UNCHANGED unlocking
     ELSE unlocking' = [unlocking EXCEPT ![t] = record] /\ UNCHANGED memory
  /\ UNCHANGED <<record, keys, blobs, mcpKey, known, session, editing, signIns>>

\* The wallet the record names has to be the one that wrapped the seed.
Opens(r) == r.by \in {Passkey, r.address}

FinishUnlock(t) ==
  /\ unlocking[t] # NoRecord
  /\ \/ /\ Opens(unlocking[t])
        /\ memory' = [memory EXCEPT ![t] = unlocking[t].key]
        /\ session' = [session EXCEPT ![t] = unlocking[t].key]
     \/ UNCHANGED <<memory, session>>
  /\ unlocking' = [unlocking EXCEPT ![t] = NoRecord]
  /\ UNCHANGED <<record, keys, blobs, mcpKey, known, editing, signIns>>

(***************************************************************************)
(* Signing in.  The card is shown to a tab that sees no identity.  A       *)
(* sign-in that stops half-way leaves nothing behind; one that succeeds    *)
(* does so in the step that installs the record.                           *)
(***************************************************************************)
\* adoptImportedSeed and createGuestIdentity: wrap the seed, install it and send it to the
\* hub, which checks a signature of the new key; a failed upload is only logged.  A passkey
\* record keeps the wallet address that was stored.
Adopt(t, key, w) ==
  LET kept == IF Readable(record) THEN record.address ELSE NoWallet
  IN  /\ Install(t, [key |-> key, by |-> w, address |-> IF w = Passkey THEN kept ELSE w])
      /\ blobs' \in {blobs, blobs \cup {[key |-> key, by |-> w]}}
      /\ UNCHANGED <<mcpKey, known, unlocking, editing>>

\* The hub's blob is installed as it is.
Fetch(t, b) ==
  /\ b \in blobs
  /\ Install(t, [key |-> b.key, by |-> b.by,
                 address |-> IF b.by = Passkey THEN NoWallet ELSE b.by])
  /\ UNCHANGED <<keys, blobs, mcpKey, known, unlocking, editing>>

CreateGuestIdentity(t, w) == keys < MaxKeys /\ keys' = keys + 1 /\ Adopt(t, keys', w)

\* The MCP server seals its seed in a pairing code that the tab opens.
AdoptIdentityFromLocalMcp(t, w) == mcpKey # None /\ Adopt(t, mcpKey, w) /\ UNCHANGED keys

AdoptIdentityFromPasskey(t) == \E b \in blobs : b.by = Passkey /\ Fetch(t, b)

ImportIdentityFromPhrase(t) == \E k \in 1..keys : Adopt(t, k, Passkey) /\ UNCHANGED keys

\* The passkey card has a button for each.
PasskeySignIn(t) ==
  /\ t \notin known
  /\ \/ CreateGuestIdentity(t, Passkey) \/ AdoptIdentityFromLocalMcp(t, Passkey)
     \/ AdoptIdentityFromPasskey(t) \/ ImportIdentityFromPhrase(t)

\* The wallet card tries the MCP server, and whatever goes wrong there, the hub; the wallet
\* signs, or the user refuses; no blob, or no answer of the hub, leads to a new identity.
AdoptIdentityFromWallet(t, w) == \E b \in blobs : b.by = w /\ Fetch(t, b)

WalletSignIn(t, w) ==
  /\ t \notin known
  /\ AdoptIdentityFromLocalMcp(t, w) \/ AdoptIdentityFromWallet(t, w) \/ CreateGuestIdentity(t, w)

\* The identity context reads the record again.
Refresh(t) ==
  /\ known' = IF Readable(record) THEN known \cup {t} ELSE known \ {t}
  /\ UNCHANGED <<record, keys, blobs, mcpKey, memory, session, unlocking, editing, signIns>>

(***************************************************************************)
(* The wallet address, the reset and the tab.                              *)
(***************************************************************************)
\* Connect, Disconnect and a change of the extension's account write the address into the
\* record, whatever wraps its seed.  The record is read in one transaction and written in
\* another: what another tab has stored in between is replaced.  (Of such writes one at a
\* time is followed, of whatever tab.)
ReadForAddress(t) ==
  /\ t \in known /\ Readable(record) /\ editing = NoRecord
  /\ editing' = record
  /\ UNCHANGED <<record, keys, blobs, mcpKey, known, memory, session, unlocking, signIns>>

SetWalletAddress ==
  /\ editing # NoRecord /\ editing' = NoRecord
  /\ \E w \in Wallets \cup {NoWallet} : record' = [editing EXCEPT !.address = w]
  /\ UNCHANGED <<keys, blobs, mcpKey, known, memory, session, unlocking, signIns>>

\* Reset identity, offered by the message that the wallet does not open the identity.
ClearIdentity(t) ==
  /\ t \notin known
  /\ record' = NoRecord
  /\ memory' = [memory EXCEPT ![t] = None] /\ session' = [session EXCEPT ![t] = None]
  /\ UNCHANGED <<keys, blobs, mcpKey, known, unlocking, editing, signIns>>

\* A reload keeps the session's storage, a tab opened anew has none.
Reload(t) ==
  /\ memory' = [memory EXCEPT ![t] = None]
  /\ session' \in {session, [session EXCEPT ![t] = None]}
  /\ unlocking' = [unlocking EXCEPT ![t] = NoRecord]
  /\ editing' \in {editing, NoRecord}
  /\ known' = known \ {t}
  /\ UNCHANGED <<record, keys, blobs, mcpKey, signIns>>

\* The MCP server makes its identity.
McpIdentity ==
  /\ mcpKey = None /\ mcpKey' = 1
  /\ UNCHANGED <<record, keys, blobs, known, memory, session, unlocking, editing, signIns>>

Next ==
  \/ McpIdentity \/ SetWalletAddress
  \/ \E t \in Tabs :
       \/ UnlockIdentity(t) \/ FinishUnlock(t) \/ PasskeySignIn(t) \/ Refresh(t)
       \/ \E w \in Wallets : WalletSignIn(t, w)
       \/ ReadForAddress(t) \/ ClearIdentity(t) \/ Reload(t)

Spec == Init /\ [][Next]_vars

(***************************************************************************)
(* Properties.                                                             *)
(***************************************************************************)
KeyIds == 0..MaxKeys
Wrappers == Wallets \cup {Passkey, NoWallet}
Records == [key : KeyIds, by : Wrappers, address : Wallets \cup {NoWallet}]

TypeOK ==
  /\ record \in Records /\ keys \in 1..MaxKeys /\ mcpKey \in KeyIds
  /\ blobs \subseteq [key : KeyIds, by : Wrappers] /\ known \subseteq Tabs
  /\ memory \in [Tabs -> KeyIds] /\ session \in [Tabs -> KeyIds]
  /\ unlocking \in [Tabs -> Records] /\ editing \in Records
  /\ signIns \in 0..MaxSignIns

\* A seed a tab takes into memory, from a prompt, from its session or by signing in, is the
\* one of the stored record, under whose public key it will sign; only a record replaced
\* while the prompt was open, by another tab, leaves it with the seed of the one it read.
TakesTheStoredSeed ==
  [][\A t \in Tabs :
       memory'[t] \notin {None, memory[t]} =>
          \/ memory'[t] = record'.key
          \/ unlocking[t] # NoRecord /\ memory'[t] = unlocking[t].key]_vars
=============================================================================
