---------------------------- MODULE ChainWatcher ----------------------------
(***************************************************************************)
(* How the hub follows the chain: ChainWatcher.Start reads a restart-safe  *)
(* cursor, backfills from it with catchUp, subscribes to new blocks and    *)
(* runs the bookkeeping of each block it is handed, after which it stores  *)
(* the block's height as the new cursor.  Blocks are their heights; what   *)
(* the bookkeeping of a block does is the business of other modules, here  *)
(* we count how often it ran.                                              *)
(*                                                                         *)
(* Sources: internal/chain/watcher.go, internal/chain/                     *)
(* cometbft_subscriber.go, cmd/wevibe-hub/main.go.                         *)
(***************************************************************************)
EXTENDS Naturals, Sequences, FiniteSets

CONSTANTS
  MaxHeight,      \* bound: the chain stops there
  InitialCursors, \* the cursors a hub may start with: 0 on a fresh database
  StreamCap,      \* capacity of the event channel the RPC client hands out
  FaultKinds,     \* "cursor", "rpc", "save", "block", "close", "lost", "crash"
  MaxFaults       \* bound: how many faults happen

ASSUME ConstantsAssumption ==
  /\ InitialCursors \subseteq {0, 1}
  /\ MaxHeight \in Nat \ {0} /\ StreamCap \in Nat \ {0} /\ MaxFaults \in Nat

VARIABLES
  height,         \* the chain's latest block
  cursor,         \* watcher_state.last_seen_block_height
  mode,           \* where Start is
  step,           \* within a block: "fetch", "bookkeep" or "save"
  next, target,   \* catchUp's loop variable and its bound
  cur,            \* the block in processBlock
  subscribed,     \* the node publishes NewBlock events to this watcher
  stream,         \* events published and not received yet
  ran,            \* height -> how many times the block's bookkeeping ran
  blind,          \* history: blocks this watcher was in no position to see
  faults          \* history: the faults so far

chainVars == <<height, subscribed, stream>>
loopVars == <<next, target, cur>>
vars == <<chainVars, loopVars, cursor, mode, step, ran, blind, faults>>

Heights == 1..MaxHeight
Modes == {"down", "status", "catchUp", "subscribe", "live", "reconnect", "exited"}

TypeOK ==
  /\ height \in 0..MaxHeight /\ cursor \in 0..MaxHeight
  /\ mode \in Modes /\ step \in {"fetch", "bookkeep", "save"}
  /\ next \in 0..MaxHeight + 1 /\ target \in 0..MaxHeight /\ cur \in 0..MaxHeight
  /\ subscribed \in BOOLEAN /\ stream \in Seq(Heights)
  /\ ran \in [Heights -> Nat] /\ blind \subseteq Heights /\ faults \in Seq(FaultKinds)

\* A hub that is down, on a fresh database or with a cursor, beside a chain
\* that has its first block.
Init ==
  /\ height = 1 /\ cursor \in InitialCursors /\ mode = "down" /\ step = "fetch"
  /\ next = 0 /\ target = 0 /\ cur = 0
  /\ subscribed = FALSE /\ stream = <<>>
  /\ ran = [h \in Heights |-> IF h <= cursor THEN 1 ELSE 0]
  /\ blind = {} /\ faults = <<>>

Fault(kind) ==
  /\ kind \in FaultKinds /\ Len(faults) < MaxFaults
  /\ faults' = Append(faults, kind)

Behind == cursor + 1 .. height

\* Blocks that are neither done nor waiting in the stream.
Unreachable == {h \in Behind : ran[h] = 0 /\ \A i \in 1..Len(stream) : stream[i] # h}

(***************************************************************************)
(* The chain and the RPC client's event channel.  The client drops an      *)
(* event that finds the channel full, or the socket being reopened.        *)
(***************************************************************************)
\* A block made now will be backfilled if Status has yet to be asked.
BackfillAhead == cursor > 0 /\ mode \in {"down", "status"}

NewBlock ==
  /\ height < MaxHeight
  /\ height' = height + 1
  /\ IF subscribed /\ Len(stream) < StreamCap
     THEN stream' = Append(stream, height + 1) /\ UNCHANGED blind
     ELSE /\ UNCHANGED stream
          /\ blind' = IF BackfillAhead THEN blind ELSE blind \cup {height + 1}
  /\ UNCHANGED <<subscribed, loopVars, cursor, mode, step, ran, faults>>

EventLost ==
  /\ height < MaxHeight /\ subscribed /\ Fault("lost")
  /\ height' = height + 1 /\ blind' = blind \cup {height + 1}
  /\ UNCHANGED <<subscribed, stream, loopVars, cursor, mode, step, ran>>

Close ==
  /\ subscribed /\ Fault("close")
  /\ subscribed' = FALSE
  /\ UNCHANGED <<height, stream, loopVars, cursor, mode, step, ran, blind>>

(***************************************************************************)
(* Start.                                                                  *)
(***************************************************************************)
\* Variation: the cursor is read and not used.
StartWithoutCatchUp ==
  /\ mode = "down"
  /\ mode' = "subscribe"
  /\ UNCHANGED <<chainVars, loopVars, cursor, step, ran, blind, faults>>

\* With cursor 0 there is nothing to resume from: straight to subscribe.
Start ==
  /\ mode = "down"
  /\ mode' = IF cursor > 0 THEN "status" ELSE "subscribe"
  /\ blind' = IF cursor > 0 THEN blind ELSE blind \cup Unreachable
  /\ UNCHANGED <<chainVars, loopVars, cursor, step, ran, faults>>

\* getLastSeenBlock fails: "starting from 0", which is to say with no catchUp.
StartWithoutCursor ==
  /\ mode = "down" /\ Fault("cursor")
  /\ mode' = "subscribe" /\ blind' = blind \cup Unreachable
  /\ UNCHANGED <<chainVars, loopVars, cursor, step, ran>>

\* Variation: the latest block itself is left to the subscription.
StatusButLatest ==
  /\ mode = "status"
  /\ next' = cursor + 1 /\ target' = height - 1
  /\ mode' = IF height - 1 <= cursor THEN "subscribe" ELSE "catchUp"
  /\ UNCHANGED <<chainVars, cur, cursor, step, ran, blind, faults>>

\* Variation: the backfill begins with the block of the cursor.
StatusFromCursor ==
  /\ mode = "status"
  /\ next' = cursor /\ target' = height
  /\ mode' = IF height <= cursor THEN "subscribe" ELSE "catchUp"
  /\ UNCHANGED <<chainVars, cur, cursor, step, ran, blind, faults>>

Status ==
  /\ mode = "status"
  /\ next' = cursor + 1 /\ target' = height
  /\ mode' = IF height <= cursor THEN "subscribe" ELSE "catchUp"
  /\ UNCHANGED <<chainVars, cur, cursor, step, ran, blind, faults>>

\* catchUp returns an error; Start logs it and goes on to subscribe.
GiveUpCatchUp ==
  /\ mode' = "subscribe" /\ step' = "fetch"
  /\ blind' = blind \cup Unreachable

\* Status, Block or BlockResults fails, or the block is malformed.
CatchUpFails ==
  /\ mode = "status" \/ (mode = "catchUp" /\ step = "fetch" /\ next <= target)
  /\ Fault("rpc") /\ GiveUpCatchUp
  /\ UNCHANGED <<chainVars, loopVars, cursor, ran>>

\* Variation: one block past the height Status reported.
FetchOneMore ==
  /\ mode = "catchUp" /\ step = "fetch" /\ next <= target + 1
  /\ cur' = next /\ next' = next + 1 /\ step' = "bookkeep"
  /\ UNCHANGED <<chainVars, target, cursor, mode, ran, blind, faults>>

FetchBlock ==
  /\ mode = "catchUp" /\ step = "fetch" /\ next <= target
  /\ cur' = next /\ next' = next + 1 /\ step' = "bookkeep"
  /\ UNCHANGED <<chainVars, target, cursor, mode, ran, blind, faults>>

CaughtUp ==
  /\ mode = "catchUp" /\ step = "fetch" /\ next > target
  /\ mode' = "subscribe"
  /\ UNCHANGED <<chainVars, loopVars, cursor, step, ran, blind, faults>>

Subscribe ==
  /\ mode = "subscribe"
  /\ mode' = "live" /\ subscribed' = TRUE /\ stream' = <<>>
  /\ UNCHANGED <<height, loopVars, cursor, step, ran, blind, faults>>

\* ensureSubscriber, Subscribe or the tenth reconnect attempt fails: Start
\* returns, main logs it, and the hub serves on without a watcher.
Exit ==
  /\ mode \in {"down", "subscribe", "reconnect"} /\ Fault("rpc")
  /\ mode' = "exited" /\ blind' = blind \cup Unreachable
  /\ UNCHANGED <<chainVars, loopVars, cursor, step, ran>>

\* Variation: the newest event first.
ReceiveNewest ==
  /\ mode = "live" /\ step = "fetch" /\ stream # <<>>
  /\ cur' = stream[Len(stream)] /\ stream' = SubSeq(stream, 1, Len(stream) - 1)
  /\ step' = "bookkeep"
  /\ UNCHANGED <<height, subscribed, next, target, cursor, mode, ran, blind, faults>>

Receive ==
  /\ mode = "live" /\ step = "fetch" /\ stream # <<>>
  /\ cur' = Head(stream) /\ stream' = Tail(stream) /\ step' = "bookkeep"
  /\ UNCHANGED <<height, subscribed, next, target, cursor, mode, ran, blind, faults>>

\* The channel is closed and drained.
ChannelClosed ==
  /\ mode = "live" /\ step = "fetch" /\ stream = <<>> /\ ~ subscribed
  /\ mode' = "reconnect"
  /\ UNCHANGED <<chainVars, loopVars, cursor, step, ran, blind, faults>>

\* A fresh client, and a subscription from here on: there is no catchUp.
Reconnect ==
  /\ mode = "reconnect"
  /\ mode' = "subscribe"
  /\ UNCHANGED <<chainVars, loopVars, cursor, step, ran, blind, faults>>

(***************************************************************************)
(* processBlock: the bookkeeping of every transaction, errors logged, then *)
(* the cursor.                                                             *)
(***************************************************************************)
Bookkeep ==
  /\ step = "bookkeep"
  /\ ran' = [ran EXCEPT ![cur] = @ + 1]
  /\ step' = "save"
  /\ UNCHANGED <<chainVars, loopVars, cursor, mode, blind, faults>>

\* A nil block or results that do not match its transactions: no bookkeeping
\* and no cursor.  catchUp gives up on it, the live loop moves on.
BadBlock ==
  /\ step = "bookkeep" /\ Fault("block")
  /\ IF mode = "catchUp" THEN GiveUpCatchUp
     ELSE step' = "fetch" /\ blind' = blind \cup {cur} /\ UNCHANGED mode
  /\ UNCHANGED <<chainVars, loopVars, cursor, ran>>

SaveCursor ==
  /\ step = "save"
  /\ cursor' = cur /\ step' = "fetch"
  /\ UNCHANGED <<chainVars, loopVars, mode, ran, blind, faults>>

SaveFails ==
  /\ step = "save" /\ Fault("save")
  /\ IF mode = "catchUp" THEN GiveUpCatchUp
     ELSE step' = "fetch" /\ UNCHANGED <<mode, blind>>
  /\ UNCHANGED <<chainVars, loopVars, cursor, ran>>

\* The process dies; a supervisor starts it again (Start).  What was only in
\* the channel is gone, but not for a watcher that has a cursor to resume from.
Crash ==
  /\ mode # "down" /\ Fault("crash")
  /\ mode' = "down" /\ step' = "fetch"
  /\ subscribed' = FALSE /\ stream' = <<>>
  /\ UNCHANGED <<height, loopVars, cursor, ran, blind>>

-----------------------------------------------------------------------------
WatcherStep ==
  \/ Start \/ Status \/ FetchBlock \/ CaughtUp \/ Subscribe
  \/ Receive \/ ChannelClosed \/ Reconnect \/ Bookkeep \/ SaveCursor

Next ==
  \/ WatcherStep \/ NewBlock
  \/ EventLost \/ Close \/ StartWithoutCursor \/ CatchUpFails \/ Exit
  \/ BadBlock \/ SaveFails \/ Crash

\* The watcher's goroutine keeps running and a dead hub is started again; the
\* chain may stop making blocks.
Spec == Init /\ [][Next]_vars
FairSpec == Spec /\ WF_vars(WatcherStep)

-----------------------------------------------------------------------------
(***************************************************************************)
(* Properties.                                                             *)
(***************************************************************************)
\* Every block the cursor has passed was processed, or it is one the watcher
\* was blind to: made between catchUp's Status and the subscription, during a
\* reconnect, dropped by the event channel, or left behind by an error.  No
\* crash and no failed UPDATE adds to these.
LossesAreKnown == \A h \in 1..cursor : ran[h] > 0 \/ h \in blind

\* Every block processed again is paid for by a crash or a failed UPDATE of
\* its own: catchUp and the subscription that follows it never overlap, and
\* the cursor follows every single block.
Interruptions == {i \in 1..Len(faults) : faults[i] \in {"crash", "save"}}
RepeatsAreInterruptions ==
  Cardinality({h \in Heights : ran[h] > 1}) <= Cardinality(Interruptions)

\* The cursor never goes back, whichever mix of backfill, live events,
\* reconnects and restarts writes it.
CursorMonotone == [][cursor' >= cursor]_vars

\* Every block is processed in the end, except those the watcher was blind to
\* and unless it has exited for good.
BlocksAreProcessed ==
  \A h \in Heights : height >= h ~> ran[h] > 0 \/ h \in blind \/ mode = "exited"

\* docs/TOPOLOGY.md, catchUp Mechanism: "ensuring missed blocks between
\* shutdown and restart are backfilled"; db/schema.sql: "Restart-safe cursor".
MissedBlocksAreBackfilled == \A h \in 1..cursor : ran[h] > 0
=============================================================================
