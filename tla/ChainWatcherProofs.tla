------------------------- MODULE ChainWatcherProofs -------------------------
(***************************************************************************)
(* Proofs about ChainWatcher, for every chain length, stream capacity and  *)
(* set of faults.  The inductive invariant says where each block between   *)
(* the cursor and the chain's height is (Covered), that the stream holds   *)
(* growing heights above the cursor and the block in hand (InOrder), and   *)
(* what each program location knows (Located).                             *)
(***************************************************************************)
EXTENDS ChainWatcher, FiniteSetTheorems, TLAPS

\* The chain's heights bound the watcher's, and each location knows its loop.
Located ==
  /\ cursor <= height /\ target <= height
  /\ stream # <<>> \/ subscribed => mode = "live"
  /\ step # "fetch" => /\ mode \in {"catchUp", "live"}
                       /\ cursor < cur /\ cur <= height
  /\ step = "save" => ran[cur] > 0
  /\ mode = "catchUp" => IF step = "fetch" THEN next = cursor + 1
                         ELSE next = cur + 1 /\ cur = cursor + 1 /\ cur <= target

\* Events come in the order of their blocks, above whatever is done.
InOrder ==
  \A i \in 1..Len(stream) :
    /\ cursor < stream[i] /\ stream[i] <= height
    /\ step # "fetch" => cur < stream[i]
    /\ \A j \in 1..i - 1 : stream[j] < stream[i]

InStream(h) == \E i \in 1..Len(stream) : stream[i] = h
Accounted(h) == ran[h] > 0 \/ h \in blind

\* No block between the cursor and the chain is forgotten.
Covered ==
  mode \notin {"down", "status"} =>
    \A h \in cursor + 1..height :
      \/ Accounted(h) \/ InStream(h)
      \/ step # "fetch" /\ h = cur
      \/ mode = "catchUp" /\ h \in next..target

IInv == TypeOK /\ Located /\ InOrder /\ Covered /\ LossesAreKnown

\* The empty stream is a sequence.
LEMMA Empty == ASSUME NEW S PROVE <<>> \in Seq(S)
OBVIOUS

\* Heights above a natural number are natural numbers.
LEMMA AboveIsNat == \A a \in Nat : \A b \in Nat : \A i \in a + 1..b : i \in Nat
OBVIOUS

\* A recorded fault keeps the type of faults.
LEMMA FaultType ==
  ASSUME TypeOK, NEW kind, Fault(kind) PROVE faults' \in Seq(FaultKinds)
BY DEF TypeOK, Fault

\* The blocks that this watcher cannot see are heights.
LEMMA UnreachableType == ASSUME TypeOK PROVE Unreachable \subseteq Heights
BY ConstantsAssumption DEF TypeOK, Unreachable, Behind, Heights

\* Start finds nothing lost: the invariant holds at first.
LEMMA InitIInv == Init => IInv
<1> SUFFICES ASSUME Init PROVE IInv
  OBVIOUS
<1>1. MaxHeight \in Nat \ {0} /\ cursor \in {0, 1}
  BY ConstantsAssumption DEF Init
<1>2. TypeOK
  <2>1. ran \in [Heights -> Nat]
    BY <1>1 DEF Init, Heights
  <2>2. stream \in Seq(Heights) /\ faults \in Seq(FaultKinds)
    BY Empty DEF Init
  <2>3. cursor \in 0..MaxHeight /\ height \in 0..MaxHeight
    BY <1>1 DEF Init
  <2>4. next \in 0..MaxHeight + 1 /\ target \in 0..MaxHeight /\ cur \in 0..MaxHeight
    BY <1>1 DEF Init
  <2>5. mode \in Modes /\ step \in {"fetch", "bookkeep", "save"}
        /\ subscribed \in BOOLEAN /\ blind \subseteq Heights
    BY DEF Init, Modes
  <2> QED BY <2>1, <2>2, <2>3, <2>4, <2>5 DEF TypeOK
<1>3. Located /\ InOrder /\ Covered
  BY <1>1 DEF Init, Located, InOrder, Covered
<1>4. LossesAreKnown
  BY <1>1 DEF Init, LossesAreKnown, Heights
<1> QED BY <1>2, <1>3, <1>4 DEF IInv

\* Every step of Start, catchUp, processBlock and the chain keeps the types.
LEMMA TypeStep == TypeOK /\ Located /\ [Next]_vars => TypeOK'
<1> SUFFICES ASSUME TypeOK, Located, [Next]_vars PROVE TypeOK'
  OBVIOUS
<1> USE ConstantsAssumption, Empty DEF TypeOK, Heights, Modes
<1>0. Unreachable \subseteq 1..MaxHeight
  BY UnreachableType
<1>1. CASE UNCHANGED vars
  BY <1>1 DEF vars, chainVars, loopVars
<1>2. CASE Start
  BY <1>0, <1>2 DEF Start, chainVars, loopVars
<1>3. CASE Status
  BY <1>3 DEF Status, chainVars
<1>4. CASE FetchBlock
  BY <1>4 DEF FetchBlock, chainVars
<1>5. CASE CaughtUp
  BY <1>5 DEF CaughtUp, chainVars, loopVars
<1>6. CASE Subscribe
  BY <1>6 DEF Subscribe, loopVars
<1>7. CASE Receive
  BY <1>7 DEF Receive
<1>8. CASE ChannelClosed \/ Reconnect
  BY <1>8 DEF ChannelClosed, Reconnect, chainVars, loopVars
<1>9. CASE Bookkeep
  <2>1. cur \in Heights
    BY <1>9 DEF Bookkeep, Located
  <2>2. ran' \in [Heights -> Nat]
    BY <1>9, <2>1 DEF Bookkeep
  <2> QED BY <1>9, <2>2 DEF Bookkeep, chainVars, loopVars
<1>10. CASE SaveCursor
  BY <1>10 DEF SaveCursor, chainVars, loopVars
<1>11. CASE NewBlock
  <2>0. height + 1 \in Heights
    BY <1>11 DEF NewBlock
  <2>1. stream' \in Seq(Heights)
    <3>1. CASE stream' = Append(stream, height + 1)
      <4> HIDE DEF Heights
      <4> QED BY <2>0, <3>1
    <3>2. CASE stream' = stream
      BY <3>2
    <3> QED BY <1>11, <3>1, <3>2 DEF NewBlock
  <2>2. blind' \subseteq Heights
    BY <1>11, <2>0 DEF NewBlock
  <2> QED BY <1>11, <2>1, <2>2 DEF NewBlock, loopVars
<1>12. CASE EventLost
  <2>1. faults' \in Seq(FaultKinds)
    BY <1>12, FaultType DEF EventLost
  <2> QED BY <1>0, <1>12, <2>1 DEF EventLost, loopVars
<1>13. CASE Close
  <2>1. faults' \in Seq(FaultKinds)
    BY <1>13, FaultType DEF Close
  <2> QED BY <1>0, <1>13, <2>1 DEF Close, loopVars
<1>14. CASE StartWithoutCursor
  <2>1. faults' \in Seq(FaultKinds)
    BY <1>14, FaultType DEF StartWithoutCursor
  <2> QED BY <1>0, <1>14, <2>1 DEF StartWithoutCursor, chainVars, loopVars
<1>15. CASE CatchUpFails
  <2>1. faults' \in Seq(FaultKinds)
    BY <1>15, FaultType DEF CatchUpFails
  <2> QED BY <1>0, <1>15, <2>1 DEF CatchUpFails, GiveUpCatchUp, chainVars, loopVars
<1>16. CASE Exit
  <2>1. faults' \in Seq(FaultKinds)
    BY <1>16, FaultType DEF Exit
  <2> QED BY <1>0, <1>16, <2>1 DEF Exit, chainVars, loopVars
<1>17. CASE BadBlock
  <2>1. faults' \in Seq(FaultKinds)
    BY <1>17, FaultType DEF BadBlock
  <2>2. cur \in Heights
    BY <1>17 DEF BadBlock, Located
  <2>3. blind' \subseteq Heights
    BY <1>0, <1>17, <2>2 DEF BadBlock, GiveUpCatchUp
  <2> QED BY <1>17, <2>1, <2>3 DEF BadBlock, GiveUpCatchUp, chainVars, loopVars
<1>18. CASE SaveFails
  <2>1. faults' \in Seq(FaultKinds)
    BY <1>18, FaultType DEF SaveFails
  <2> QED BY <1>0, <1>18, <2>1 DEF SaveFails, GiveUpCatchUp, chainVars, loopVars
<1>19. CASE Crash
  <2>1. faults' \in Seq(FaultKinds)
    BY <1>19, FaultType DEF Crash
  <2> QED BY <1>0, <1>19, <2>1 DEF Crash, loopVars
<1> QED
  BY <1>1, <1>2, <1>3, <1>4, <1>5, <1>6, <1>7, <1>8, <1>9, <1>10, <1>11, <1>12,
     <1>13, <1>14, <1>15, <1>16, <1>17, <1>18, <1>19 DEF Next, WatcherStep

(***************************************************************************)
(* Where the watcher is, and what the stream holds.                        *)
(***************************************************************************)
LEMMA LocatedStep == TypeOK /\ Located /\ InOrder /\ [Next]_vars => Located'
<1> SUFFICES ASSUME TypeOK, Located, InOrder, [Next]_vars PROVE Located'
  OBVIOUS
<1> USE ConstantsAssumption DEF TypeOK, Heights, Modes, Located
<1>1. CASE UNCHANGED vars
  BY <1>1 DEF vars, chainVars, loopVars
<1>2. CASE Start \/ StartWithoutCursor \/ Exit
  BY <1>2 DEF Start, StartWithoutCursor, Exit, chainVars, loopVars
<1>3. CASE Status
  BY <1>3 DEF Status, chainVars
<1>4. CASE FetchBlock
  BY <1>4 DEF FetchBlock, chainVars
<1>5. CASE CaughtUp
  BY <1>5 DEF CaughtUp, chainVars, loopVars
<1>6. CASE Subscribe
  BY <1>6 DEF Subscribe, loopVars
<1>7. CASE Receive
  <2>1. cursor < Head(stream) /\ Head(stream) <= height
    BY <1>7 DEF Receive, InOrder
  <2>2. stream' # <<>> \/ subscribed => mode = "live"
    BY <1>7 DEF Receive
  <2> QED BY <1>7, <2>1, <2>2 DEF Receive
<1>8. CASE ChannelClosed \/ Reconnect
  BY <1>8 DEF ChannelClosed, Reconnect, chainVars, loopVars
<1>9. CASE Bookkeep
  BY <1>9 DEF Bookkeep, chainVars, loopVars
<1>10. CASE SaveCursor
  BY <1>10 DEF SaveCursor, chainVars, loopVars
<1>11. CASE NewBlock
  BY <1>11 DEF NewBlock, loopVars
<1>12. CASE EventLost
  BY <1>12 DEF EventLost, loopVars
<1>13. CASE Close
  BY <1>13 DEF Close, loopVars
<1>14. CASE CatchUpFails
  BY <1>14 DEF CatchUpFails, GiveUpCatchUp, chainVars, loopVars
<1>15. CASE BadBlock
  BY <1>15 DEF BadBlock, GiveUpCatchUp, chainVars, loopVars
<1>16. CASE SaveFails
  BY <1>16 DEF SaveFails, GiveUpCatchUp, chainVars, loopVars
<1>17. CASE Crash
  BY <1>17 DEF Crash, loopVars
<1> QED
  BY <1>1, <1>2, <1>3, <1>4, <1>5, <1>6, <1>7, <1>8, <1>9, <1>10, <1>11, <1>12,
     <1>13, <1>14, <1>15, <1>16, <1>17 DEF Next, WatcherStep

\* Events are sent, taken and dropped in order.
LEMMA InOrderStep == TypeOK /\ Located /\ InOrder /\ [Next]_vars => InOrder'
<1> SUFFICES ASSUME TypeOK, Located, InOrder, [Next]_vars PROVE InOrder'
  OBVIOUS
<1> USE ConstantsAssumption DEF TypeOK, Heights, Modes, InOrder
<1>1. CASE UNCHANGED <<stream, height, cursor, cur, step>>
  BY <1>1
\* The stream is empty unless the watcher is live.
<1>2. CASE stream' = <<>>
  BY <1>2
<1>3. CASE Receive
  <2>1. Len(stream') = Len(stream) - 1 /\ cur' = stream[1]
    BY <1>3 DEF Receive
  <2>2. \A i \in 1..Len(stream') : stream'[i] = stream[i + 1]
    BY <1>3 DEF Receive
  <2>3. stream \in Seq(1..MaxHeight) /\ stream # <<>>
    BY <1>3 DEF Receive
  <2>4. cursor' = cursor /\ height' = height
    BY <1>3 DEF Receive
  <2>5. ASSUME NEW i \in 1..Len(stream')
        PROVE  /\ cursor < stream[i + 1] /\ stream[i + 1] <= height
               /\ stream[1] < stream[i + 1]
               /\ \A j \in 1..i - 1 : stream'[j] < stream[i + 1]
    <3>1. i + 1 \in 1..Len(stream) /\ 1 \in 1..i
      BY <2>1, <2>3
    <3>2. \A j \in 1..i - 1 : j + 1 \in 1..i /\ j \in 1..Len(stream')
      BY <2>1, <2>3, <3>1
    <3> QED BY <2>2, <3>1, <3>2
  <2> QED BY <2>1, <2>2, <2>4, <2>5
<1>4. CASE Bookkeep
  BY <1>4 DEF Bookkeep, chainVars, loopVars
<1>5. CASE SaveCursor
  BY <1>5 DEF SaveCursor, chainVars, loopVars
<1>6. CASE NewBlock
  <2>1. UNCHANGED <<cursor, cur, step>> /\ height' = height + 1
    BY <1>6 DEF NewBlock, loopVars
  <2>2. CASE stream' = Append(stream, height + 1)
    <3>1. /\ Len(stream') = Len(stream) + 1 /\ stream'[Len(stream) + 1] = height + 1
          /\ \A i \in 1..Len(stream) : stream'[i] = stream[i]
      <4>1. height + 1 \in Heights
        BY <1>6 DEF NewBlock
      <4> HIDE DEF Heights
      <4> QED BY <2>2, <4>1
    <3>2. Len(stream) \in Nat
      OBVIOUS
    <3> SUFFICES ASSUME NEW i \in 1..Len(stream) + 1
                 PROVE  /\ cursor < stream'[i] /\ stream'[i] <= height + 1
                        /\ step # "fetch" => cur < stream'[i]
                        /\ \A j \in 1..i - 1 : stream'[j] < stream'[i]
      BY <2>1, <3>1
    <3>3. CASE i \in 1..Len(stream)
      <4>1. \A j \in 1..i - 1 : j \in 1..Len(stream)
        BY <3>2, <3>3
      <4>2. \A j \in 1..i - 1 : stream'[j] < stream'[i]
        BY <3>1, <3>3, <4>1
      <4>3. stream'[i] <= height + 1
        <5>1. stream[i] \in Nat /\ height \in Nat /\ stream[i] <= height
          BY <3>3
        <5> QED BY <3>1, <3>3, <5>1
      <4> QED BY <3>1, <3>3, <4>2, <4>3
    <3>4. CASE i = Len(stream) + 1
      <4>1. stream'[i] = height + 1 /\ cursor <= height
        BY <3>1, <3>4 DEF Located
      <4>2. step # "fetch" => cur <= height
        BY DEF Located
      <4>3. \A j \in 1..i - 1 : stream'[j] < height + 1
        <5>1. \A j \in 1..Len(stream) : stream[j] \in Nat /\ stream[j] <= height
          <6>1. ASSUME NEW j \in 1..Len(stream)
                PROVE  stream[j] \in Heights /\ stream[j] <= height
            <7> HIDE DEF Heights, Modes
            <7> QED BY <6>1 DEF TypeOK, InOrder
          <6>2. Heights \subseteq Nat
            BY ConstantsAssumption DEF Heights
          <6> HIDE DEF TypeOK, InOrder, Heights, Modes
          <6> QED BY <6>1, <6>2
        <5>2. \A j \in 1..i - 1 : j \in 1..Len(stream)
          BY <3>2, <3>4
        <5>3. height \in Nat
          OBVIOUS
        <5> HIDE DEF TypeOK, InOrder, Heights, Modes
        <5> QED BY <3>1, <5>1, <5>2, <5>3
      <4>4. height \in Nat /\ cursor \in Nat /\ cur \in Nat
        OBVIOUS
      <4> HIDE DEF TypeOK, InOrder, Heights, Modes
      <4> QED BY <4>1, <4>2, <4>3, <4>4
    <3> QED BY <3>2, <3>3, <3>4
  <2>3. CASE stream' = stream
    BY <2>1, <2>3
  <2> QED BY <1>6, <2>2, <2>3 DEF NewBlock
<1>7. CASE EventLost \/ Close
  <2>1. UNCHANGED <<stream, cursor, cur, step>> /\ height <= height'
    BY <1>7 DEF EventLost, Close, loopVars
  <2>2. \A i \in 1..Len(stream) : stream[i] <= height'
    BY <2>1, <1>7 DEF EventLost, Close
  <2> QED BY <2>1, <2>2
<1>8. CASE CatchUpFails \/ Start \/ StartWithoutCursor \/ Exit \/ CaughtUp \/ ChannelClosed \/ Reconnect
  BY <1>8 DEF CatchUpFails, GiveUpCatchUp, Start, StartWithoutCursor, Exit, CaughtUp,
              ChannelClosed, Reconnect, chainVars, loopVars
<1>9. CASE Status \/ FetchBlock
  <2>1. stream' = <<>>
    BY <1>9 DEF Status, FetchBlock, Located, chainVars
  <2> QED BY <1>2, <2>1
<1>10. CASE BadBlock \/ SaveFails
  BY <1>10 DEF BadBlock, SaveFails, GiveUpCatchUp, chainVars, loopVars
<1>11. CASE Subscribe \/ Crash
  BY <1>11, <1>2 DEF Subscribe, Crash
<1>12. CASE UNCHANGED vars
  BY <1>12, <1>1 DEF vars, chainVars, loopVars
<1> QED
  BY <1>3, <1>4, <1>5, <1>6, <1>7, <1>8, <1>9, <1>10, <1>11, <1>12 DEF Next, WatcherStep

(***************************************************************************)
(* Where each block above the cursor is, and that none below it is lost.   *)
(***************************************************************************)
Beyond(h) ==
  \/ Accounted(h) \/ InStream(h)
  \/ step # "fetch" /\ h = cur
  \/ mode = "catchUp" /\ h \in next..target

\* Adding Unreachable to the blind blocks accounts for all that is missing.
LEMMA BlindCovers ==
  ASSUME TypeOK, blind' = blind \cup Unreachable,
         UNCHANGED <<height, cursor, ran, stream>>,
         NEW h \in cursor + 1..height
  PROVE  Beyond(h)'
<1>1. h \in Behind /\ ran[h] \in Nat
  BY ConstantsAssumption DEF TypeOK, Behind, Heights
<1>2. CASE h \in Unreachable
  BY <1>2 DEF Beyond, Accounted
<1>3. CASE h \notin Unreachable
  <2>1. ran[h] > 0 \/ InStream(h)
    BY <1>1, <1>3 DEF Unreachable, InStream
  <2> QED BY <2>1 DEF Beyond, Accounted, InStream
<1> QED BY <1>2, <1>3

\* A block stays processed, blind, streamed, in hand or ahead.
LEMMA CoveredStep == TypeOK /\ Located /\ InOrder /\ Covered /\ [Next]_vars => Covered'
<1> SUFFICES ASSUME TypeOK, Located, InOrder, Covered, [Next]_vars,
                    mode' \notin {"down", "status"}, NEW h \in cursor' + 1..height'
             PROVE  Beyond(h)'
  BY DEF Covered, Beyond
<1>0. mode \notin {"down", "status"} /\ h \in cursor + 1..height => Beyond(h)
  BY DEF Covered, Beyond
<1>1. cursor \in Nat /\ height \in Nat /\ h \in Nat /\ stream \in Seq(Heights) /\ MaxHeight \in Nat
  <2>1. TypeOK'
    BY TypeStep
  <2>2. cursor' \in Nat /\ height' \in Nat
    BY <2>1, ConstantsAssumption DEF TypeOK
  <2>3. h \in cursor' + 1..height'
    OBVIOUS
  <2>4. h \in Nat
    BY <2>2, <2>3, AboveIsNat
  <2> QED BY <2>4, ConstantsAssumption DEF TypeOK
<1> USE DEF Accounted
<1>2. CASE Start \/ StartWithoutCursor \/ Exit
  <2>1. UNCHANGED <<height, cursor, ran, stream>> /\ blind' = blind \cup Unreachable
    BY <1>2 DEF Start, StartWithoutCursor, Exit, chainVars, loopVars
  <2> QED BY <2>1, BlindCovers
<1>3. CASE Status
  <2>1. UNCHANGED <<height, cursor>> /\ next' = cursor + 1 /\ target' = height
    BY <1>3 DEF Status, chainVars
  <2>2. height > cursor /\ mode' = "catchUp"
    BY <1>1, <1>3, <2>1 DEF Status
  <2> QED BY <2>1, <2>2 DEF Beyond
<1>4. CASE FetchBlock
  <2>1. UNCHANGED <<height, cursor, ran, blind, stream, mode, target>> /\ mode = "catchUp"
        /\ step = "fetch" /\ cur' = next /\ next' = next + 1 /\ step' = "bookkeep"
    BY <1>4 DEF FetchBlock, chainVars
  <2>2. next \in Nat /\ target \in Nat
    BY DEF TypeOK
  <2> QED BY <1>0, <1>1, <2>1, <2>2 DEF Beyond, InStream
<1>5. CASE CaughtUp
  <2>1. UNCHANGED <<height, cursor, ran, blind, stream, step>> /\ mode = "catchUp"
        /\ step = "fetch" /\ next > target
    BY <1>5 DEF CaughtUp, chainVars, loopVars
  <2>2. next \in Nat /\ target \in Nat
    BY DEF TypeOK
  <2> QED BY <1>0, <2>1, <2>2 DEF Beyond, InStream
<1>6. CASE Subscribe
  <2>1. UNCHANGED <<height, cursor, ran, blind, step>> /\ mode = "subscribe"
        /\ stream = <<>> /\ step = "fetch"
    BY <1>6 DEF Subscribe, loopVars, Located
  <2> QED BY <1>0, <2>1 DEF Beyond, InStream
<1>7. CASE Receive
  <2>1. /\ UNCHANGED <<height, cursor, ran, blind, mode>> /\ mode = "live" /\ step = "fetch"
        /\ cur' = stream[1] /\ step' = "bookkeep"
        /\ \A i \in 1..Len(stream) : i = 1 \/ stream'[i - 1] = stream[i]
        /\ Len(stream') = Len(stream) - 1
    BY <1>1, <1>7 DEF Receive
  <2>2. CASE InStream(h)
    <3>1. PICK i \in 1..Len(stream) : stream[i] = h
      BY <2>2 DEF InStream
    <3>2. CASE i = 1
      BY <2>1, <3>1, <3>2 DEF Beyond
    <3>3. CASE i # 1
      <4>1. i - 1 \in 1..Len(stream') /\ stream'[i - 1] = h
        BY <1>1, <2>1, <3>1, <3>3
      <4> QED BY <4>1 DEF Beyond, InStream
    <3> QED BY <3>2, <3>3
  <2> QED BY <1>0, <2>1, <2>2 DEF Beyond
<1>8. CASE ChannelClosed \/ Reconnect
  BY <1>0, <1>8 DEF ChannelClosed, Reconnect, chainVars, loopVars, Beyond, InStream, Located
<1>9. CASE Bookkeep
  <2>1. UNCHANGED <<height, cursor, blind, stream, mode, cur, next, target>> /\ step = "bookkeep"
        /\ step' = "save" /\ ran' = [ran EXCEPT ![cur] = @ + 1]
    BY <1>9 DEF Bookkeep, chainVars, loopVars
  <2>2. h \in Heights
    BY <1>1, <2>1 DEF TypeOK, Heights
  <2>3. ran[h] \in Nat /\ (ran[h] > 0 => ran'[h] > 0)
    BY <2>1, <2>2 DEF TypeOK
  <2> QED BY <1>0, <2>1, <2>3 DEF Beyond, InStream
<1>10. CASE SaveCursor
  <2>1. /\ UNCHANGED <<height, ran, blind, stream, mode, next, target>> /\ step = "save"
        /\ cursor' = cur /\ cursor < cur
    BY <1>10 DEF SaveCursor, chainVars, loopVars, Located
  <2>2. mode \notin {"down", "status"} /\ h \in cursor + 1..height /\ h # cur
    BY <1>1, <2>1 DEF Located, TypeOK
  <2> QED BY <1>0, <2>1, <2>2 DEF Beyond, InStream
<1>11. CASE NewBlock
  <2>1. UNCHANGED <<cursor, ran, mode, step, cur, next, target>> /\ height' = height + 1
    BY <1>11 DEF NewBlock, loopVars
  <2>2. CASE h \in cursor + 1..height
    <3>1. blind \subseteq blind'
      BY <1>11 DEF NewBlock
    <3>2. InStream(h) => InStream(h)'
      <4>1. CASE stream' = Append(stream, height + 1)
        <5>1. height + 1 \in Heights
          BY <1>1, <1>11 DEF NewBlock, Heights
        <5>2. \A i \in 1..Len(stream) : i \in 1..Len(stream') /\ stream'[i] = stream[i]
          BY <1>1, <4>1, <5>1
        <5> QED BY <5>2 DEF InStream
      <4>2. CASE stream' = stream
        BY <4>2 DEF InStream
      <4> QED BY <1>11, <4>1, <4>2 DEF NewBlock
    <3> QED BY <1>0, <2>1, <2>2, <3>1, <3>2 DEF Beyond
  <2>3. CASE h = height + 1
    <3>1. CASE subscribed /\ Len(stream) < StreamCap
      <4>1. stream' = Append(stream, height + 1)
        BY <1>11, <3>1 DEF NewBlock
      <4>2. height + 1 \in Heights
        BY <1>1, <1>11 DEF NewBlock, Heights
      <4>3. Len(stream) + 1 \in 1..Len(stream') /\ stream'[Len(stream) + 1] = h
        BY <1>1, <2>3, <4>1, <4>2
      <4> QED BY <4>3 DEF Beyond, InStream
    <3>2. CASE ~ (subscribed /\ Len(stream) < StreamCap)
      <4>1. ~ BackfillAhead
        BY <2>1 DEF BackfillAhead
      <4> QED BY <1>11, <2>3, <3>2, <4>1 DEF NewBlock, Beyond
    <3> QED BY <3>1, <3>2
  <2> QED BY <1>1, <2>1, <2>2, <2>3
<1>12. CASE EventLost
  <2>1. UNCHANGED <<cursor, ran, mode, step, cur, next, target, stream>>
        /\ height' = height + 1 /\ blind' = blind \cup {height + 1}
    BY <1>12 DEF EventLost, loopVars
  <2> QED BY <1>0, <1>1, <2>1 DEF Beyond, InStream
<1>13. CASE Close
  BY <1>0, <1>13 DEF Close, loopVars, Beyond, InStream
<1>14. CASE CatchUpFails
  <2>1. UNCHANGED <<height, cursor, ran, stream>> /\ blind' = blind \cup Unreachable
    BY <1>14 DEF CatchUpFails, GiveUpCatchUp, chainVars, loopVars
  <2> QED BY <2>1, BlindCovers
<1>15. CASE BadBlock
  <2>1. UNCHANGED <<height, cursor, ran, stream>> /\ step = "bookkeep"
    BY <1>15 DEF BadBlock, chainVars, loopVars
  <2>2. CASE mode = "catchUp"
    <3>1. blind' = blind \cup Unreachable
      BY <1>15, <2>2 DEF BadBlock, GiveUpCatchUp
    <3> QED BY <2>1, <3>1, BlindCovers
  <2>3. CASE mode # "catchUp"
    BY <1>0, <1>15, <2>1, <2>3 DEF BadBlock, Beyond, InStream
  <2> QED BY <2>2, <2>3
<1>16. CASE SaveFails
  <2>1. UNCHANGED <<height, cursor, ran, stream>> /\ step = "save" /\ ran[cur] > 0
    BY <1>16 DEF SaveFails, chainVars, loopVars, Located
  <2>2. CASE mode = "catchUp"
    <3>1. blind' = blind \cup Unreachable
      BY <1>16, <2>2 DEF SaveFails, GiveUpCatchUp
    <3> QED BY <2>1, <3>1, BlindCovers
  <2>3. CASE mode # "catchUp"
    BY <1>0, <1>16, <2>1, <2>3 DEF SaveFails, Beyond, InStream
  <2> QED BY <2>2, <2>3
<1>17. CASE Crash
  BY <1>17 DEF Crash
<1>18. CASE UNCHANGED vars
  BY <1>0, <1>18 DEF vars, chainVars, loopVars, Beyond, InStream
<1> QED
  BY <1>2, <1>3, <1>4, <1>5, <1>6, <1>7, <1>8, <1>9, <1>10, <1>11, <1>12,
     <1>13, <1>14, <1>15, <1>16, <1>17, <1>18 DEF Next, WatcherStep

\* The cursor passes a block that was processed, or one that is known to be blind.
LEMMA LossesStep ==
  TypeOK /\ Located /\ InOrder /\ Covered /\ LossesAreKnown /\ [Next]_vars => LossesAreKnown'
<1> SUFFICES ASSUME TypeOK, Located, InOrder, Covered, LossesAreKnown, [Next]_vars,
                    NEW h \in 1..cursor'
             PROVE  Accounted(h)'
  BY DEF LossesAreKnown, Accounted
<1>1. cursor \in Nat /\ height \in Nat /\ h \in Nat /\ h > 0 /\ cursor' \in Nat
  <2>1. TypeOK'
    BY TypeStep
  <2> QED BY <2>1, ConstantsAssumption DEF TypeOK
\* What was processed or lost once stays so.
<1>2. blind \subseteq blind'
  BY DEF Next, vars, chainVars, loopVars, WatcherStep, Start, Status, FetchBlock, CaughtUp,
         Subscribe, Receive, ChannelClosed, Reconnect, Bookkeep, SaveCursor, NewBlock,
         EventLost, Close, StartWithoutCursor, CatchUpFails, GiveUpCatchUp, Exit, BadBlock,
         SaveFails, Crash
<1>3. \A i \in Heights : ran[i] > 0 => ran'[i] > 0
  <2>1. CASE Bookkeep
    BY <2>1 DEF Bookkeep, TypeOK
  <2>2. CASE ~ Bookkeep
    <3>1. ran' = ran
      BY <2>2 DEF Next, vars, chainVars, loopVars, WatcherStep, Start, Status, FetchBlock,
           CaughtUp, Subscribe, Receive, ChannelClosed, Reconnect, SaveCursor, NewBlock,
           EventLost, Close, StartWithoutCursor, CatchUpFails, Exit, BadBlock, SaveFails, Crash
    <3> QED BY <3>1
  <2> QED BY <2>1, <2>2
<1>4. Accounted(h) => Accounted(h)'
  <2>1. h \in Heights \/ h \in blind \/ ~ (h <= cursor')
    <3>1. TypeOK'
      BY TypeStep
    <3> QED BY <3>1, <1>1, ConstantsAssumption DEF TypeOK, Heights
  <2> QED BY <1>1, <1>2, <1>3, <2>1 DEF Accounted
<1>5. CASE cursor' = cursor
  <2>1. Accounted(h)
    BY <1>5 DEF LossesAreKnown, Accounted
  <2> QED BY <1>4, <2>1
<1>6. CASE SaveCursor
  <2>1. step = "save" /\ cursor' = cur /\ ran[cur] > 0 /\ mode \in {"catchUp", "live"}
    BY <1>6 DEF SaveCursor, Located
  <2>2. cursor < cur /\ cur <= height
    BY <2>1 DEF Located
  <2>3. CASE h <= cursor
    <3>1. Accounted(h)
      BY <1>1, <2>3 DEF LossesAreKnown, Accounted
    <3> QED BY <1>4, <3>1
  <2>4. CASE h = cur
    <3>1. Accounted(h)
      BY <2>1, <2>4 DEF Accounted
    <3> QED BY <1>4, <3>1
  <2>5. CASE cursor < h /\ h # cur
    <3>1. h \in cursor + 1..height /\ h < cur
      BY <1>1, <2>1, <2>2, <2>5 DEF TypeOK
    <3>2. ~ InStream(h)
      BY <1>1, <2>1, <3>1 DEF InOrder, InStream, TypeOK
    <3>3. mode = "catchUp" => h \notin next..target
      BY <1>1, <2>1, <3>1 DEF Located, TypeOK
    <3>4. Accounted(h)
      BY <2>1, <2>5, <3>1, <3>2, <3>3 DEF Covered
    <3> QED BY <1>4, <3>4
  <2> QED BY <1>1, <2>3, <2>4, <2>5
<1> QED
  BY <1>5, <1>6 DEF Next, vars, chainVars, loopVars, WatcherStep, Start, Status, FetchBlock,
     CaughtUp, Subscribe, Receive, ChannelClosed, Reconnect, Bookkeep, NewBlock, EventLost,
     Close, StartWithoutCursor, CatchUpFails, Exit, BadBlock, SaveFails, Crash

\* The invariant holds in every state.
LEMMA Invariance == Spec => []IInv
<1>1. IInv /\ [Next]_vars => IInv'
  BY TypeStep, LocatedStep, InOrderStep, CoveredStep, LossesStep DEF IInv
<1> QED BY InitIInv, <1>1, PTL DEF Spec

\* Every reachable state of the watcher has its type: the loop never runs past
\* the block it was told of, and only blocks of the chain are processed.
THEOREM TypeCorrect == Spec => []TypeOK
<1>1. IInv => TypeOK
  BY DEF IInv
<1> QED BY <1>1, Invariance, PTL

\* Whatever faults happen, every block below the cursor was processed or lost
\* to one of the known blind spots.
THEOREM LostBlocksAreKnown == Spec => []LossesAreKnown
<1>1. IInv => LossesAreKnown
  BY DEF IInv
<1> QED BY <1>1, Invariance, PTL

\* No mix of backfill, live events, reconnects, faults and restarts ever moves
\* the cursor back.
THEOREM CursorNeverGoesBack == Spec => CursorMonotone
<1>1. IInv /\ [Next]_vars => [cursor' >= cursor]_vars
  <2> SUFFICES ASSUME IInv, [Next]_vars PROVE cursor' >= cursor
    OBVIOUS
  <2>1. cursor \in Nat
    BY ConstantsAssumption DEF IInv, TypeOK
  <2>2. CASE SaveCursor
    <3>1. cursor' = cur /\ cursor < cur /\ cur \in Nat
      BY <2>2, ConstantsAssumption DEF SaveCursor, IInv, Located, TypeOK
    <3> QED BY <2>1, <3>1
  <2>3. CASE ~ SaveCursor
    <3>1. cursor' = cursor
      BY <2>3 DEF Next, vars, chainVars, loopVars, WatcherStep, Start, Status, FetchBlock,
           CaughtUp, Subscribe, Receive, ChannelClosed, Reconnect, Bookkeep, NewBlock,
           EventLost, Close, StartWithoutCursor, CatchUpFails, Exit, BadBlock, SaveFails, Crash
    <3> QED BY <2>1, <3>1
  <2> QED BY <2>2, <2>3
<1> QED BY <1>1, Invariance, PTL DEF Spec, CursorMonotone

(***************************************************************************)
(* Blocks processed again.  A block counts as soon as it was processed and *)
(* the cursor has yet to pass it, unless its UPDATE comes next.            *)
(***************************************************************************)
Repeats ==
  {h \in Heights : \/ ran[h] > 1
                   \/ ran[h] > 0 /\ cursor < h /\ ~ (step = "save" /\ h = cur)}

RepeatInv == Cardinality(Repeats) <= Cardinality(Interruptions)

\* Repeats and interruptions can be counted.
LEMMA RepeatsFinite == ASSUME TypeOK PROVE IsFiniteSet(Repeats) /\ IsFiniteSet(Interruptions)
<1>1. IsFiniteSet(1..MaxHeight) /\ IsFiniteSet(1..Len(faults))
  BY FS_Interval, ConstantsAssumption DEF TypeOK
<1>2. Repeats \subseteq 1..MaxHeight /\ Interruptions \subseteq 1..Len(faults)
  BY DEF Repeats, Interruptions, Heights
<1> QED BY <1>1, <1>2, FS_Subset

\* A step without a crash or a failed UPDATE adds no repeat, ...
LEMMA NoMoreRepeats ==
  ASSUME TypeOK, TypeOK', RepeatInv, Repeats' \subseteq Repeats,
         Interruptions \subseteq Interruptions'
  PROVE  RepeatInv'
<1>1. IsFiniteSet(Repeats) /\ IsFiniteSet(Interruptions')
  <2>1. IsFiniteSet(1..Len(faults')) /\ Interruptions' \subseteq 1..Len(faults')
    BY FS_Interval DEF TypeOK, Interruptions
  <2> QED BY <2>1, RepeatsFinite, FS_Subset
<1>2. IsFiniteSet(Repeats') /\ IsFiniteSet(Interruptions)
  BY <1>1, FS_Subset
<1>3. Cardinality(Repeats') <= Cardinality(Repeats)
  BY <1>1, FS_Subset
<1>4. Cardinality(Interruptions) <= Cardinality(Interruptions')
  BY <1>1, FS_Subset
<1>5. /\ Cardinality(Repeats') \in Nat /\ Cardinality(Repeats) \in Nat
      /\ Cardinality(Interruptions) \in Nat /\ Cardinality(Interruptions') \in Nat
  BY <1>1, <1>2, FS_CardinalityType
<1> QED BY <1>3, <1>4, <1>5 DEF RepeatInv

\* ... and one with such a fault adds the block in hand at most.
LEMMA OneMoreRepeat ==
  ASSUME TypeOK, RepeatInv, Repeats' \subseteq Repeats \cup {cur},
         NEW kind \in {"crash", "save"}, Fault(kind)
  PROVE  RepeatInv'
<1> DEFINE n == Len(faults) + 1
<1>1. IsFiniteSet(Repeats) /\ IsFiniteSet(Interruptions)
  BY RepeatsFinite
<1>2. Interruptions' = Interruptions \cup {n} /\ n \notin Interruptions
  <2>1. Len(faults) \in Nat /\ faults \in Seq(FaultKinds) /\ kind \in FaultKinds
        /\ faults' = Append(faults, kind)
    BY DEF TypeOK, Fault
  <2>2. Len(faults') = n /\ faults'[n] = kind
        /\ \A i \in 1..Len(faults) : faults'[i] = faults[i]
    BY <2>1
  <2> QED BY <2>1, <2>2 DEF Interruptions
<1>3. Cardinality(Interruptions') = Cardinality(Interruptions) + 1
  BY <1>1, <1>2, FS_AddElement
<1>4. /\ IsFiniteSet(Repeats \cup {cur})
      /\ Cardinality(Repeats \cup {cur}) = Cardinality(Repeats)
         \/ Cardinality(Repeats \cup {cur}) = Cardinality(Repeats) + 1
  BY <1>1, FS_AddElement
<1>5. Cardinality(Repeats') <= Cardinality(Repeats \cup {cur}) /\ IsFiniteSet(Repeats')
  BY <1>4, FS_Subset
<1>6. /\ Cardinality(Repeats') \in Nat /\ Cardinality(Repeats) \in Nat
      /\ Cardinality(Interruptions) \in Nat
  BY <1>1, <1>5, FS_CardinalityType
<1> QED BY <1>3, <1>4, <1>5, <1>6 DEF RepeatInv

\* No step takes an interruption back.
LEMMA InterruptionsGrow ==
  ASSUME TypeOK, faults' = faults \/ \E kind \in FaultKinds : faults' = Append(faults, kind)
  PROVE  Interruptions \subseteq Interruptions'
<1>1. CASE faults' = faults
  BY <1>1 DEF Interruptions
<1>2. CASE \E kind \in FaultKinds : faults' = Append(faults, kind)
  <2>1. \A i \in 1..Len(faults) : i \in 1..Len(faults') /\ faults'[i] = faults[i]
    BY <1>2 DEF TypeOK
  <2> QED BY <2>1 DEF Interruptions
<1> QED BY <1>1, <1>2

\* A block is processed again only after an interruption that pays for it.
LEMMA RepeatStep == TypeOK /\ Located /\ RepeatInv /\ [Next]_vars => RepeatInv'
<1> SUFFICES ASSUME TypeOK, Located, RepeatInv, [Next]_vars PROVE RepeatInv'
  OBVIOUS
<1>1. TypeOK'
  BY TypeStep
<1>2. ran \in [Heights -> Nat] /\ cursor \in Nat /\ cur \in Nat /\ \A h \in Heights : h \in Nat
  BY ConstantsAssumption DEF TypeOK, Heights
<1>3. CASE Crash
  <2>1. Repeats' \subseteq Repeats \cup {cur}
    BY <1>3 DEF Crash, Repeats
  <2> QED BY <1>3, <2>1, OneMoreRepeat DEF Crash
<1>4. CASE SaveFails
  <2>1. Repeats' \subseteq Repeats \cup {cur}
    BY <1>4 DEF SaveFails, Repeats, chainVars, loopVars
  <2> QED BY <1>4, <2>1, OneMoreRepeat DEF SaveFails
<1>5. CASE ~ Crash /\ ~ SaveFails
  <2>1. Interruptions \subseteq Interruptions'
    <3>1. faults' = faults \/ \E kind \in FaultKinds : faults' = Append(faults, kind)
      BY <1>5 DEF Next, vars, chainVars, loopVars, WatcherStep, Start, Status, FetchBlock,
           CaughtUp, Subscribe, Receive, ChannelClosed, Reconnect, Bookkeep, SaveCursor, NewBlock,
           EventLost, Close, StartWithoutCursor, CatchUpFails, Exit, BadBlock, Fault
    <3> QED BY <3>1, InterruptionsGrow
  <2>2. Repeats' \subseteq Repeats
    <3>1. CASE Bookkeep
      <4>1. UNCHANGED <<cursor, cur>> /\ step = "bookkeep" /\ step' = "save"
            /\ ran' = [ran EXCEPT ![cur] = @ + 1] /\ cursor < cur
        BY <3>1 DEF Bookkeep, Located, loopVars
      <4>2. \A h \in Heights \ {cur} : ran'[h] = ran[h]
        BY <1>2, <4>1
      <4>3. cur \in Repeats' => ran[cur] > 0 /\ cur \in Heights
        BY <1>2, <4>1 DEF Repeats
      <4> QED BY <4>1, <4>2, <4>3 DEF Repeats
    <3>2. CASE SaveCursor
      BY <1>2, <3>2 DEF SaveCursor, Located, Repeats, chainVars, loopVars
    <3>3. CASE ~ Bookkeep /\ ~ SaveCursor
      <4>1. UNCHANGED <<ran, cursor>>
        BY <1>5, <3>3 DEF Next, vars, chainVars, loopVars, WatcherStep, Start, Status,
             FetchBlock, CaughtUp, Subscribe, Receive, ChannelClosed, Reconnect, NewBlock,
             EventLost, Close, StartWithoutCursor, CatchUpFails, Exit, BadBlock
      <4>2. step = "save" => step' = "save" /\ cur' = cur
        BY <1>5, <3>3 DEF Next, vars, chainVars, loopVars, WatcherStep, Start, Status,
             FetchBlock, CaughtUp, Subscribe, Receive, ChannelClosed, Reconnect, NewBlock,
             EventLost, Close, StartWithoutCursor, CatchUpFails, Exit, BadBlock, Located
      <4> QED BY <4>1, <4>2 DEF Repeats
    <3> QED BY <3>1, <3>2, <3>3
  <2> QED BY <1>1, <2>1, <2>2, NoMoreRepeats
<1> QED BY <1>3, <1>4, <1>5

\* For every chain, every stream and every number of faults: a block is only
\* ever processed again at the price of a crash or a failed UPDATE of its own.
THEOREM RepeatsArePaidFor == Spec => []RepeatsAreInterruptions
<1>1. Init => RepeatInv
  <2> SUFFICES ASSUME Init PROVE RepeatInv
    OBVIOUS
  <2>1. Repeats = {}
    BY ConstantsAssumption DEF Init, Repeats, Heights
  <2>2. Interruptions = {}
    BY DEF Init, Interruptions
  <2>3. Cardinality({}) = 0
    BY FS_EmptySet
  <2> QED BY <2>1, <2>2, <2>3 DEF RepeatInv
<1>2. IInv /\ RepeatInv /\ [Next]_vars => RepeatInv'
  BY RepeatStep DEF IInv
<1>3. IInv /\ RepeatInv => RepeatsAreInterruptions
  <2> SUFFICES ASSUME TypeOK, RepeatInv PROVE RepeatsAreInterruptions
    BY DEF IInv
  <2> DEFINE Again == {h \in Heights : ran[h] > 1}
  <2>1. IsFiniteSet(Repeats) /\ IsFiniteSet(Interruptions) /\ Again \subseteq Repeats
    BY RepeatsFinite DEF Repeats
  <2>2. Cardinality(Again) <= Cardinality(Repeats) /\ IsFiniteSet(Again)
    BY <2>1, FS_Subset
  <2>3. Cardinality(Again) \in Nat /\ Cardinality(Repeats) \in Nat /\ Cardinality(Interruptions) \in Nat
    BY <2>1, <2>2, FS_CardinalityType
  <2> QED BY <2>2, <2>3 DEF RepeatInv, RepeatsAreInterruptions
<1> QED BY <1>1, <1>2, <1>3, Invariance, PTL DEF Spec
=============================================================================
