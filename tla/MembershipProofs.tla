------------------------- MODULE MembershipProofs --------------------------
(***************************************************************************)
(* Proofs about Membership, for every set of people, of requests, messages *)
(* and faults: the types, that an approved request has its row, and that   *)
(* the rows follow the chain. For the first two the invariant says where   *)
(* the watcher is in a message (Located) and what it knows of the request  *)
(* it selected (Asked, Approved); for the last, what the chain lists       *)
(* (Chained) and which messages have had their effect (Followed).          *)
(***************************************************************************)
EXTENDS Membership, TLAPS

\* A recorded fault keeps the type of faults.
LEMMA FaultType ==
  ASSUME TypeOK, NEW kind, Fault(kind) PROVE faults' \in Seq(FaultKinds)
BY DEF TypeOK, Fault

\* Whoever has a seat keeps one when the seat is changed.
LEMMA Seats ==
  ASSUME NEW m \in Membership
  PROVE  /\ m.mod \in BOOLEAN /\ (m.role # "none" <=> m # Nobody)
         /\ m # Nobody =>
              /\ \A b \in BOOLEAN : [m EXCEPT !.mod = b] \in Membership \ {Nobody}
              /\ \A s \in {"member", "leader"} : [m EXCEPT !.role = s] \in Membership \ {Nobody}
<1>1. CASE m = Nobody
  BY <1>1 DEF Nobody
<1>2. CASE m \in [role : {"member", "leader"}, mod : BOOLEAN]
  <2>1. m.mod \in BOOLEAN /\ m.role # "none" /\ m # Nobody
    BY <1>2 DEF Nobody
  <2>2. ASSUME NEW b \in BOOLEAN PROVE [m EXCEPT !.mod = b] \in Membership \ {Nobody}
    BY <1>2 DEF Membership, Nobody
  <2>3. ASSUME NEW s \in {"member", "leader"} PROVE [m EXCEPT !.role = s] \in Membership \ {Nobody}
    BY <1>2 DEF Membership, Nobody
  <2> QED BY <2>1, <2>2, <2>3
<1> QED BY <1>1, <1>2 DEF Membership

\* The message in hand is a message.
LEMMA CurrentType ==
  ASSUME TypeOK, seen < Len(log)
  PROVE  Current.op \in {"add", "caps", "remove", "transfer", "close"}
         /\ Current.who \in People /\ Current.mod \in BOOLEAN
<1>1. seen + 1 \in 1..Len(log)
  BY DEF TypeOK
<1>2. log[seen + 1] \in Message
  BY <1>1 DEF TypeOK
<1> QED BY <1>2 DEF Current, Message

\* Where the watcher is, and what kind of message it has in hand there.
Located ==
  /\ seen <= Len(log) /\ (step # "idle" => seen < Len(log))
  /\ step \in {"select", "insert", "approve"} => Current.op = "add"
  /\ step \in {"promote", "point"} => Current.op = "transfer"
  /\ step = "deactivate" => Current.op = "close" /\ closed

\* A request that is there has its applicant, and so has the one in hand;
\* a handler that denies has found its request.
Asked ==
  /\ \A r \in denying : status[r] # "none"
  /\ \A r \in Requests : status[r] # "none" => who[r] \in People
  /\ step = "approve" => chosen.request # 0
  /\ step \in {"insert", "approve"} /\ chosen.request # 0 =>
       status[chosen.request] # "none" /\ who[chosen.request] = Current.who

\* The founder's org, as created, has its types.
LEMMA InitType == Init => TypeOK
<1> SUFFICES ASSUME Init PROVE TypeOK
  OBVIOUS
<1>1. roster \in [People -> Membership] /\ row \in [People -> Membership]
  BY DEF Init, Membership, Nobody
<1>2. log \in Seq(Message) /\ faults \in Seq(FaultKinds)
  BY DEF Init
<1>3. snapshot \in [People -> Membership]
  BY DEF Init, Membership, Nobody
<1> QED
  BY <1>1, <1>2, <1>3, PeopleAssumption, BoundsAssumption DEF Init, TypeOK, NoRequest, Open

\* What the chain includes or refuses keeps the types.
LEMMA ChainStaysTyped ==
  ASSUME TypeOK, NEW p \in People,
         \/ AddMember(p) \/ SetMemberCapabilities(p) \/ RemoveMember(p)
         \/ TransferLeadership(p) \/ AddNotIncluded(p) \/ CloseOrg
  PROVE  TypeOK'
<1> USE DEF TypeOK, rowVars, orgVars, requestVars, watcherVars, passVars
<1>0. Plain \in Membership /\ Nobody \in Membership /\ \A q \in People : roster[q] \in Membership
  BY DEF Membership, Plain, Nobody
<1>1. ASSUME NEW op \in {"add", "caps", "remove", "transfer", "close"}, NEW q \in People,
             NEW mod \in BOOLEAN, NEW r \in [People -> Membership], OnChain(op, q, mod, r)
      PROVE  TypeOK'
  <2>1. [op |-> op, who |-> q, mod |-> mod] \in Message
    BY DEF Message
  <2>2. log' \in Seq(Message)
    BY <1>1, <2>1 DEF OnChain
  <2> QED BY <1>1, <2>2 DEF OnChain
<1>3. CASE AddMember(p)
  <2>1. [roster EXCEPT ![p] = Plain] \in [People -> Membership]
    BY <1>0
  <2>2. OnChain("add", p, FALSE, [roster EXCEPT ![p] = Plain])
    BY <1>3 DEF AddMember
  <2> HIDE DEF TypeOK
  <2> QED BY <1>1, <2>1, <2>2
<1>4. CASE SetMemberCapabilities(p)
  <2> DEFINE r == [roster EXCEPT ![p].mod = ~ @]
  <2>1. [roster[p] EXCEPT !.mod = ~ @] \in Membership
    <3>1. roster[p] # Nobody /\ (~ roster[p].mod) \in BOOLEAN
      BY <1>4 DEF Nobody, SetMemberCapabilities
    <3> HIDE DEF TypeOK
    <3> QED BY <1>0, <3>1, Seats
  <2>2. r \in [People -> Membership]
    BY <1>0, <2>1
  <2>3. OnChain("caps", p, ~ roster[p].mod, r)
    BY <1>4 DEF SetMemberCapabilities
  <2>4. (~ roster[p].mod) \in BOOLEAN
    OBVIOUS
  <2> HIDE DEF TypeOK, r
  <2> QED BY <1>1, <2>2, <2>3, <2>4
<1>5. CASE RemoveMember(p)
  <2>1. [roster EXCEPT ![p] = Nobody] \in [People -> Membership]
    BY <1>0
  <2>2. OnChain("remove", p, FALSE, [roster EXCEPT ![p] = Nobody])
    BY <1>5 DEF RemoveMember
  <2> HIDE DEF TypeOK
  <2> QED BY <1>1, <2>1, <2>2
<1>6. CASE TransferLeadership(p)
  <2> DEFINE r == [q \in People |->
                IF q = p THEN [roster[q] EXCEPT !.role = "leader"]
                ELSE IF roster[q].role = "leader" THEN [roster[q] EXCEPT !.role = "member"]
                ELSE roster[q]]
  <2>1. r \in [People -> Membership]
    <3> SUFFICES ASSUME NEW q \in People PROVE r[q] \in Membership
      OBVIOUS
    <3>1. roster[q] \in Membership
      BY <1>0
    <3>2. roster[q] # Nobody => /\ [roster[q] EXCEPT !.role = "leader"] \in Membership
                               /\ [roster[q] EXCEPT !.role = "member"] \in Membership
      BY <3>1, Seats
    <3>3. roster[q].role \in {"member", "leader"} => roster[q] # Nobody
      BY DEF Nobody
    <3>4. roster[p].role = "member"
      BY <1>6 DEF TransferLeadership
    <3> QED BY <3>1, <3>2, <3>3, <3>4
  <2>2. OnChain("transfer", p, FALSE, r)
    BY <1>6 DEF TransferLeadership
  <2> HIDE DEF r
  <2> QED BY <1>1, <2>1, <2>2
<1>7. CASE AddNotIncluded(p)
  BY <1>7 DEF AddNotIncluded
<1>8. CASE CloseOrg
  BY <1>1, <1>8 DEF CloseOrg
<1> QED BY <1>3, <1>4, <1>5, <1>6, <1>7, <1>8

\* The handlers of join requests keep the types.
LEMMA RequestsStayTyped ==
  ASSUME TypeOK, Asked, NEW r \in Requests,
         \/ \E p \in People : CheckJoinRequest(r, p)
         \/ SubmitJoinRequest(r) \/ ApproveJoinRequest(r) \/ CancelJoinApproval(r)
         \/ CheckDenial(r) \/ DenyJoinRequest(r) \/ TenMinutes(r)
  PROVE  TypeOK'
<1> USE DEF TypeOK, chainVars, rowVars, orgVars, requestVars, watcherVars, passVars, Open
<1>1. ASSUME NEW p \in People, CheckJoinRequest(r, p) PROVE TypeOK'
  BY <1>1 DEF CheckJoinRequest
<1>2. CASE SubmitJoinRequest(r)
  BY <1>2 DEF SubmitJoinRequest
<1>3. CASE ApproveJoinRequest(r)
  <2>1. who[r] \in People
    BY <1>3 DEF ApproveJoinRequest, Asked
  <2> QED BY <1>3, <2>1 DEF ApproveJoinRequest
<1>4. CASE CancelJoinApproval(r)
  BY <1>4 DEF CancelJoinApproval, Revert
<1>5. CASE CheckDenial(r)
  BY <1>5 DEF CheckDenial
<1>6. CASE DenyJoinRequest(r)
  BY <1>6 DEF DenyJoinRequest
<1>7. CASE TenMinutes(r)
  BY <1>7 DEF TenMinutes
<1> QED BY <1>1, <1>2, <1>3, <1>4, <1>5, <1>6, <1>7

\* The handlers that write member rows keep the types.
LEMMA RowsStayTyped ==
  ASSUME TypeOK, NEW p \in People,
         InviteMember(p) \/ Subscribe(p) \/ GrantFreeRecall(p) \/ RevokeRecall(p)
  PROVE  TypeOK'
<1> USE DEF TypeOK, chainVars, rowVars, orgVars, requestVars, watcherVars, passVars
<1>1. CASE InviteMember(p)
  <2>1. Plain \in Membership
    BY DEF Plain, Membership
  <2> QED BY <1>1, <2>1 DEF InviteMember
<1>2. ASSUME NEW on \in BOOLEAN, NEW cost \in {0, 1}, SetRecall(p, on, cost) PROVE TypeOK'
  BY <1>2 DEF SetRecall
<1>3. CASE Subscribe(p) \/ GrantFreeRecall(p) \/ RevokeRecall(p)
  BY <1>2, <1>3 DEF Subscribe, GrantFreeRecall, RevokeRecall
<1> QED BY <1>1, <1>3

\* That no request was selected is a value of the watcher's hand.
LEMMA NoRequestType == NoRequest \in [request : Requests \cup {0}, trial : BOOLEAN]
BY DEF NoRequest

\* The watcher's bookkeeping keeps the types.
LEMMA WatcherStaysTyped ==
  ASSUME TypeOK, Located, Watcher \/ StatementFails \/ BlockMissed
  PROVE  TypeOK'
<1> USE DEF TypeOK, chainVars, rowVars, orgVars, requestVars, watcherVars, passVars
<1>0. Plain \in Membership /\ \A q \in People : row[q] \in Membership
  BY DEF Plain, Membership
<1>1. ASSUME seen < Len(log)
      PROVE  /\ Current.who \in People /\ Current.mod \in BOOLEAN
             /\ [Plain EXCEPT !.mod = Current.mod] \in Membership
  <2>1. Current.who \in People /\ Current.mod \in BOOLEAN
    <3> HIDE DEF TypeOK
    <3> QED BY <1>1, CurrentType
  <2> HIDE DEF TypeOK
  <2> QED BY <2>1 DEF Plain, Membership
<1>2. CASE AddUpdates
  BY <1>1, <1>2 DEF AddUpdates, Begins, GoesTo
<1>3. CASE AddSelects
  <2>1. chosen' \in [request : Requests \cup {0}, trial : BOOLEAN]
    <3>1. ASSUME NEW r \in Requests, chosen' = [request |-> r, trial |-> onTrial[r]]
          PROVE  chosen' \in [request : Requests \cup {0}, trial : BOOLEAN]
      BY <3>1
    <3> QED BY <1>3, <3>1, NoRequestType DEF AddSelects
  <2>2. step' = "insert" /\ UNCHANGED <<seen, chainVars, passVars, faults, rowVars, orgVars, requestVars>>
    BY <1>3 DEF AddSelects, GoesTo
  <2> QED BY <2>1, <2>2
<1>4. CASE AddInserts
  BY <1>1, <1>4 DEF AddInserts, GoesTo, Located
<1>5. CASE AddApproves
  BY <1>5 DEF AddApproves, GoesTo, Open
<1>6. CASE CapabilitiesUpdate
  <2>1. Current.who \in People /\ Current.mod \in BOOLEAN
    BY <1>1, <1>6 DEF CapabilitiesUpdate, Begins
  <2>2. row[Current.who] # Nobody => [row[Current.who] EXCEPT !.mod = Current.mod] \in Membership
    BY <1>0, <2>1, Seats
  <2> QED BY <1>0, <1>6, <2>1, <2>2 DEF CapabilitiesUpdate, GoesTo
<1>7. CASE RemoveUpdates
  BY <1>7 DEF RemoveUpdates, GoesTo
<1>8. CASE TransferDemotes
  <2>1. \A q \in People : row[q].role = "leader" => [row[q] EXCEPT !.role = "member"] \in Membership
    BY <1>0, Seats
  <2> QED BY <1>0, <1>8, <2>1 DEF TransferDemotes, GoesTo
<1>9. CASE TransferPromotes
  <2>1. Current.who \in People
    BY <1>1, <1>9 DEF TransferPromotes, Located
  <2>2. row[Current.who] # Nobody => [row[Current.who] EXCEPT !.role = "leader"] \in Membership
    BY <1>0, <2>1, Seats
  <2> QED BY <1>0, <1>9, <2>1, <2>2 DEF TransferPromotes, GoesTo
<1>10. CASE TransferPoints
  <2>1. Current.who \in People
    BY <1>1, <1>10 DEF TransferPoints, Located
  <2> QED BY <1>10, <2>1 DEF TransferPoints, GoesTo
<1>11. CASE CloseCloses \/ CloseDeactivates
  BY <1>11 DEF CloseCloses, CloseDeactivates, GoesTo
<1>13. CASE SaveCursor
  BY <1>13, NoRequestType DEF SaveCursor
<1>12. CASE StatementFails \/ BlockMissed
  <2>1. faults' \in Seq(FaultKinds)
    <3> HIDE DEF TypeOK
    <3> QED BY <1>12, FaultType DEF StatementFails, BlockMissed
  <2> QED BY <1>12, <2>1, NoRequestType DEF StatementFails, BlockMissed
<1> QED
  BY <1>2, <1>3, <1>4, <1>5, <1>6, <1>7, <1>8, <1>9, <1>10, <1>11, <1>12, <1>13
  DEF Watcher

\* A pass of the reconciler keeps the types.
LEMMA PassStaysTyped ==
  ASSUME TypeOK,
         \/ QueryChain \/ LoadRows \/ RevertStale \/ PassFails \/ Crash
         \/ \E p \in People : Heal(p) \/ Confirm(p) \/ HealFails(p)
  PROVE  TypeOK'
<1> USE DEF TypeOK, chainVars, rowVars, orgVars, requestVars, watcherVars, passVars
<1>0. Nobody \in Membership
  BY DEF Nobody, Membership
<1>1. CASE QueryChain
  BY <1>1 DEF QueryChain
<1>2. CASE LoadRows
  BY <1>2 DEF LoadRows, OnBoth
<1>3. CASE RevertStale
  BY <1>0, <1>3 DEF RevertStale, Revert, PassEnds, Open
<1>4. CASE PassFails
  <2>1. faults' \in Seq(FaultKinds)
    BY <1>4, FaultType DEF PassFails
  <2> QED BY <1>0, <1>4, <2>1 DEF PassFails, PassEnds
<1>5. CASE Crash
  <2>1. faults' \in Seq(FaultKinds)
    BY <1>5, FaultType DEF Crash
  <2> QED BY <1>0, <1>5, <2>1, NoRequestType DEF Crash
<1>6. ASSUME NEW p \in People, Heal(p) \/ Confirm(p) PROVE TypeOK'
  BY <1>6 DEF Heal, Confirm, Corrects
<1>7. ASSUME NEW p \in People, HealFails(p) PROVE TypeOK'
  <2>1. faults' \in Seq(FaultKinds)
    BY <1>7, FaultType DEF HealFails
  <2> QED BY <1>7, <2>1 DEF HealFails, Corrects
<1> QED BY <1>1, <1>2, <1>3, <1>4, <1>5, <1>6, <1>7

\* Every step keeps the types.
LEMMA TypeStep == TypeOK /\ Located /\ Asked /\ [Next]_vars => TypeOK'
<1>1. ASSUME TypeOK, UNCHANGED vars PROVE TypeOK'
  BY <1>1 DEF TypeOK, vars, chainVars, rowVars, orgVars, requestVars, watcherVars, passVars
<1>2. ASSUME TypeOK, Located, Asked, Next PROVE TypeOK'
  BY <1>2, ChainStaysTyped, RequestsStayTyped, RowsStayTyped, WatcherStaysTyped, PassStaysTyped,
     PeopleAssumption DEF Next
<1> QED BY <1>1, <1>2

(***************************************************************************)
(* The chain only grows, and the watcher's place in it.                    *)
(***************************************************************************)
LEMMA LogGrows ==
  ASSUME TypeOK, [Next]_vars
  PROVE  /\ Len(log) \in Nat /\ Len(log') \in Nat /\ Len(log) <= Len(log')
         /\ \A i \in 1..Len(log) : log'[i] = log[i]
<1>1. CASE log' = log
  BY <1>1 DEF TypeOK
<1>2. CASE \E m \in Message : log' = Append(log, m)
  BY <1>2 DEF TypeOK
<1>3. log' = log \/ \E m \in Message : log' = Append(log, m)
  <2>1. ASSUME NEW op \in {"add", "caps", "remove", "transfer", "close"}, NEW q \in People,
               NEW mod, mod \in BOOLEAN, NEW r, OnChain(op, q, mod, r)
        PROVE  \E m \in Message : log' = Append(log, m)
    BY <2>1 DEF OnChain, Message
  <2>2. ASSUME NEW p \in People, AddMember(p) \/ RemoveMember(p) \/ TransferLeadership(p)
        PROVE  \E m \in Message : log' = Append(log, m)
    BY <2>1, <2>2 DEF AddMember, RemoveMember, TransferLeadership
  <2>3. ASSUME NEW p \in People, SetMemberCapabilities(p)
        PROVE  \E m \in Message : log' = Append(log, m)
    <3>1. (~ roster[p].mod) \in BOOLEAN
      OBVIOUS
    <3> QED BY <2>1, <2>3, <3>1 DEF SetMemberCapabilities
  <2>4. ASSUME CloseOrg PROVE \E m \in Message : log' = Append(log, m)
    BY <2>1, <2>4 DEF CloseOrg, TypeOK
  <2>5. ASSUME NEW p \in People,
               \/ AddNotIncluded(p) \/ InviteMember(p)
               \/ Subscribe(p) \/ GrantFreeRecall(p) \/ RevokeRecall(p)
               \/ Heal(p) \/ Confirm(p) \/ HealFails(p)
        PROVE  log' = log
    BY <2>5 DEF AddNotIncluded, InviteMember, Subscribe, GrantFreeRecall, RevokeRecall, SetRecall,
                Heal, Confirm, HealFails, Corrects, chainVars
  <2>6. ASSUME NEW r \in Requests,
               \/ \E p \in People : CheckJoinRequest(r, p)
               \/ SubmitJoinRequest(r) \/ ApproveJoinRequest(r) \/ CancelJoinApproval(r)
               \/ CheckDenial(r) \/ DenyJoinRequest(r) \/ TenMinutes(r)
        PROVE  log' = log
    BY <2>6 DEF CheckJoinRequest, SubmitJoinRequest, ApproveJoinRequest, CancelJoinApproval,
                CheckDenial, DenyJoinRequest, TenMinutes, chainVars
  <2>7. CASE Watcher \/ StatementFails \/ BlockMissed
    BY <2>7 DEF Watcher, AddUpdates, AddSelects, AddInserts, AddApproves, CapabilitiesUpdate,
                RemoveUpdates, TransferDemotes, TransferPromotes, TransferPoints, CloseCloses,
                CloseDeactivates, SaveCursor, StatementFails, BlockMissed, GoesTo, chainVars
  <2>8. CASE QueryChain \/ LoadRows \/ RevertStale \/ PassFails \/ Crash
    BY <2>8 DEF QueryChain, LoadRows, RevertStale, PassFails, PassEnds, Crash, chainVars
  <2>9. CASE UNCHANGED vars
    BY <2>9 DEF vars, chainVars
  <2> QED
    BY <2>2, <2>3, <2>4, <2>5, <2>6, <2>7, <2>8, <2>9 DEF Next
<1> QED BY <1>1, <1>2, <1>3

\* The watcher keeps track of the message it is in.
LEMMA LocatedStep == TypeOK /\ Located /\ [Next]_vars => Located'
<1> SUFFICES ASSUME TypeOK, Located, [Next]_vars PROVE Located'
  OBVIOUS
<1>0. /\ seen \in Nat /\ Len(log) \in Nat /\ Len(log') \in Nat /\ Len(log) <= Len(log')
      /\ \A i \in 1..Len(log) : log'[i] = log[i]
  BY LogGrows DEF TypeOK
<1>1. ASSUME seen' = seen, step' = step, closed => closed'
      PROVE  Located'
  <2>1. step # "idle" => log'[seen + 1] = log[seen + 1]
    BY <1>0 DEF Located
  <2> QED BY <1>0, <1>1, <2>1 DEF Located, Current
<1>2. ASSUME NEW p \in People,
             \/ AddMember(p) \/ SetMemberCapabilities(p) \/ RemoveMember(p)
             \/ TransferLeadership(p) \/ CloseOrg
      PROVE  Located'
  <2>1. UNCHANGED <<orgVars, watcherVars>>
    BY <1>2 DEF AddMember, SetMemberCapabilities, RemoveMember, TransferLeadership, CloseOrg, OnChain
  <2> QED BY <1>1, <2>1 DEF orgVars, watcherVars
<1>3. ASSUME NEW p \in People,
             \/ AddNotIncluded(p) \/ InviteMember(p)
             \/ Subscribe(p) \/ GrantFreeRecall(p) \/ RevokeRecall(p)
             \/ Heal(p) \/ Confirm(p) \/ HealFails(p)
      PROVE  Located'
  <2>1. UNCHANGED <<closed, watcherVars>>
    BY <1>3 DEF AddNotIncluded, InviteMember, Subscribe, GrantFreeRecall, RevokeRecall, SetRecall,
                Heal, Confirm, HealFails, Corrects, orgVars
  <2> QED BY <1>1, <2>1 DEF watcherVars
<1>4. ASSUME NEW r \in Requests,
             \/ \E p \in People : CheckJoinRequest(r, p)
             \/ SubmitJoinRequest(r) \/ ApproveJoinRequest(r) \/ CancelJoinApproval(r)
             \/ CheckDenial(r) \/ DenyJoinRequest(r) \/ TenMinutes(r)
      PROVE  Located'
  <2>1. UNCHANGED <<orgVars, watcherVars>>
    BY <1>4 DEF CheckJoinRequest, SubmitJoinRequest, ApproveJoinRequest, CancelJoinApproval,
                CheckDenial, DenyJoinRequest, TenMinutes
  <2> QED BY <1>1, <2>1 DEF orgVars, watcherVars
<1>5. CASE Watcher
  <2>1. UNCHANGED log
    BY <1>5 DEF Watcher, AddUpdates, AddSelects, AddInserts, AddApproves, CapabilitiesUpdate,
                RemoveUpdates, TransferDemotes, TransferPromotes, TransferPoints, CloseCloses,
                CloseDeactivates, SaveCursor, GoesTo, chainVars
  <2>3. CASE AddUpdates \/ AddSelects \/ AddInserts \/ AddApproves
    <3>1. UNCHANGED <<seen, closed>> /\ seen < Len(log) /\ Current' = Current /\ Current.op = "add"
      BY <2>1, <2>3
      DEF AddUpdates, AddSelects, AddInserts, AddApproves, GoesTo, Begins, Located, Current, orgVars
    <3>2. step' \in {"select", "insert", "approve", "save"}
      BY <2>3 DEF AddUpdates, AddSelects, AddInserts, AddApproves, GoesTo
    <3> QED BY <1>0, <2>1, <3>1, <3>2 DEF Located
  <2>4. CASE CapabilitiesUpdate \/ RemoveUpdates
    BY <1>0, <2>1, <2>4 DEF CapabilitiesUpdate, RemoveUpdates, GoesTo, Begins, Located, Current
  <2>5. CASE TransferDemotes \/ TransferPromotes \/ TransferPoints
    BY <1>0, <2>1, <2>5
    DEF TransferDemotes, TransferPromotes, TransferPoints, GoesTo, Begins, Located, Current
  <2>6. CASE CloseCloses \/ CloseDeactivates
    BY <1>0, <2>1, <2>6 DEF CloseCloses, CloseDeactivates, GoesTo, Begins, Located, Current
  <2>7. CASE SaveCursor
    BY <1>0, <2>1, <2>7 DEF SaveCursor, Located
  <2> QED BY <1>5, <2>3, <2>4, <2>5, <2>6, <2>7 DEF Watcher
<1>6. CASE StatementFails \/ BlockMissed \/ Crash
  <2>1. UNCHANGED log
    BY <1>6 DEF StatementFails, BlockMissed, Crash, chainVars
  <2> QED BY <1>0, <1>6, <2>1 DEF StatementFails, BlockMissed, Crash, Located
<1>7. CASE QueryChain \/ LoadRows \/ RevertStale \/ PassFails
  <2>1. UNCHANGED <<orgVars, watcherVars>>
    BY <1>7 DEF QueryChain, LoadRows, RevertStale, PassFails, PassEnds
  <2> QED BY <1>1, <2>1 DEF orgVars, watcherVars
<1>8. CASE UNCHANGED vars
  BY <1>1, <1>8 DEF vars, orgVars, watcherVars
<1> QED BY <1>2, <1>3, <1>4, <1>5, <1>6, <1>7, <1>8, PeopleAssumption DEF Next

(***************************************************************************)
(* Who writes the requests, and who the rows.                              *)
(***************************************************************************)
LEMMA RequestSteps ==
  ASSUME [Next]_vars
  PROVE  \/ UNCHANGED requestVars
         \/ \E r \in Requests :
              \/ \E p \in People : CheckJoinRequest(r, p)
              \/ SubmitJoinRequest(r) \/ ApproveJoinRequest(r) \/ CancelJoinApproval(r)
              \/ CheckDenial(r) \/ DenyJoinRequest(r) \/ TenMinutes(r)
         \/ AddApproves \/ RevertStale \/ Crash
<1>1. ASSUME NEW p \in People,
             \/ AddMember(p) \/ SetMemberCapabilities(p) \/ RemoveMember(p)
             \/ TransferLeadership(p) \/ AddNotIncluded(p)
             \/ InviteMember(p) \/ Subscribe(p) \/ GrantFreeRecall(p) \/ RevokeRecall(p)
             \/ Heal(p) \/ Confirm(p) \/ HealFails(p)
      PROVE  UNCHANGED requestVars
  BY <1>1 DEF AddMember, SetMemberCapabilities, RemoveMember, TransferLeadership, OnChain,
              AddNotIncluded, InviteMember, Subscribe, GrantFreeRecall, RevokeRecall, SetRecall,
              Heal, Confirm, HealFails, Corrects
<1>2. ASSUME \/ CloseOrg \/ AddUpdates \/ AddSelects \/ AddInserts \/ CapabilitiesUpdate
             \/ RemoveUpdates \/ TransferDemotes \/ TransferPromotes \/ TransferPoints
             \/ CloseCloses \/ CloseDeactivates \/ SaveCursor \/ StatementFails \/ BlockMissed
      PROVE  UNCHANGED requestVars
  BY <1>2 DEF CloseOrg, OnChain, AddUpdates, AddSelects, AddInserts, CapabilitiesUpdate,
        RemoveUpdates, TransferDemotes, TransferPromotes, TransferPoints, CloseCloses,
        CloseDeactivates, SaveCursor, StatementFails, BlockMissed
<1>3. ASSUME QueryChain \/ LoadRows \/ PassFails PROVE UNCHANGED requestVars
  BY <1>3 DEF QueryChain, LoadRows, PassFails
<1>4. ASSUME UNCHANGED vars PROVE UNCHANGED requestVars
  BY <1>4 DEF vars
<1> QED BY <1>1, <1>2, <1>3, <1>4 DEF Next, Watcher

\* A request is never forgotten, and never changes hands.
LEMMA RequestsKept ==
  ASSUME TypeOK, [Next]_vars, NEW q \in Requests, status[q] # "none"
  PROVE  status'[q] # "none" /\ who'[q] = who[q]
<1>1. CASE UNCHANGED requestVars
  BY <1>1 DEF requestVars
<1>2. ASSUME NEW r \in Requests,
             \/ \E p \in People : CheckJoinRequest(r, p)
             \/ SubmitJoinRequest(r) \/ ApproveJoinRequest(r) \/ CancelJoinApproval(r)
             \/ CheckDenial(r) \/ DenyJoinRequest(r) \/ TenMinutes(r)
      PROVE  status'[q] # "none" /\ who'[q] = who[q]
  BY <1>2 DEF CheckJoinRequest, SubmitJoinRequest, ApproveJoinRequest, CancelJoinApproval,
              CheckDenial, DenyJoinRequest, TenMinutes, Revert, TypeOK
<1>3. CASE AddApproves \/ RevertStale \/ Crash
  BY <1>3 DEF AddApproves, RevertStale, Revert, Crash, TypeOK
<1> QED BY <1>1, <1>2, <1>3, RequestSteps

\* A request comes to be by being asked for.
LEMMA RequestsBegin ==
  ASSUME TypeOK, Located, Asked, [Next]_vars,
         NEW q \in Requests, status[q] = "none", status'[q] # "none"
  PROVE  \E p \in People : CheckJoinRequest(q, p)
<1>1. CASE UNCHANGED requestVars
  BY <1>1 DEF requestVars
<1>2. ASSUME NEW r \in Requests, NEW p \in People, CheckJoinRequest(r, p)
      PROVE  q = r
  BY <1>2 DEF CheckJoinRequest, TypeOK
<1>3. ASSUME NEW r \in Requests,
             \/ SubmitJoinRequest(r) \/ ApproveJoinRequest(r) \/ CancelJoinApproval(r)
             \/ CheckDenial(r) \/ TenMinutes(r)
      PROVE  FALSE
  BY <1>3 DEF SubmitJoinRequest, ApproveJoinRequest, CancelJoinApproval,
              CheckDenial, TenMinutes, Revert, TypeOK
<1>4. ASSUME NEW r \in Requests, DenyJoinRequest(r) PROVE FALSE
  BY <1>4 DEF DenyJoinRequest, TypeOK, Asked
<1>5. ASSUME AddApproves PROVE FALSE
  BY <1>5 DEF AddApproves, Asked, TypeOK
<1>6. CASE RevertStale \/ Crash
  BY <1>6 DEF RevertStale, Revert, Crash, TypeOK
<1> QED BY <1>1, <1>2, <1>3, <1>4, <1>5, <1>6, RequestSteps

\* The steps of the watcher, apart from the others.
LEMMA WatcherSteps ==
  ASSUME [Next]_vars
  PROVE  UNCHANGED watcherVars \/ Watcher \/ StatementFails \/ BlockMissed \/ Crash
<1>1. ASSUME NEW p \in People,
             \/ AddMember(p) \/ SetMemberCapabilities(p) \/ RemoveMember(p)
             \/ TransferLeadership(p) \/ AddNotIncluded(p)
             \/ InviteMember(p) \/ Subscribe(p) \/ GrantFreeRecall(p) \/ RevokeRecall(p)
             \/ Heal(p) \/ Confirm(p) \/ HealFails(p)
      PROVE  UNCHANGED watcherVars
  BY <1>1 DEF AddMember, SetMemberCapabilities, RemoveMember, TransferLeadership, OnChain,
              AddNotIncluded, InviteMember, Subscribe, GrantFreeRecall, RevokeRecall, SetRecall,
              Heal, Confirm, HealFails, Corrects
<1>2. ASSUME NEW r \in Requests,
             \/ \E p \in People : CheckJoinRequest(r, p)
             \/ SubmitJoinRequest(r) \/ ApproveJoinRequest(r) \/ CancelJoinApproval(r)
             \/ CheckDenial(r) \/ DenyJoinRequest(r) \/ TenMinutes(r)
      PROVE  UNCHANGED watcherVars
  BY <1>2 DEF CheckJoinRequest, SubmitJoinRequest, ApproveJoinRequest, CancelJoinApproval,
              CheckDenial, DenyJoinRequest, TenMinutes
<1>3. ASSUME CloseOrg \/ QueryChain \/ LoadRows \/ RevertStale \/ PassFails \/ UNCHANGED vars
      PROVE  UNCHANGED watcherVars
  BY <1>3 DEF CloseOrg, OnChain, QueryChain, LoadRows, RevertStale, PassFails, PassEnds, vars
<1> QED BY <1>1, <1>2, <1>3 DEF Next

\* A request keeps its applicant, whoever writes it.
LEMMA AskedStep == TypeOK /\ Located /\ Asked /\ [Next]_vars => Asked'
<1> SUFFICES ASSUME TypeOK, Located, Asked, [Next]_vars PROVE Asked'
  OBVIOUS
<1> DEFINE InHand == step \in {"insert", "approve"} /\ chosen.request # 0 =>
              status[chosen.request] # "none" /\ who[chosen.request] = Current.who
<1>1. ASSUME NEW r \in Requests, status'[r] # "none" PROVE who'[r] \in People
  <2>1. CASE status[r] # "none"
    BY <1>1, <2>1, RequestsKept DEF Asked
  <2>2. CASE status[r] = "none"
    <3>1. PICK p \in People : CheckJoinRequest(r, p)
      BY <1>1, <2>2, RequestsBegin
    <3> QED BY <3>1 DEF CheckJoinRequest, TypeOK
  <2> QED BY <2>1, <2>2
<1>2. ASSUME NEW r \in denying' PROVE status'[r] # "none"
  <2>1. r \in Requests /\ status[r] # "none"
    <3>1. CASE r \in denying
      BY <3>1 DEF Asked, TypeOK
    <3>2. CASE r \notin denying
      <4>1. r \in Requests /\ CheckDenial(r)
        BY <1>2, <3>2, RequestSteps
        DEF requestVars, CheckJoinRequest, SubmitJoinRequest, ApproveJoinRequest,
            CancelJoinApproval, CheckDenial, DenyJoinRequest, TenMinutes, AddApproves, RevertStale, Crash
      <4> QED BY <1>2, <4>1 DEF CheckDenial, TypeOK
    <3> QED BY <3>1, <3>2
  <2> QED BY <2>1, RequestsKept
<1>3. (step' = "approve" => chosen'.request # 0) /\ InHand'
  <2>1. CASE UNCHANGED watcherVars
    <3>1. ASSUME step # "idle" PROVE Current' = Current
      <4>1. seen + 1 \in 1..Len(log)
        BY <3>1, LogGrows DEF Located, TypeOK
      <4> QED BY <2>1, <4>1, LogGrows DEF Current, watcherVars
    <3>2. chosen.request # 0 => chosen.request \in Requests
      BY DEF TypeOK
    <3> QED BY <2>1, <3>1, <3>2, RequestsKept DEF Asked, watcherVars
  <2>2. CASE AddSelects
    <3>1. chosen' = NoRequest \/ \E r \in Requests :
            IsFor(r, Current.who) /\ chosen' = [request |-> r, trial |-> onTrial[r]]
      BY <2>2 DEF AddSelects, IsBest
    <3>2. step' = "insert" /\ UNCHANGED <<status, who, Current>>
      BY <2>2 DEF AddSelects, GoesTo, requestVars, chainVars, Current
    <3> QED BY <3>1, <3>2 DEF NoRequest, IsFor, Open
  <2>3. CASE AddInserts
    <3>1. UNCHANGED <<status, who, chosen, Current>> /\ step = "insert"
          /\ step' = (IF chosen.request = 0 THEN "save" ELSE "approve")
      BY <2>3 DEF AddInserts, GoesTo, requestVars, chainVars, Current
    <3> QED BY <3>1 DEF Asked
  <2>4. CASE \/ AddUpdates \/ AddApproves \/ CapabilitiesUpdate \/ RemoveUpdates
            \/ TransferDemotes \/ TransferPromotes \/ TransferPoints
            \/ CloseCloses \/ CloseDeactivates \/ SaveCursor \/ StatementFails \/ Crash
    <3>1. step' \notin {"insert", "approve"}
      BY <2>4 DEF AddUpdates, AddApproves, CapabilitiesUpdate, RemoveUpdates, TransferDemotes,
            TransferPromotes, TransferPoints, CloseCloses, CloseDeactivates, SaveCursor,
            StatementFails, Crash, GoesTo
    <3> QED BY <3>1
  <2>5. CASE BlockMissed
    BY <2>5 DEF BlockMissed
  <2> QED BY <2>1, <2>2, <2>3, <2>4, <2>5, WatcherSteps DEF Watcher
<1> QED BY <1>1, <1>2, <1>3 DEF Asked

(***************************************************************************)
(* Rows are never deleted, and an approval follows its row.                *)
(***************************************************************************)
LEMMA RowSteps ==
  ASSUME [Next]_vars
  PROVE  \/ UNCHANGED row
         \/ \E p \in People : InviteMember(p) \/ Heal(p)
         \/ AddUpdates \/ AddInserts \/ CapabilitiesUpdate \/ TransferDemotes \/ TransferPromotes
<1>1. ASSUME NEW p \in People,
             \/ AddMember(p) \/ SetMemberCapabilities(p) \/ RemoveMember(p)
             \/ TransferLeadership(p) \/ AddNotIncluded(p)
             \/ Subscribe(p) \/ GrantFreeRecall(p) \/ RevokeRecall(p)
             \/ Confirm(p) \/ HealFails(p)
      PROVE  UNCHANGED row
  BY <1>1 DEF AddMember, SetMemberCapabilities, RemoveMember, TransferLeadership, OnChain,
              AddNotIncluded, Subscribe, GrantFreeRecall, RevokeRecall, SetRecall,
              Confirm, HealFails, rowVars
<1>2. ASSUME NEW r \in Requests,
             \/ \E p \in People : CheckJoinRequest(r, p)
             \/ SubmitJoinRequest(r) \/ ApproveJoinRequest(r) \/ CancelJoinApproval(r)
             \/ CheckDenial(r) \/ DenyJoinRequest(r) \/ TenMinutes(r)
      PROVE  UNCHANGED row
  BY <1>2 DEF CheckJoinRequest, SubmitJoinRequest, ApproveJoinRequest, CancelJoinApproval,
              CheckDenial, DenyJoinRequest, TenMinutes, rowVars
<1>3. ASSUME \/ CloseOrg \/ AddSelects \/ AddApproves \/ RemoveUpdates \/ TransferPoints
             \/ CloseCloses \/ CloseDeactivates \/ SaveCursor \/ StatementFails \/ BlockMissed
      PROVE  UNCHANGED row
  BY <1>3 DEF CloseOrg, OnChain, AddSelects, AddApproves, RemoveUpdates, TransferPoints,
        CloseCloses, CloseDeactivates, SaveCursor, StatementFails, BlockMissed, rowVars
<1>4. ASSUME QueryChain \/ LoadRows \/ RevertStale \/ PassFails \/ Crash \/ UNCHANGED vars
      PROVE  UNCHANGED row
  BY <1>4 DEF QueryChain, LoadRows, RevertStale, PassFails, PassEnds, Crash, rowVars, vars
<1> QED BY <1>1, <1>2, <1>3, <1>4 DEF Next, Watcher

\* The steps of the reconciler, apart from the others.
LEMMA PassSteps ==
  ASSUME [Next]_vars
  PROVE  \/ UNCHANGED passVars
         \/ QueryChain \/ LoadRows \/ RevertStale \/ PassFails \/ Crash
         \/ \E p \in People : Heal(p) \/ Confirm(p) \/ HealFails(p)
<1>1. ASSUME NEW p \in People,
             \/ AddMember(p) \/ SetMemberCapabilities(p) \/ RemoveMember(p)
             \/ TransferLeadership(p) \/ AddNotIncluded(p)
             \/ InviteMember(p) \/ Subscribe(p) \/ GrantFreeRecall(p) \/ RevokeRecall(p)
      PROVE  UNCHANGED passVars
  BY <1>1 DEF AddMember, SetMemberCapabilities, RemoveMember, TransferLeadership, OnChain,
              AddNotIncluded, InviteMember, Subscribe, GrantFreeRecall, RevokeRecall, SetRecall
<1>2. ASSUME NEW r \in Requests,
             \/ \E p \in People : CheckJoinRequest(r, p)
             \/ SubmitJoinRequest(r) \/ ApproveJoinRequest(r) \/ CancelJoinApproval(r)
             \/ CheckDenial(r) \/ DenyJoinRequest(r) \/ TenMinutes(r)
      PROVE  UNCHANGED passVars
  BY <1>2 DEF CheckJoinRequest, SubmitJoinRequest, ApproveJoinRequest, CancelJoinApproval,
              CheckDenial, DenyJoinRequest, TenMinutes
<1>3. ASSUME CloseOrg \/ Watcher \/ StatementFails \/ BlockMissed PROVE UNCHANGED passVars
  BY <1>3 DEF CloseOrg, OnChain, Watcher, AddUpdates, AddSelects, AddInserts, AddApproves,
        CapabilitiesUpdate, RemoveUpdates, TransferDemotes, TransferPromotes, TransferPoints,
        CloseCloses, CloseDeactivates, SaveCursor, StatementFails, BlockMissed, GoesTo
<1>4. ASSUME UNCHANGED vars PROVE UNCHANGED passVars
  BY <1>4 DEF vars
<1> QED BY <1>1, <1>2, <1>3, <1>4 DEF Next

\* A row that will be corrected is one of a member in the list the pass was
\* given; a request is approved when the row is there.
Approved ==
  /\ ApprovedAreMembers
  /\ step = "approve" => row[Current.who] # Nobody
  /\ \A p \in heals : snapshot[p] # Nobody
  /\ pass # "heal" => heals = {}

\* No step deletes a member row.
LEMMA RowsKept ==
  ASSUME TypeOK, Located, Approved, [Next]_vars, NEW q \in People, row[q] # Nobody
  PROVE  row'[q] # Nobody
<1>1. Plain # Nobody /\ \A b \in BOOLEAN : [Plain EXCEPT !.mod = b] # Nobody
  BY DEF Plain, Nobody
<1>2. row[q] \in Membership /\ row \in [People -> Membership]
  BY DEF TypeOK
<1>3. ASSUME seen < Len(log) PROVE Current.who \in People /\ Current.mod \in BOOLEAN
  BY <1>3, CurrentType
<1>4. ASSUME NEW p \in People, InviteMember(p) PROVE row'[q] # Nobody
  BY <1>1, <1>2, <1>4 DEF InviteMember
<1>5. ASSUME NEW p \in People, Heal(p) PROVE row'[q] # Nobody
  BY <1>2, <1>5 DEF Heal, Approved
<1>6. CASE AddUpdates
  <2>1. seen < Len(log)
    BY <1>6 DEF AddUpdates, Begins
  <2> QED BY <1>1, <1>2, <1>3, <1>6, <2>1 DEF AddUpdates, rowVars
<1>7. CASE AddInserts
  <2>1. seen < Len(log)
    BY <1>7 DEF AddInserts, Located
  <2> QED BY <1>1, <1>2, <1>3, <1>7, <2>1 DEF AddInserts
<1>8. CASE CapabilitiesUpdate
  <2>1. Current.mod \in BOOLEAN
    BY <1>3, <1>8 DEF CapabilitiesUpdate, Begins
  <2>2. [row[q] EXCEPT !.mod = Current.mod] # Nobody
    BY <1>2, <2>1, Seats
  <2> QED BY <1>2, <1>8, <2>2 DEF CapabilitiesUpdate
<1>9. CASE TransferDemotes
  <2>1. [row[q] EXCEPT !.role = "member"] # Nobody
    BY <1>2, Seats
  <2> QED BY <1>9, <2>1 DEF TransferDemotes
<1>10. CASE TransferPromotes
  <2>1. [row[q] EXCEPT !.role = "leader"] # Nobody
    BY <1>2, Seats
  <2> QED BY <1>2, <1>10, <2>1 DEF TransferPromotes
<1> QED BY <1>4, <1>5, <1>6, <1>7, <1>8, <1>9, <1>10, RowSteps

\* Every step leaves an approved request with its row.
LEMMA ApprovedStep ==
  TypeOK /\ Located /\ Asked /\ Approved /\ [Next]_vars => Approved'
<1> SUFFICES ASSUME TypeOK, Located, Asked, Approved, [Next]_vars PROVE Approved'
  OBVIOUS
<1>1. ASSUME NEW r \in Requests, status'[r] = "approved" PROVE row'[who'[r]] # Nobody
  <2>1. CASE status[r] = "approved"
    <3>1. who'[r] = who[r] /\ who[r] \in People /\ row[who[r]] # Nobody
      BY <2>1, RequestsKept DEF Approved, ApprovedAreMembers, Asked
    <3> QED BY <3>1, RowsKept
  <2>2. CASE status[r] # "approved"
    <3>1. AddApproves /\ r = chosen.request
      <4>1. CASE UNCHANGED requestVars
        BY <1>1, <2>2, <4>1 DEF requestVars
      <4>2. ASSUME NEW q \in Requests,
                   \/ \E p \in People : CheckJoinRequest(q, p)
                   \/ SubmitJoinRequest(q) \/ ApproveJoinRequest(q) \/ CancelJoinApproval(q)
                   \/ CheckDenial(q) \/ DenyJoinRequest(q) \/ TenMinutes(q)
            PROVE  FALSE
        BY <1>1, <2>2, <4>2 DEF CheckJoinRequest, SubmitJoinRequest, ApproveJoinRequest,
              CancelJoinApproval, CheckDenial, DenyJoinRequest, TenMinutes, Revert, TypeOK
      <4>3. CASE RevertStale \/ Crash
        BY <1>1, <2>2, <4>3 DEF RevertStale, Revert, Crash, TypeOK
      <4>4. CASE AddApproves
        BY <1>1, <2>2, <4>4 DEF AddApproves, TypeOK
      <4> QED BY <4>1, <4>2, <4>3, <4>4, RequestSteps
    <3>2. UNCHANGED <<row, who>> /\ step = "approve"
      BY <3>1 DEF AddApproves, rowVars
    <3>3. who[r] = Current.who /\ row[Current.who] # Nobody
      BY <3>1, <3>2 DEF Asked, Approved
    <3> QED BY <3>2, <3>3
  <2> QED BY <2>1, <2>2
<1>2. ASSUME step' = "approve" PROVE row'[Current'.who] # Nobody
  <2>1. CASE UNCHANGED watcherVars
    <3>1. step = "approve" /\ seen < Len(log) /\ Current' = Current
      <4>1. step = "approve" /\ seen < Len(log) /\ seen + 1 \in 1..Len(log)
        BY <1>2, <2>1, LogGrows DEF Located, TypeOK, watcherVars
      <4> QED BY <2>1, <4>1, LogGrows DEF Current, watcherVars
    <3> QED BY <3>1, RowsKept, CurrentType DEF Approved
  <2>2. CASE ~ UNCHANGED watcherVars
    <3>1. CASE AddInserts
      <4>1. UNCHANGED Current /\ Current.who \in People /\ Current.mod \in BOOLEAN
        BY <3>1, CurrentType DEF AddInserts, GoesTo, chainVars, Current, Located
      <4>2. row'[Current.who] = [Plain EXCEPT !.mod = Current.mod]
        BY <3>1, <4>1 DEF AddInserts, TypeOK
      <4> QED BY <4>1, <4>2 DEF Plain, Nobody
    <3>2. ASSUME \/ AddUpdates \/ AddSelects \/ AddApproves \/ CapabilitiesUpdate \/ RemoveUpdates
                 \/ TransferDemotes \/ TransferPromotes \/ TransferPoints
                 \/ CloseCloses \/ CloseDeactivates \/ SaveCursor \/ StatementFails
                 \/ BlockMissed \/ Crash
          PROVE  FALSE
      BY <1>2, <3>2 DEF AddUpdates, AddSelects, AddApproves, CapabilitiesUpdate, RemoveUpdates,
            TransferDemotes, TransferPromotes, TransferPoints, CloseCloses, CloseDeactivates,
            SaveCursor, StatementFails, BlockMissed, Crash, GoesTo
    <3> QED BY <2>2, <3>1, <3>2, WatcherSteps DEF Watcher
  <2> QED BY <2>1, <2>2
<1>3. (\A p \in heals' : snapshot'[p] # Nobody) /\ (pass' # "heal" => heals' = {})
  <2>1. CASE LoadRows
    BY <2>1 DEF LoadRows, OnBoth
  <2>2. CASE RevertStale \/ PassFails \/ Crash
    BY <2>2 DEF RevertStale, PassFails, PassEnds, Crash
  <2>3. ASSUME NEW q \in People, Heal(q) \/ Confirm(q) \/ HealFails(q)
        PROVE  (\A p \in heals' : snapshot'[p] # Nobody) /\ (pass' # "heal" => heals' = {})
    BY <2>3 DEF Heal, Confirm, HealFails, Corrects, Approved
  <2>4. CASE QueryChain
    BY <2>4 DEF QueryChain, Approved
  <2>5. CASE UNCHANGED passVars
    BY <2>5 DEF passVars, Approved
  <2> QED BY <2>1, <2>2, <2>3, <2>4, <2>5, PassSteps
<1> QED BY <1>1, <1>2, <1>3 DEF Approved, ApprovedAreMembers

(***************************************************************************)
(* The rows follow the chain.                                              *)
(***************************************************************************)
\* In the first n messages of the chain, p is the founder or was added, and
\* was added again after every removal.
Adds(i, p) == log[i].op = "add" /\ log[i].who = p
Removes(i, p) == log[i].op = "remove" /\ log[i].who = p
Held(p, n) ==
  /\ p = Founder \/ \E k \in 1..n : Adds(k, p)
  /\ \A j \in 1..n : Removes(j, p) => \E k \in j + 1..n : Adds(k, p)

\* The chain removes, promotes and lists members only.
Chained ==
  /\ \A p \in People : roster[p] # Nobody => Held(p, Len(log))
  /\ \A i \in 1..Len(log) :
       log[i].op \in {"remove", "transfer"} => Held(log[i].who, i - 1)

\* Every message up to Done has had its effect.  What it says holds still,
\* unless a later one, up to the message in hand, says otherwise: that one may
\* have been done in part, and again after a restart.
Calm == ~ closed /\ ~ Happened("miss") /\ ~ Happened("update")
Done == IF step \in {"approve", "save"} THEN seen + 1 ELSE seen
LastAbout(i) ==
  /\ log[i].op \in {"add", "remove"}
  /\ \A j \in 1..Len(log) : i < j /\ j <= seen + 1 /\ log[j].op \in {"add", "remove"} =>
       log[j].who # log[i].who
LastTransfer(i) ==
  /\ log[i].op = "transfer"
  /\ \A j \in 1..Len(log) : i < j /\ j <= seen + 1 => log[j].op # "transfer"
Follows(i) ==
  IF log[i].op = "add" THEN log[i].who \in active \cap confirmed ELSE log[i].who \notin active
Followed ==
  /\ row[Founder] # Nobody
  /\ Calm => \A i \in 1..Done :
       /\ LastAbout(i) => Follows(i)
       /\ LastTransfer(i) => leader = log[i].who
       /\ log[i].op = "add" => row[log[i].who] # Nobody

\* The chain moves by its own steps only.
LEMMA ChainSteps ==
  ASSUME [Next]_vars
  PROVE  \/ UNCHANGED <<log, roster>>
         \/ CloseOrg
         \/ \E p \in People : \/ AddMember(p) \/ SetMemberCapabilities(p)
                              \/ RemoveMember(p) \/ TransferLeadership(p)
<1>1. ASSUME NEW p \in People,
             \/ AddNotIncluded(p) \/ InviteMember(p)
             \/ Subscribe(p) \/ GrantFreeRecall(p) \/ RevokeRecall(p)
             \/ Heal(p) \/ Confirm(p) \/ HealFails(p)
      PROVE  UNCHANGED <<log, roster>>
  BY <1>1 DEF AddNotIncluded, InviteMember, Subscribe, GrantFreeRecall, RevokeRecall, SetRecall,
              Heal, Confirm, HealFails, Corrects, chainVars
<1>2. ASSUME NEW r \in Requests,
             \/ \E p \in People : CheckJoinRequest(r, p)
             \/ SubmitJoinRequest(r) \/ ApproveJoinRequest(r) \/ CancelJoinApproval(r)
             \/ CheckDenial(r) \/ DenyJoinRequest(r) \/ TenMinutes(r)
      PROVE  UNCHANGED <<log, roster>>
  BY <1>2 DEF CheckJoinRequest, SubmitJoinRequest, ApproveJoinRequest, CancelJoinApproval,
              CheckDenial, DenyJoinRequest, TenMinutes, chainVars
<1>3. ASSUME Watcher \/ StatementFails \/ BlockMissed PROVE UNCHANGED <<log, roster>>
  BY <1>3 DEF Watcher, AddUpdates, AddSelects, AddInserts, AddApproves, CapabilitiesUpdate,
        RemoveUpdates, TransferDemotes, TransferPromotes, TransferPoints, CloseCloses,
        CloseDeactivates, SaveCursor, StatementFails, BlockMissed, GoesTo, chainVars
<1>4. ASSUME QueryChain \/ LoadRows \/ RevertStale \/ PassFails \/ Crash \/ UNCHANGED vars
      PROVE  UNCHANGED <<log, roster>>
  BY <1>4 DEF QueryChain, LoadRows, RevertStale, PassFails, PassEnds, Crash, chainVars, vars
<1> QED BY <1>1, <1>2, <1>3, <1>4 DEF Next

\* Whoever leaves the roster leaves it in a removal, and whoever enters it is added.
LEMMA RosterSteps ==
  ASSUME TypeOK, [Next]_vars, ~ UNCHANGED <<log, roster>>
  PROVE  /\ Len(log') = Len(log) + 1
         /\ LET m == log'[Len(log) + 1] IN
            /\ m.op = "add" => \A q \in People : q # m.who => roster'[q] = roster[q]
            /\ m.op # "add" => \A q \in People : roster'[q] # Nobody => roster[q] # Nobody
            /\ m.op = "remove" => roster'[m.who] = Nobody
            /\ m.op \in {"remove", "transfer"} => m.who \in People /\ roster[m.who] # Nobody
<1> DEFINE m == log'[Len(log) + 1]
<1>0. /\ Nobody.role = "none" /\ roster \in [People -> Membership]
      /\ \A q \in People : roster[q] \in Membership
  BY DEF Nobody, TypeOK
<1>1. ASSUME NEW op, NEW q, NEW mod, NEW r, OnChain(op, q, mod, r)
      PROVE  /\ Len(log') = Len(log) + 1 /\ m.op = op /\ m.who = q /\ roster' = r
  BY <1>1 DEF OnChain, TypeOK
<1>2. ASSUME NEW p \in People, AddMember(p)
      PROVE  /\ Len(log') = Len(log) + 1 /\ m.op = "add" /\ m.who = p
             /\ \A q \in People : q # p => roster'[q] = roster[q]
  <2>1. OnChain("add", p, FALSE, [roster EXCEPT ![p] = Plain])
    BY <1>2 DEF AddMember
  <2>2. Len(log') = Len(log) + 1 /\ m.op = "add" /\ m.who = p
        /\ roster' = [roster EXCEPT ![p] = Plain]
    BY <1>1, <2>1
  <2> QED BY <1>0, <2>2
<1>3. ASSUME NEW p \in People, SetMemberCapabilities(p)
      PROVE  /\ Len(log') = Len(log) + 1 /\ m.op = "caps"
             /\ \A q \in People : roster'[q] # Nobody => roster[q] # Nobody
  <2>1. roster[p] # Nobody
    BY <1>0, <1>3 DEF SetMemberCapabilities
  <2>2. OnChain("caps", p, ~ roster[p].mod, [roster EXCEPT ![p].mod = ~ @])
    BY <1>3 DEF SetMemberCapabilities
  <2>3. Len(log') = Len(log) + 1 /\ m.op = "caps" /\ roster' = [roster EXCEPT ![p].mod = ~ @]
    BY <1>1, <2>2
  <2> QED BY <1>0, <2>1, <2>3
<1>4. ASSUME NEW p \in People, RemoveMember(p)
      PROVE  /\ Len(log') = Len(log) + 1 /\ m.op = "remove" /\ m.who = p
             /\ \A q \in People : roster'[q] # Nobody => roster[q] # Nobody
             /\ roster'[p] = Nobody /\ roster[p] # Nobody
  <2>1. roster[p] # Nobody
    BY <1>0, <1>4 DEF RemoveMember
  <2>2. OnChain("remove", p, FALSE, [roster EXCEPT ![p] = Nobody])
    BY <1>4 DEF RemoveMember
  <2>3. Len(log') = Len(log) + 1 /\ m.op = "remove" /\ m.who = p
        /\ roster' = [roster EXCEPT ![p] = Nobody]
    BY <1>1, <2>2
  <2> QED BY <1>0, <2>1, <2>3
<1>5. ASSUME NEW p \in People, TransferLeadership(p)
      PROVE  /\ Len(log') = Len(log) + 1 /\ m.op = "transfer" /\ m.who = p
             /\ \A q \in People : roster'[q] # Nobody => roster[q] # Nobody
             /\ roster[p] # Nobody
  <2>1. roster[p] # Nobody
    BY <1>0, <1>5 DEF TransferLeadership
  <2> DEFINE r == [q \in People |->
                IF q = p THEN [roster[q] EXCEPT !.role = "leader"]
                ELSE IF roster[q].role = "leader" THEN [roster[q] EXCEPT !.role = "member"]
                ELSE roster[q]]
  <2>2. OnChain("transfer", p, FALSE, r)
    BY <1>5 DEF TransferLeadership
  <2>3. ASSUME NEW q \in People, r[q] # Nobody PROVE roster[q] # Nobody
    <3>1. roster[q].role = "leader" => roster[q] # Nobody
      BY <1>0
    <3> QED BY <2>1, <2>3, <3>1
  <2> HIDE DEF r
  <2>4. Len(log') = Len(log) + 1 /\ m.op = "transfer" /\ m.who = p /\ roster' = r
    BY <1>1, <2>2
  <2> QED BY <2>1, <2>3, <2>4
<1>6. ASSUME CloseOrg
      PROVE  /\ Len(log') = Len(log) + 1 /\ m.op = "close" /\ UNCHANGED roster
  BY <1>1, <1>6 DEF CloseOrg
<1> HIDE DEF m
<1> QED BY <1>2, <1>3, <1>4, <1>5, <1>6, ChainSteps DEF m

\* The chain goes on removing and promoting members only.
LEMMA ChainedStep == TypeOK /\ Chained /\ [Next]_vars => Chained'
<1> SUFFICES ASSUME TypeOK, Chained, [Next]_vars PROVE Chained'
  OBVIOUS
<1> DEFINE m == log'[Len(log) + 1]
           AddsThen(k, q) == log'[k].op = "add" /\ log'[k].who = q
           RemovesThen(k, q) == log'[k].op = "remove" /\ log'[k].who = q
           HeldThen(q, n) ==
             /\ q = Founder \/ \E k \in 1..n : AddsThen(k, q)
             /\ \A j \in 1..n : RemovesThen(j, q) => \E k \in j + 1..n : AddsThen(k, q)
<1>0. /\ Len(log) \in Nat /\ Len(log') \in Nat /\ Len(log) <= Len(log')
      /\ \A i \in 1..Len(log) : log'[i] = log[i]
  BY LogGrows
<1>1. CASE UNCHANGED <<log, roster>>
  BY <1>1 DEF Chained, Held, Adds, Removes
<1>2. CASE ~ UNCHANGED <<log, roster>>
  <2>0. /\ Len(log') = Len(log) + 1 /\ Len(log) \in 0..Len(log)
        /\ 1..Len(log') = (1..Len(log)) \cup {Len(log) + 1}
    BY <1>0, <1>2, RosterSteps
  <2>1. ASSUME NEW q, NEW n \in 0..Len(log), Held(q, n) PROVE HeldThen(q, n)
    <3>1. \A k \in 1..n : log'[k] = log[k]
      BY <1>0
    <3> QED BY <2>1, <3>1 DEF Held, Adds, Removes
  <2>2. ASSUME NEW q \in People, roster'[q] # Nobody PROVE HeldThen(q, Len(log'))
    <3> DEFINE n == Len(log')
    <3>1. CASE m.op = "add" /\ m.who = q
      <4>1. AddsThen(n, q) /\ n \in 1..n
        BY <2>0, <3>1, <1>0
      <4>2. ASSUME NEW j \in 1..n, RemovesThen(j, q) PROVE n \in j + 1..n
        <5>1. j # n
          BY <4>1, <4>2
        <5> QED BY <5>1, <1>0
      <4> HIDE DEF AddsThen, RemovesThen
      <4> QED BY <4>1, <4>2
    <3>2. CASE ~ (m.op = "add" /\ m.who = q)
      <4>1. roster[q] # Nobody /\ ~ (m.op = "remove" /\ m.who = q)
        BY <1>2, <2>2, <3>2, RosterSteps
      <4>2. HeldThen(q, Len(log))
        BY <2>0, <2>1, <4>1 DEF Chained
      <4>3. ASSUME NEW j \in 1..n, RemovesThen(j, q) PROVE j \in 1..Len(log)
        BY <2>0, <4>1, <4>3
      <4>4. Len(log) <= n
        BY <1>0
      <4> HIDE DEF AddsThen, RemovesThen
      <4> QED BY <1>0, <4>2, <4>3, <4>4
    <3> QED BY <3>1, <3>2
  <2>3. ASSUME NEW i \in 1..Len(log'), log'[i].op \in {"remove", "transfer"}
        PROVE  HeldThen(log'[i].who, i - 1)
    <3>0. i - 1 \in 0..Len(log)
      BY <1>0, <2>0
    <3>1. Held(log'[i].who, i - 1)
      <4>1. CASE i \in 1..Len(log)
        BY <1>0, <2>3, <4>1 DEF Chained
      <4>2. CASE i = Len(log) + 1
        <5>1. log'[i].who \in People /\ roster[log'[i].who] # Nobody /\ i - 1 = Len(log)
          BY <1>0, <1>2, <2>3, <4>2, RosterSteps
        <5> QED BY <5>1 DEF Chained
      <4> QED BY <2>0, <4>1, <4>2
    <3> HIDE DEF HeldThen
    <3> QED BY <2>1, <3>0, <3>1
  <2> QED BY <2>2, <2>3 DEF Chained, Held, Adds, Removes
<1> QED BY <1>1, <1>2

\* What goes wrong is not forgotten, and a closed organisation stays closed.
LEMMA CalmBefore ==
  ASSUME TypeOK, [Next]_vars, Calm'
  PROVE  Calm /\ ~ StatementFails /\ ~ BlockMissed /\ ~ CloseCloses
<1>1. faults' = faults \/ \E kind \in FaultKinds : faults' = Append(faults, kind)
  <2>1. ASSUME NEW p \in People,
               \/ AddMember(p) \/ SetMemberCapabilities(p) \/ RemoveMember(p)
               \/ TransferLeadership(p) \/ AddNotIncluded(p)
               \/ InviteMember(p) \/ Subscribe(p) \/ GrantFreeRecall(p) \/ RevokeRecall(p)
               \/ Heal(p) \/ Confirm(p)
        PROVE  faults' = faults
    BY <2>1 DEF AddMember, SetMemberCapabilities, RemoveMember, TransferLeadership, OnChain,
              AddNotIncluded, InviteMember, Subscribe, GrantFreeRecall, RevokeRecall, SetRecall,
              Heal, Confirm
  <2>2. ASSUME NEW r \in Requests,
               \/ \E p \in People : CheckJoinRequest(r, p)
               \/ SubmitJoinRequest(r) \/ ApproveJoinRequest(r) \/ CancelJoinApproval(r)
               \/ CheckDenial(r) \/ DenyJoinRequest(r) \/ TenMinutes(r)
        PROVE  faults' = faults
    BY <2>2 DEF CheckJoinRequest, SubmitJoinRequest, ApproveJoinRequest, CancelJoinApproval,
                CheckDenial, DenyJoinRequest, TenMinutes
  <2>3. ASSUME CloseOrg \/ Watcher PROVE faults' = faults
    BY <2>3 DEF CloseOrg, OnChain, Watcher, AddUpdates, AddSelects, AddInserts, AddApproves,
          CapabilitiesUpdate, RemoveUpdates, TransferDemotes, TransferPromotes, TransferPoints,
          CloseCloses, CloseDeactivates, SaveCursor, GoesTo
  <2>4. ASSUME QueryChain \/ LoadRows \/ RevertStale \/ UNCHANGED vars PROVE faults' = faults
    BY <2>4 DEF QueryChain, LoadRows, RevertStale, vars
  <2>5. ASSUME \/ StatementFails \/ BlockMissed \/ PassFails \/ Crash
               \/ \E p \in People : HealFails(p)
        PROVE  \E kind \in FaultKinds : faults' = Append(faults, kind)
    BY <2>5 DEF StatementFails, BlockMissed, PassFails, Crash, HealFails, Fault
  <2> QED BY <2>1, <2>2, <2>3, <2>4, <2>5 DEF Next
<1>2. ASSUME NEW kind, Happened(kind) PROVE Happened(kind)'
  <2>1. CASE faults' = faults
    BY <1>2, <2>1 DEF Happened
  <2>2. ASSUME NEW k \in FaultKinds, faults' = Append(faults, k) PROVE Happened(kind)'
    <3>1. Len(faults') = Len(faults) + 1 /\ Len(faults) \in Nat
          /\ \A i \in 1..Len(faults) : faults'[i] = faults[i]
      BY <2>2 DEF TypeOK
    <3>2. 1..Len(faults) \subseteq 1..Len(faults')
      BY <3>1
    <3> QED BY <1>2, <3>1, <3>2 DEF Happened
  <2> QED BY <1>1, <2>1, <2>2
<1>3. ASSUME closed PROVE closed'
  <2>1. CASE UNCHANGED closed
    BY <1>3, <2>1
  <2>2. CASE CloseCloses
    BY <2>2 DEF CloseCloses
  <2>3. ASSUME NEW p \in People,
               \/ AddMember(p) \/ SetMemberCapabilities(p) \/ RemoveMember(p)
               \/ TransferLeadership(p) \/ AddNotIncluded(p)
               \/ InviteMember(p) \/ Subscribe(p) \/ GrantFreeRecall(p) \/ RevokeRecall(p)
               \/ Heal(p) \/ Confirm(p) \/ HealFails(p)
        PROVE  UNCHANGED closed
    BY <2>3 DEF AddMember, SetMemberCapabilities, RemoveMember, TransferLeadership, OnChain,
              AddNotIncluded, InviteMember, Subscribe, GrantFreeRecall, RevokeRecall, SetRecall,
              Heal, Confirm, HealFails, Corrects, orgVars
  <2>4. ASSUME NEW r \in Requests,
               \/ \E p \in People : CheckJoinRequest(r, p)
               \/ SubmitJoinRequest(r) \/ ApproveJoinRequest(r) \/ CancelJoinApproval(r)
               \/ CheckDenial(r) \/ DenyJoinRequest(r) \/ TenMinutes(r)
        PROVE  UNCHANGED closed
    BY <2>4 DEF CheckJoinRequest, SubmitJoinRequest, ApproveJoinRequest, CancelJoinApproval,
                CheckDenial, DenyJoinRequest, TenMinutes, orgVars
  <2>5. ASSUME \/ CloseOrg \/ AddUpdates \/ AddSelects \/ AddInserts \/ AddApproves
               \/ CapabilitiesUpdate \/ RemoveUpdates \/ TransferDemotes \/ TransferPromotes
               \/ TransferPoints \/ CloseDeactivates \/ SaveCursor
        PROVE  UNCHANGED closed
    BY <2>5 DEF CloseOrg, OnChain, AddUpdates, AddSelects, AddInserts, AddApproves,
          CapabilitiesUpdate, RemoveUpdates, TransferDemotes, TransferPromotes, TransferPoints,
          CloseDeactivates, SaveCursor, orgVars
  <2>6. ASSUME \/ StatementFails \/ BlockMissed \/ QueryChain \/ LoadRows \/ RevertStale
               \/ PassFails \/ Crash \/ UNCHANGED vars
        PROVE  UNCHANGED closed
    BY <2>6 DEF StatementFails, BlockMissed, QueryChain, LoadRows, RevertStale, PassFails,
                PassEnds, Crash, orgVars, vars
  <2> QED BY <2>1, <2>2, <2>3, <2>4, <2>5, <2>6 DEF Next, Watcher
<1>4. ASSUME NEW kind, Fault(kind) PROVE Happened(kind)'
  <2>1. faults' = Append(faults, kind) /\ kind \in FaultKinds /\ faults \in Seq(FaultKinds)
    BY <1>4 DEF Fault, TypeOK
  <2>2. Len(faults') \in 1..Len(faults') /\ faults'[Len(faults')] = kind
    BY <2>1
  <2> QED BY <2>2 DEF Happened
<1>5. ~ StatementFails /\ ~ BlockMissed
  BY <1>4 DEF StatementFails, BlockMissed, Calm
<1>6. ~ CloseCloses
  BY DEF CloseCloses, Calm
<1> QED BY <1>2, <1>3, <1>5, <1>6 DEF Calm

\* Who changes members.active, members.chain_confirmed and orgs.leader_pubkey.
LEMMA ActiveSteps ==
  ASSUME [Next]_vars
  PROVE  \/ UNCHANGED <<active, confirmed, leader>>
         \/ \E p \in People : InviteMember(p) \/ Heal(p) \/ Confirm(p)
         \/ AddUpdates \/ AddInserts \/ CapabilitiesUpdate \/ RemoveUpdates
         \/ TransferPromotes \/ TransferPoints \/ CloseDeactivates
<1>1. ASSUME NEW p \in People,
             \/ AddMember(p) \/ SetMemberCapabilities(p) \/ RemoveMember(p)
             \/ TransferLeadership(p) \/ AddNotIncluded(p)
             \/ Subscribe(p) \/ GrantFreeRecall(p) \/ RevokeRecall(p) \/ HealFails(p)
      PROVE  UNCHANGED <<active, confirmed, leader>>
  BY <1>1 DEF AddMember, SetMemberCapabilities, RemoveMember, TransferLeadership, OnChain,
              AddNotIncluded, Subscribe, GrantFreeRecall, RevokeRecall, SetRecall,
              HealFails, Corrects, rowVars, orgVars
<1>2. ASSUME NEW r \in Requests,
             \/ \E p \in People : CheckJoinRequest(r, p)
             \/ SubmitJoinRequest(r) \/ ApproveJoinRequest(r) \/ CancelJoinApproval(r)
             \/ CheckDenial(r) \/ DenyJoinRequest(r) \/ TenMinutes(r)
      PROVE  UNCHANGED <<active, confirmed, leader>>
  BY <1>2 DEF CheckJoinRequest, SubmitJoinRequest, ApproveJoinRequest, CancelJoinApproval,
              CheckDenial, DenyJoinRequest, TenMinutes, rowVars, orgVars
<1>3. ASSUME \/ CloseOrg \/ AddSelects \/ AddApproves \/ TransferDemotes
             \/ CloseCloses \/ SaveCursor \/ StatementFails \/ BlockMissed
      PROVE  UNCHANGED <<active, confirmed, leader>>
  BY <1>3 DEF CloseOrg, OnChain, AddSelects, AddApproves, TransferDemotes, CloseCloses,
        SaveCursor, StatementFails, BlockMissed, rowVars, orgVars
<1>4. ASSUME QueryChain \/ LoadRows \/ RevertStale \/ PassFails \/ Crash \/ UNCHANGED vars
      PROVE  UNCHANGED <<active, confirmed, leader>>
  BY <1>4 DEF QueryChain, LoadRows, RevertStale, PassFails, PassEnds, Crash, rowVars, orgVars, vars
<1> QED BY <1>1, <1>2, <1>3, <1>4 DEF Next, Watcher

\* Nobody becomes active by invitation or promotion after having been removed.
LEMMA RemovedHaveRows ==
  ASSUME TypeOK, Located, Chained, Followed, Calm, NEW i \in 1..Done, log[i].op = "remove"
  PROVE  row[log[i].who] # Nobody
<1>1. i \in 1..Len(log) /\ i - 1 < Done /\ i \in Nat /\ Done \in Nat
  BY DEF Located, Done, TypeOK
<1>2. Held(log[i].who, i - 1)
  BY <1>1 DEF Chained
<1>3. CASE log[i].who = Founder
  BY <1>3 DEF Followed
<1>4. ASSUME NEW k \in 1..i - 1, Adds(k, log[i].who) PROVE row[log[i].who] # Nobody
  <2>1. k \in 1..Done
    BY <1>1
  <2> QED BY <1>4, <2>1 DEF Followed, Adds
<1> QED BY <1>2, <1>3, <1>4 DEF Held

\* Every step keeps the effects of the messages that were processed.
LEMMA FollowedStep ==
  TypeOK /\ Located /\ Approved /\ Chained /\ Followed /\ [Next]_vars => Followed'
<1> SUFFICES ASSUME TypeOK, Located, Approved, Chained, Followed, [Next]_vars PROVE Followed'
  OBVIOUS
<1>1. row'[Founder] # Nobody
  BY RowsKept, PeopleAssumption DEF Followed
<1> SUFFICES ASSUME Calm', NEW i \in 1..Done'
             PROVE  /\ LastAbout(i)' => Follows(i)'
                    /\ LastTransfer(i)' => leader' = log'[i].who
                    /\ log'[i].op = "add" => row'[log'[i].who] # Nobody
  BY <1>1 DEF Followed
<1>2. Calm /\ ~ StatementFails /\ ~ BlockMissed /\ ~ CloseCloses
  BY CalmBefore
<1>3. /\ seen \in Nat /\ Len(log) \in Nat /\ Len(log') \in Nat /\ Len(log) <= Len(log')
      /\ \A j \in 1..Len(log) : log'[j] = log[j]
      /\ seen <= Done /\ Done <= seen + 1 /\ Done \in Nat /\ Done <= Len(log)
      /\ \A j \in 1..Len(log) : log[j].who \in People
  <2>1. \A j \in 1..Len(log) : log[j] \in Message
    BY DEF TypeOK
  <2> QED BY <2>1, LogGrows DEF Done, Located, Message, TypeOK
<1>4. ASSUME i \in 1..Done
      PROVE  /\ LastAbout(i) => log[i].op \in {"add", "remove"} /\ Follows(i)
             /\ LastTransfer(i) => leader = log[i].who
             /\ log[i].op = "add" => row'[log[i].who] # Nobody
  <2>1. LastAbout(i) => log[i].op \in {"add", "remove"}
    BY DEF LastAbout
  <2>2. log[i].op = "add" => row[log[i].who] # Nobody
    BY <1>2, <1>4 DEF Followed
  <2>3. log[i].who \in People
    BY <1>3, <1>4
  <2> QED BY <1>2, <1>4, <2>1, <2>2, <2>3, RowsKept DEF Followed
\* What is said of a message that had its effect before this step.
<1>5. ASSUME i \in 1..Done, seen' \in {seen, seen + 1}
      PROVE  /\ log'[i] = log[i] /\ i \in 1..Len(log)
             /\ LastAbout(i)' => LastAbout(i)
             /\ LastTransfer(i)' => LastTransfer(i)
             /\ log'[i].op = "add" => row'[log'[i].who] # Nobody
  <2>1. i \in 1..Len(log) /\ log'[i] = log[i] /\ seen' \in Nat
    BY <1>3, <1>5
  <2>2. \A j \in 1..Len(log) : j \in 1..Len(log') /\ (j <= seen + 1 => j <= seen' + 1)
    BY <1>3, <1>5, <2>1
  <2>3. LastAbout(i)' => LastAbout(i)
    BY <1>3, <2>1, <2>2 DEF LastAbout
  <2>4. LastTransfer(i)' => LastTransfer(i)
    BY <1>3, <2>1, <2>2 DEF LastTransfer
  <2> QED BY <1>4, <1>5, <2>1, <2>3, <2>4
\* Steps that leave the rows' flags and the leader alone.
<1>6. ASSUME i \in 1..Done, seen' \in {seen, seen + 1}, active' = active, confirmed \subseteq confirmed',
             leader' = leader
      PROVE  /\ LastAbout(i)' => Follows(i)'
             /\ LastTransfer(i)' => leader' = log'[i].who
             /\ log'[i].op = "add" => row'[log'[i].who] # Nobody
  <2>1. LastAbout(i)' => Follows(i)'
    BY <1>4, <1>5, <1>6 DEF Follows
  <2>2. LastTransfer(i)' => leader' = log'[i].who
    BY <1>4, <1>5, <1>6
  <2>3. log'[i].op = "add" => row'[log'[i].who] # Nobody
    BY <1>5, <1>6
  <2> QED BY <2>1, <2>2, <2>3
\* The message in hand, done by this step: it is about somebody else than
\* an earlier one that counts.
<1>7. ASSUME step \notin {"approve", "save"}, seen' = seen, log' = log, seen < Len(log)
      PROVE  /\ Done = seen /\ seen + 1 \in 1..Len(log) /\ Done' \in {seen, seen + 1}
             /\ i # seen + 1 => i \in 1..Done
             /\ Current \in Message /\ Current = log[seen + 1]
             /\ LastAbout(i) /\ i # seen + 1 /\ Current.op \in {"add", "remove"} =>
                  log[i].who # Current.who
             /\ LastTransfer(i) /\ i # seen + 1 => Current.op # "transfer"
  <2>1. Done = seen /\ seen + 1 \in 1..Len(log) /\ Done' \in {seen, seen + 1}
    BY <1>3, <1>7 DEF Done
  <2>2. i # seen + 1 => i \in 1..Done /\ i < seen + 1
    BY <1>3, <2>1
  <2>3. Current = log[seen + 1] /\ Current \in Message
    BY <2>1 DEF Current, TypeOK
  <2>4. LastAbout(i) /\ i # seen + 1 /\ Current.op \in {"add", "remove"} =>
          log[i].who # Current.who
    BY <1>3, <2>1, <2>2, <2>3 DEF LastAbout
  <2>5. LastTransfer(i) /\ i # seen + 1 => Current.op # "transfer"
    BY <1>3, <2>1, <2>2, <2>3 DEF LastTransfer
  <2> QED BY <2>1, <2>2, <2>3, <2>4, <2>5
<1>8. CASE UNCHANGED watcherVars
  <2>0. Done' = Done /\ seen' = seen /\ i \in 1..Done
    BY <1>8 DEF watcherVars, Done
  <2>1. CASE UNCHANGED <<active, confirmed, leader>>
    BY <1>3, <1>6, <2>0, <2>1
  <2>2. ASSUME NEW p \in People, InviteMember(p)
        PROVE  /\ LastAbout(i)' => Follows(i)'
               /\ LastTransfer(i)' => leader' = log'[i].who
               /\ log'[i].op = "add" => row'[log'[i].who] # Nobody
    <3>1. /\ row[p] = Nobody /\ active' = active \cup {p}
          /\ UNCHANGED <<confirmed, leader>>
      BY <2>2 DEF InviteMember, orgVars
    <3>2. log[i].op = "remove" => log[i].who # p
      BY <1>2, <2>0, <3>1, RemovedHaveRows
    <3>3. log[i].op \in {"add", "remove"} /\ Follows(i) => Follows(i)'
      BY <1>5, <1>3, <2>0, <3>1, <3>2 DEF Follows
    <3> QED BY <1>3, <1>4, <1>5, <2>0, <3>1, <3>3 DEF LastAbout
  <2>3. ASSUME NEW p \in People, Heal(p) \/ Confirm(p)
        PROVE  active' = active /\ confirmed \subseteq confirmed' /\ leader' = leader
    BY <2>3 DEF Heal, Confirm, Corrects, orgVars
  <2>4. ASSUME \/ AddUpdates \/ AddInserts \/ CapabilitiesUpdate \/ RemoveUpdates
               \/ TransferPromotes \/ TransferPoints \/ CloseDeactivates
        PROVE  FALSE
    BY <1>8, <2>4 DEF watcherVars, AddUpdates, AddInserts, CapabilitiesUpdate, RemoveUpdates,
          TransferPromotes, TransferPoints, CloseDeactivates, GoesTo, Begins
  <2> QED BY <1>3, <1>6, <2>0, <2>1, <2>2, <2>3, <2>4, ActiveSteps
<1>9. CASE AddUpdates
  <2>0. /\ step = "idle" /\ seen' = seen /\ log' = log /\ seen < Len(log) /\ leader' = leader
        /\ Current.op = "add"
    BY <1>9 DEF AddUpdates, Begins, GoesTo, chainVars, orgVars
  <2>1. CASE row[Current.who] = Nobody
    <3>1. step' = "select" /\ UNCHANGED <<active, confirmed>>
      BY <1>9, <2>1 DEF AddUpdates, GoesTo, rowVars
    <3>2. i \in 1..Done
      BY <1>3, <1>7, <2>0, <3>1 DEF Done
    <3> QED BY <1>3, <1>6, <2>0, <3>1, <3>2
  <2>2. CASE row[Current.who] # Nobody
    <3>1. /\ active' = active \cup {Current.who} /\ confirmed' = confirmed \cup {Current.who}
          /\ step' = "save"
      BY <1>9, <2>2 DEF AddUpdates, GoesTo
    <3>2. CASE i = seen + 1
      <4>1. log'[i] = Current
        BY <1>7, <2>0, <3>2
      <4>2. Current.who \in People
        BY <2>0, CurrentType
      <4>3. row'[Current.who] # Nobody
        BY <2>2, <4>2, RowsKept
      <4> QED BY <2>0, <3>1, <4>1, <4>3 DEF Follows, LastTransfer
    <3>3. CASE i # seen + 1
      <4>1. i \in 1..Done
        BY <1>7, <2>0, <3>3
      <4>2. LastAbout(i) => log[i].who # Current.who
        BY <1>7, <2>0, <3>3
      <4> QED BY <1>3, <1>4, <1>5, <2>0, <3>1, <4>1, <4>2 DEF Follows
    <3> QED BY <3>2, <3>3
  <2> QED BY <2>1, <2>2
<1>10. CASE AddSelects
  <2>1. /\ step = "select" /\ step' = "insert" /\ seen' = seen /\ log' = log
        /\ UNCHANGED <<active, confirmed, leader>>
    BY <1>10 DEF AddSelects, GoesTo, chainVars, rowVars, orgVars
  <2>2. Done' = Done
    BY <2>1 DEF Done
  <2> QED BY <1>3, <1>6, <2>1, <2>2
<1>11. CASE AddInserts
  <2>0. /\ step = "insert" /\ seen' = seen /\ log' = log /\ seen < Len(log) /\ leader' = leader
        /\ Current.op = "add"
    BY <1>11 DEF AddInserts, Located, GoesTo, chainVars, orgVars
  <2>1. /\ active' = active \cup {Current.who} /\ confirmed' = confirmed \cup {Current.who}
        /\ row' = [row EXCEPT ![Current.who] = [Plain EXCEPT !.mod = Current.mod]]
    BY <1>11 DEF AddInserts
  <2>2. CASE i = seen + 1
    <3>1. log'[i] = Current
      BY <1>7, <2>0, <2>2
    <3>2. Current.who \in People /\ Current.mod \in BOOLEAN
      BY <2>0, CurrentType
    <3>3. row'[Current.who] = [Plain EXCEPT !.mod = Current.mod]
      BY <2>1, <3>2 DEF TypeOK
    <3>4. row'[Current.who] # Nobody
      BY <3>3 DEF Plain, Nobody
    <3> QED BY <2>0, <2>1, <3>1, <3>4 DEF Follows, LastTransfer
  <2>3. CASE i # seen + 1
    <3>1. i \in 1..Done
      BY <1>7, <2>0, <2>3
    <3>2. LastAbout(i) => log[i].who # Current.who
      BY <1>7, <2>0, <2>3
    <3> QED BY <1>3, <1>4, <1>5, <2>0, <2>1, <3>1, <3>2 DEF Follows
  <2> QED BY <2>2, <2>3
<1>12. CASE AddApproves
  <2>1. /\ step = "approve" /\ step' = "save" /\ seen' = seen /\ log' = log
        /\ UNCHANGED <<active, confirmed, leader>>
    BY <1>12 DEF AddApproves, GoesTo, chainVars, rowVars, orgVars
  <2>2. Done' = Done
    BY <2>1 DEF Done
  <2> QED BY <1>3, <1>6, <2>1, <2>2
<1>13. CASE CapabilitiesUpdate
  <2>1. /\ step = "idle" /\ seen' = seen /\ log' = log /\ seen < Len(log)
        /\ UNCHANGED <<active, leader>> /\ Current.op = "caps" /\ confirmed \subseteq confirmed'
    BY <1>13 DEF CapabilitiesUpdate, Begins, GoesTo, chainVars, orgVars
  <2>2. CASE i = seen + 1
    <3>1. log'[i] = Current
      BY <1>7, <2>1, <2>2
    <3> QED BY <2>1, <3>1 DEF LastAbout, LastTransfer
  <2>3. CASE i # seen + 1
    BY <1>3, <1>6, <1>7, <2>1, <2>3
  <2> QED BY <2>2, <2>3
<1>14. CASE RemoveUpdates
  <2>1. /\ step = "idle" /\ seen' = seen /\ log' = log /\ seen < Len(log)
        /\ UNCHANGED <<confirmed, leader>> /\ Current.op = "remove"
        /\ active' = active \ {Current.who}
    BY <1>14 DEF RemoveUpdates, Begins, GoesTo, chainVars, orgVars
  <2>2. CASE i = seen + 1
    <3>1. log'[i] = Current
      BY <1>7, <2>1, <2>2
    <3> QED BY <2>1, <3>1 DEF Follows, LastTransfer
  <2>3. CASE i # seen + 1
    <3>1. i \in 1..Done
      BY <1>7, <2>1, <2>3
    <3>2. LastAbout(i) => log[i].who # Current.who
      BY <1>7, <2>1, <2>3
    <3> QED BY <1>3, <1>4, <1>5, <2>1, <3>1, <3>2 DEF Follows
  <2> QED BY <2>2, <2>3
<1>15. CASE TransferDemotes
  <2>1. /\ step = "idle" /\ step' = "promote" /\ seen' = seen /\ log' = log
        /\ UNCHANGED <<active, confirmed, leader>>
    BY <1>15 DEF TransferDemotes, Begins, GoesTo, chainVars, orgVars
  <2>2. Done' = Done
    BY <2>1 DEF Done
  <2> QED BY <1>3, <1>6, <2>1, <2>2
<1>16. CASE TransferPromotes
  <2>1. /\ step = "promote" /\ step' = "point" /\ seen' = seen /\ log' = log /\ leader' = leader
        /\ seen < Len(log) /\ Current.op = "transfer" /\ confirmed \subseteq confirmed'
        /\ (active' = active \/ active' = active \cup {Current.who})
    BY <1>16 DEF TransferPromotes, Located, GoesTo, chainVars, orgVars
  <2>2. Done' = Done /\ Done = seen /\ i \in 1..seen
    BY <2>1 DEF Done
  <2>3. LastAbout(i) /\ log[i].op = "remove" => log[i].who # Current.who
    <3> SUFFICES ASSUME LastAbout(i), log[i].op = "remove", log[i].who = Current.who PROVE FALSE
      OBVIOUS
    <3>1. seen + 1 \in 1..Len(log) /\ (seen + 1) - 1 = seen /\ log[seen + 1] = Current
      BY <1>3, <2>1 DEF Current
    <3>2. Held(Current.who, seen)
      BY <2>1, <3>1 DEF Chained
    <3>3. PICK k \in i + 1..seen : Adds(k, Current.who)
      BY <2>2, <3>2 DEF Held, Removes
    <3>4. k \in 1..Len(log) /\ i < k /\ k <= seen + 1
      BY <1>3, <2>1, <2>2
    <3> QED BY <3>3, <3>4 DEF LastAbout, Adds
  <2>4. LastAbout(i) /\ Follows(i) => Follows(i)'
    BY <1>3, <1>5, <2>1, <2>2, <2>3 DEF Follows, LastAbout
  <2> QED BY <1>3, <1>4, <1>5, <2>1, <2>2, <2>4
<1>17. CASE TransferPoints
  <2>1. /\ step = "point" /\ seen' = seen /\ log' = log /\ seen < Len(log)
        /\ UNCHANGED <<active, confirmed>> /\ Current.op = "transfer" /\ leader' = Current.who
    BY <1>17 DEF TransferPoints, Located, GoesTo, chainVars, rowVars
  <2>2. CASE i = seen + 1
    <3>1. log'[i] = Current
      BY <1>7, <2>1, <2>2
    <3> QED BY <2>1, <3>1 DEF LastAbout
  <2>3. CASE i # seen + 1
    <3>1. i \in 1..Done /\ ~ LastTransfer(i)
      BY <1>7, <2>1, <2>3
    <3> QED BY <1>3, <1>4, <1>5, <2>1, <3>1 DEF Follows
  <2> QED BY <2>2, <2>3
<1>18. CASE CloseDeactivates
  BY <1>2, <1>18 DEF CloseDeactivates, Located, Calm
<1>19. CASE SaveCursor
  <2>1. /\ step = "save" /\ step' = "idle" /\ seen' = seen + 1
        /\ UNCHANGED <<active, confirmed, leader>>
    BY <1>19 DEF SaveCursor, rowVars, orgVars
  <2>2. Done' = Done
    BY <2>1 DEF Done
  <2> QED BY <1>3, <1>6, <2>1, <2>2
<1>20. CASE Crash
  <2>1. step' = "idle" /\ seen' = seen /\ UNCHANGED <<active, confirmed, leader>>
    BY <1>20 DEF Crash, rowVars, orgVars
  <2>2. Done' = seen /\ i \in 1..Done
    BY <1>3, <2>1 DEF Done
  <2> QED BY <1>3, <1>6, <2>1, <2>2
<1> QED
  BY <1>2, <1>8, <1>9, <1>10, <1>11, <1>12, <1>13, <1>14, <1>15, <1>16, <1>17, <1>18, <1>19,
     <1>20, WatcherSteps DEF Watcher

(***************************************************************************)
(* The theorems.                                                           *)
(***************************************************************************)
Inv == TypeOK /\ Located /\ Asked /\ Approved

\* The invariant holds at first.
LEMMA InitInv == Init => Inv
<1> SUFFICES ASSUME Init PROVE Inv
  OBVIOUS
<1>1. TypeOK
  BY InitType
<1>2. Located /\ Asked /\ Approved
  BY PeopleAssumption DEF Init, Located, Asked, Approved, ApprovedAreMembers
<1> QED BY <1>1, <1>2 DEF Inv

\* Every step keeps the invariant.
LEMMA Inductive == Inv /\ [Next]_vars => Inv'
BY TypeStep, LocatedStep, AskedStep, ApprovedStep DEF Inv

\* The types of members.go's, join.go's and the schema's columns hold in every
\* state, whatever the number of people, requests, chain messages and faults.
THEOREM TypeCorrect == Spec => []TypeOK
<1>1. Inv => TypeOK
  BY DEF Inv
<1> QED BY <1>1, InitInv, Inductive, PTL DEF Spec

\* watcher.go's processAddMemberBookkeeping writes the member row before it
\* approves the join request; no restart, failed statement, missed block,
\* denial, reverted approval or correction by the reconciler between the two
\* ever leaves an approved request without its row.
THEOREM ApprovedHaveRows == Spec => []ApprovedAreMembers
<1>1. Inv => ApprovedAreMembers
  BY DEF Inv, Approved
<1> QED BY <1>1, InitInv, Inductive, PTL DEF Spec

\* The chain decides, and the rows follow.  Once the watcher has done the
\* bookkeeping of every message on the chain, without a block missed or a
\* statement failed, whoever was added last is an active, confirmed member,
\* whoever was removed last is not active, and orgs.leader_pubkey is the leader
\* of the last transfer: join.go's approvals, members.go's invitations,
\* reconcile.go's corrections of an old member list, and restarts between any
\* two statements of a message do not change that.
THEOREM RowsFollowTheChain == Spec => []MembersFollowChain
<1> DEFINE FollowInv == Inv /\ Chained /\ Followed
<1>1. Init => FollowInv
  <2> SUFFICES ASSUME Init PROVE FollowInv
    OBVIOUS
  <2>1. Len(log) = 0 /\ 1..0 = {} /\ Done = 0
    BY DEF Init, Done
  <2>2. \A p \in People : roster[p] # Nobody => p = Founder
    BY DEF Init
  <2>3. Chained
    BY <2>1, <2>2 DEF Chained, Held
  <2>4. row[Founder] # Nobody
    BY PeopleAssumption DEF Init, Nobody
  <2> QED BY <2>1, <2>3, <2>4, InitInv DEF Followed
<1>2. FollowInv /\ [Next]_vars => FollowInv'
  BY Inductive, ChainedStep, FollowedStep DEF Inv
<1>3. FollowInv => MembersFollowChain
  <2> SUFFICES ASSUME FollowInv, seen = Len(log), Calm, NEW i \in 1..Len(log)
               PROVE  /\ IsLast(i, {"add", "remove"}, {log[i].who}) =>
                           IF log[i].op = "add" THEN log[i].who \in active \cap confirmed
                           ELSE log[i].who \notin active
                      /\ IsLast(i, {"transfer"}, People) => leader = log[i].who
    BY DEF MembersFollowChain, Calm
  <2>1. Done = Len(log) /\ Len(log) \in Nat
    BY DEF Inv, Located, TypeOK, Done
  <2>2. \A j \in 1..Len(log) : log[j].who \in People
    <3>1. \A j \in 1..Len(log) : log[j] \in Message
      BY DEF Inv, TypeOK
    <3> QED BY <3>1 DEF Message
  <2>3. \A j \in 1..Len(log) : i < j => j \in i + 1..Len(log)
    BY <2>1
  <2>4. IsLast(i, {"add", "remove"}, {log[i].who}) => LastAbout(i)
    BY <2>3 DEF IsLast, LastAbout
  <2>5. IsLast(i, {"transfer"}, People) => LastTransfer(i)
    BY <2>2, <2>3 DEF IsLast, LastTransfer
  <2> QED BY <2>1, <2>4, <2>5 DEF Followed, Follows
<1> QED BY <1>1, <1>2, <1>3, PTL DEF Spec
=============================================================================
