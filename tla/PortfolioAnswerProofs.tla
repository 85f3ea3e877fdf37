------------------------- MODULE PortfolioAnswerProofs -------------------------
(***************************************************************************)
(* Proofs about what the portfolio consumer stores and answers, for any    *)
(* requests, wallets, limits and bounds: they rest on what PortfolioProofs *)
(* shows of the commands in hand.                                          *)
(***************************************************************************)
EXTENDS PortfolioProofs, SequenceTheorems

-----------------------------------------------------------------------------
(* What the handlers store and what they say.                              *)

Role == {"owner", "guest", NoRow}

\* The tables: ids are drawn from the sequence, those rolled back as well.
Rows ==
    /\ users \in [Users -> Role] /\ nextId \in Nat \ {0}
    /\ burned \in SUBSET (1 .. nextId - 1)
    /\ \A a \in DOMAIN wallets :
          /\ a \in Addresses /\ wallets[a].id \in 1 .. nextId - 1
          /\ wallets[a] \in [id : Nat, owner : Users, active : BOOLEAN]

\* The streams and the snapshots speak of delivered commands only.
Streams ==
    /\ replies \in Seq([pos : Nat, ok : BOOLEAN])
    /\ snapshots \in Seq([pos : Nat, wallet : {SnapshotWallet}, of : SUBSET Addresses,
                          rows : BOOLEAN])
    /\ \A j \in DOMAIN replies : replies[j].pos \in 1 .. delivered
    /\ \A j \in DOMAIN snapshots : snapshots[j].pos \in 1 .. delivered
    /\ audits \in SUBSET (1 .. delivered) /\ done \in SUBSET (1 .. delivered)
    /\ hurt \in SUBSET (1 .. delivered)
    /\ hasGroup \in BOOLEAN /\ running \in BOOLEAN /\ ok \in BOOLEAN

\* A label is reached only with the commands that lead to it.
AtCommand ==
    /\ pc = "user" => request.cmd \in {"balance", "holdings", "add_wallet"}
    /\ pc = "collect" => request.cmd \in {"balance", "holdings"}
    /\ pc \in {"change", "audit"} => request.cmd \in {"add_wallet", "remove_wallet"}
    /\ pc \in {"snapshot", "holdings"} => request.cmd = "balance"
    /\ pc = "reply" => request.cmd \in Handled
    /\ pc \in {"user", "change"} /\ request.cmd = "add_wallet" => request.arg \in Addresses

\* A /balance is valued over wallets that are in the table, and its snapshot,
\* while its holdings are not saved, is the last one.
InSnapshot ==
    /\ found \in SUBSET (DOMAIN wallets)
    /\ pc = "snapshot" => found # {}
    /\ pc = "holdings" =>
          /\ snapshots # <<>> /\ snapshots[Len(snapshots)].pos = Head(todo)
          /\ ~ snapshots[Len(snapshots)].rows

\* The "ok" of the reply to come is set only when it is true.
Tracked(a) == a \in DOMAIN wallets /\ wallets[a].active
Stored(k)  == \E j \in DOMAIN snapshots : snapshots[j].pos = k /\ snapshots[j].rows
OkMeans ==
    ok => /\ pc \in {"snapshot", "holdings", "audit", "reply", "ack"}
          /\ pc \in {"audit", "reply"} =>
                /\ request.cmd = "add_wallet" => Tracked(request.arg)
                /\ request.cmd = "remove_wallet" => ~ Tracked(request.arg)
                /\ request.cmd = "balance" => Stored(Head(todo))

\* The first id drawn is the id of a row, or was rolled back with it.
FirstId == nextId = 1 \/ (HasId(SnapshotWallet) <=> SnapshotWallet \notin burned)

\* What the handler is through with was answered, or there is a cause.
Served(k) ==
    requests[k].cmd \in Handled =>
        \/ Answered(k)
        \/ k \in hurt
        \/ requests[k].cmd = "balance" /\ SnapshotWallet \in burned
AllServed ==
    /\ \A k \in done : Served(k)
    /\ pc = "ack" => Served(Head(todo))

HInv ==
    /\ Rows /\ Streams /\ AtCommand /\ InSnapshot /\ OkMeans
    /\ FirstId /\ AllServed

-----------------------------------------------------------------------------
(* The commands in hand, and what a step leaves alone.                     *)

LEMMA CommandInHand ==
  ASSUME IInv, pc \in Busy
  PROVE  /\ todo \in Seq(Nat) /\ todo # <<>> /\ 1 \in DOMAIN todo /\ Head(todo) = todo[1]
         /\ Head(todo) \in 1 .. delivered /\ Head(todo) \in Nat
         /\ request \in Requests /\ request.user \in Users /\ request.role \in {"owner", "guest"}
<1>1. todo \in Seq(Nat) /\ todo # <<>>
  BY DEF IInv, InHand, PositionsTyped
<1>2. 1 \in DOMAIN todo /\ Head(todo) = todo[1]
  BY <1>1
<1>3. Head(todo) \in pending
  BY <1>2 DEF IInv, InHand
<1>4. Head(todo) \in 1 .. delivered /\ Head(todo) \in DOMAIN requests /\ requests \in Seq(Requests)
  <2>1. requests \in Seq(Requests) /\ delivered \in 0 .. Len(requests) /\ pending \in SUBSET (1 .. delivered)
    BY DEF IInv, PositionsTyped
  <2>2. Head(todo) \in 1 .. delivered
    BY <1>3, <2>1
  <2>3. 1 .. delivered \subseteq DOMAIN requests
    BY <2>1
  <2> QED
    BY <2>1, <2>2, <2>3
<1>5. request \in Requests
  BY <1>4 DEF request
<1> QED
  BY <1>1, <1>2, <1>4, <1>5, RequestsAssumption

\* What was delivered stays as it was requested.
LEMMA RequestsKept ==
  ASSUME IInv, [Next]_vars
  PROVE  /\ delivered \in Nat /\ delivered' \in Nat /\ delivered <= delivered'
         /\ 1 .. delivered \subseteq 1 .. delivered'
         /\ \A k \in 1 .. delivered : requests'[k] = requests[k]
<1>0. requests \in Seq(Requests) /\ delivered \in 0 .. Len(requests) /\ delivered \in Nat
  BY DEF IInv, PositionsTyped
<1>1. \A k \in 1 .. delivered : requests'[k] = requests[k]
  <2>1. CASE \E r \in Requests : Request(r)
    <3>1. PICK r \in Requests : requests' = Append(requests, r)
      BY <2>1 DEF Request
    <3>2. \A k \in 1 .. Len(requests) : Append(requests, r)[k] = requests[k]
      BY <1>0
    <3> QED
      BY <1>0, <3>1, <3>2
  <2>2. CASE requests' = requests
    BY <2>2
  <2> QED
    BY <2>1, <2>2 DEF Next, Consumer, Handler, Environment, Start, ReadCommands, ReadNothing,
       LoopExits, Ack, Dispatch, GetUser, Collect, SaveSnapshot, SaveHoldings, ChangeWallet,
       Audit, Reply, Restart, Stop, Crash, vars
<1>2. IInv'
  BY StepHolds
<1>3. delivered' \in Nat
  BY <1>2 DEF IInv, PositionsTyped
<1>4. delivered <= delivered'
  <2>1. CASE ReadCommands
    <3>1. Len(requests) \in Nat /\ Len(requests) > delivered
      BY <1>0, <2>1 DEF ReadCommands
    <3>2. Len(NewPositions) \in Nat
      BY <1>0, <3>1, LimitsAssumption DEF NewPositions
    <3> QED
      BY <1>0, <2>1, <3>2 DEF ReadCommands
  <2>2. CASE Start
    BY <1>0, <2>2 DEF Start, CreateGroup
  <2>3. CASE delivered' = delivered
    BY <1>0, <2>3
  <2> QED
    BY <2>1, <2>2, <2>3 DEF Next, Consumer, Handler, Environment, ReadNothing, Request,
       LoopExits, Ack, Dispatch, GetUser, Collect, SaveSnapshot, SaveHoldings, ChangeWallet,
       Audit, Reply, Restart, Stop, Crash, vars, group
<1>5. 1 .. delivered \subseteq 1 .. delivered'
  BY <1>0, <1>3, <1>4
<1> QED
  BY <1>0, <1>1, <1>3, <1>4, <1>5

\* Each table and stream is written by the actions named for it.
LEMMA Writers ==
  ASSUME [Next]_vars
  PROVE  /\ ChangeWallet \/ wallets' = wallets
         /\ ChangeWallet \/ Crash \/ nextId' = nextId
         /\ GetUser \/ users' = users
         /\ SaveSnapshot \/ SaveHoldings \/ snapshots' = snapshots
         /\ Reply \/ replies' = replies
         /\ Audit \/ audits' = audits
         /\ Ack \/ done' = done
         /\ Collect \/ Ack \/ Crash \/ found' = found
         /\ Collect \/ ChangeWallet \/ Ack \/ Crash \/ ok' = ok
         /\ Start \/ hasGroup' = hasGroup
         /\ Stop \/ Restart \/ running' = running
BY DEF Next, Consumer, Handler, Environment, Start, ReadCommands, ReadNothing, Request,
       LoopExits, Ack, Dispatch, GetUser, Collect, SaveSnapshot, SaveHoldings, ChangeWallet,
       Audit, Reply, Restart, Stop, Crash, vars, group, database, ids, handler

\* What went wrong is remembered.
LEMMA CausesStay ==
  ASSUME [Next]_vars
  PROVE  /\ hurt \subseteq hurt' /\ burned \subseteq burned'
         /\ hurt' = hurt \/ hurt' = hurt \cup (IF todo = <<>> THEN {} ELSE {Head(todo)})
         /\ ChangeWallet \/ (Crash /\ Burn) \/ burned' = burned
BY DEF Next, Consumer, Handler, Environment, Start, ReadCommands, ReadNothing, Request,
       LoopExits, Ack, Dispatch, GetUser, Collect, SaveSnapshot, SaveHoldings, ChangeWallet,
       Audit, Reply, Restart, Stop, Crash, vars, database, ids, failures, NoFault, Fault,
       Caught, Burn

\* The steps that are neither the handler's, nor an XACK, nor a batch read:
\* the thread goes on as before, is between batches, or is gone.
Idle == {"start", "read", "down"}
Aside ==
    \/ UNCHANGED <<pc, todo>>
    \/ pc \in Idle /\ pc' \in Idle
    \/ pc' = "down" /\ Crash
Fresh == pc = "read" /\ pc' = "dispatch"

LEMMA Kinds ==
  ASSUME [Next]_vars
  PROVE  \/ Handler \/ Ack
         \/ ~ Handler /\ ~ Ack /\ Aside
         \/ ~ Handler /\ ~ Ack /\ Fresh
BY DEF Next, Consumer, Environment, Start, ReadCommands, ReadNothing, Request, LoopExits,
       Restart, Stop, Crash, vars, Aside, Idle, Fresh

\* Within the handler the command stays in hand.
LEMMA SameCommand ==
  ASSUME IInv, [Next]_vars, pc \in Busy, UNCHANGED todo
  PROVE  request' = request
<1>1. Head(todo) \in 1 .. delivered
  BY CommandInHand
<1> QED
  BY <1>1, RequestsKept DEF request

LEMMA HandlerSame ==
  ASSUME IInv, Handler
  PROVE  /\ [Next]_vars /\ pc \in Busy /\ pc' \in Busy /\ todo' = todo /\ request' = request
         /\ UNCHANGED <<delivered, downs>> /\ faults' \in {faults, faults + 1}
<1>1. Onward
  BY HandlerOnward DEF IInv
<1>2. [Next]_vars
  BY DEF Next, Consumer
<1> QED
  BY <1>1, <1>2, SameCommand DEF Onward

-----------------------------------------------------------------------------
(* The tables.                                                             *)

LEMMA ChangedRows ==
  ASSUME IInv, HInv, ChangeWallet
  PROVE  /\ pc = "change" /\ request.cmd \in {"add_wallet", "remove_wallet"}
         /\ request.cmd = "add_wallet" => request.arg \in Addresses
         /\ nextId' \in {nextId, nextId + 1}
         /\ \/ wallets' = wallets /\ Burn
            \/ /\ wallets' = Change(request) /\ burned' = burned
               /\ request.cmd = "add_wallet" => nextId' = nextId + 1
               /\ request.cmd # "add_wallet" => nextId' = nextId
BY DEF ChangeWallet, HInv, AtCommand, Rows

\* A row keeps its id.
LEMMA InsertedIds ==
  ASSUME Rows, NEW a \in Addresses, NEW u \in Users, NEW b \in DOMAIN wallets
  PROVE  Inserted(a, u)[b].id = wallets[b].id
<1>1. wallets[b] \in [id : Nat, owner : Users, active : BOOLEAN]
  BY DEF Rows
<1>2. [wallets[b] EXCEPT !.active = TRUE].id = wallets[b].id
  BY <1>1, Zenon
<1>3. \/ Inserted(a, u)[b] = wallets[b]
      \/ Inserted(a, u)[b] = [wallets[b] EXCEPT !.active = TRUE]
  BY DEF Inserted
<1> QED
  BY <1>2, <1>3

\* Adding a wallet: its row, or the one it had, and the others as they were.
LEMMA InsertedRows ==
  ASSUME Rows, NEW a \in Addresses, NEW u \in Users
  PROVE  /\ DOMAIN Inserted(a, u) = DOMAIN wallets \cup {a}
         /\ a \notin DOMAIN wallets => Inserted(a, u)[a].id = nextId
         /\ Inserted(a, u)[a].active
         /\ \A b \in DOMAIN wallets \cup {a} :
               Inserted(a, u)[b] \in [id : Nat, owner : Users, active : BOOLEAN]
<1>1. \A b \in DOMAIN wallets : wallets[b] \in [id : Nat, owner : Users, active : BOOLEAN]
  BY DEF Rows
<1>2. nextId \in Nat
  BY DEF Rows
<1>3. ASSUME NEW r \in [id : Nat, owner : Users, active : BOOLEAN]
      PROVE  /\ [r EXCEPT !.active = TRUE] \in [id : Nat, owner : Users, active : BOOLEAN]
             /\ [r EXCEPT !.active = TRUE].id = r.id /\ [r EXCEPT !.active = TRUE].active
  BY Zenon
<1>4. /\ [id |-> nextId, owner |-> u, active |-> TRUE] \in [id : Nat, owner : Users, active : BOOLEAN]
      /\ [id |-> nextId, owner |-> u, active |-> TRUE].active
      /\ [id |-> nextId, owner |-> u, active |-> TRUE].id = nextId
  BY <1>2
<1>5. DOMAIN Inserted(a, u) = DOMAIN wallets \cup {a}
  BY DEF Inserted
<1>6. \A b \in DOMAIN wallets \cup {a} :
        Inserted(a, u)[b] = IF b # a THEN wallets[b]
                            ELSE IF a \in DOMAIN wallets THEN [wallets[a] EXCEPT !.active = TRUE]
                            ELSE [id |-> nextId, owner |-> u, active |-> TRUE]
  BY DEF Inserted
<1>7. ASSUME NEW b \in DOMAIN wallets, b # a
      PROVE  Inserted(a, u)[b] = wallets[b]
  BY <1>6, <1>7
<1>8. ASSUME a \in DOMAIN wallets
      PROVE  Inserted(a, u)[a] = [wallets[a] EXCEPT !.active = TRUE]
  BY <1>6, <1>8
<1>9. ASSUME a \notin DOMAIN wallets
      PROVE  Inserted(a, u)[a] = [id |-> nextId, owner |-> u, active |-> TRUE]
  BY <1>6, <1>9
<1>10. Inserted(a, u)[a].active
  BY <1>1, <1>3, <1>4, <1>8, <1>9, Zenon
<1>11. \A b \in DOMAIN wallets \cup {a} :
         Inserted(a, u)[b] \in [id : Nat, owner : Users, active : BOOLEAN]
  BY <1>1, <1>3, <1>4, <1>7, <1>8, <1>9, Zenon
<1> QED
  BY <1>4, <1>5, <1>9, <1>10, <1>11, Zenon

\* Removing a wallet: every row stays, and the one removed is not active.
LEMMA DeactivatedRows ==
  ASSUME Rows, NEW a
  PROVE  /\ DOMAIN Deactivated(a) = DOMAIN wallets
         /\ \A b \in DOMAIN wallets :
               /\ Deactivated(a)[b] \in [id : Nat, owner : Users, active : BOOLEAN]
               /\ Deactivated(a)[b].id = wallets[b].id
         /\ a \in DOMAIN wallets => ~ Deactivated(a)[a].active
<1>1. \A b \in DOMAIN wallets : wallets[b] \in [id : Nat, owner : Users, active : BOOLEAN]
  BY DEF Rows
<1>2. DOMAIN Deactivated(a) = DOMAIN wallets
  BY DEF Deactivated
<1>3. \A b \in DOMAIN wallets :
         Deactivated(a)[b] = [wallets[b] EXCEPT !.active = (@ /\ b # a)]
  BY Zenon DEF Deactivated
<1>4. ASSUME NEW b \in DOMAIN wallets
      PROVE  /\ Deactivated(a)[b] \in [id : Nat, owner : Users, active : BOOLEAN]
             /\ Deactivated(a)[b].id = wallets[b].id
             /\ b = a => ~ Deactivated(a)[b].active
  <2>1. wallets[b] \in [id : Nat, owner : Users, active : BOOLEAN]
    BY <1>1
  <2>2. [wallets[b] EXCEPT !.active = (@ /\ b # a)] \in [id : Nat, owner : Users, active : BOOLEAN]
    BY <2>1, Zenon
  <2>3. [wallets[b] EXCEPT !.active = (@ /\ b # a)].id = wallets[b].id
    BY <2>1, Zenon
  <2>4. b = a => ~ [wallets[b] EXCEPT !.active = (@ /\ b # a)].active
    BY <2>1, Zenon
  <2> QED
    BY <1>3, <2>2, <2>3, <2>4, Zenon
<1> QED
  BY <1>2, <1>4, Zenon

LEMMA RowsStep ==
  ASSUME IInv, HInv, [Next]_vars
  PROVE  Rows'
<1>0. Rows
  BY DEF HInv
<1>1. users' \in [Users -> Role]
  <2>1. CASE GetUser
    <3>1. pc \in Busy
      BY <2>1 DEF GetUser, Busy
    <3>2. request.user \in Users /\ request.role \in Role
      BY <3>1, CommandInHand DEF Role
    <3> QED
      BY <1>0, <2>1, <3>2 DEF GetUser, Rows
  <2> QED
    BY <1>0, <2>1, Writers DEF Rows
<1>2. nextId' \in {nextId, nextId + 1} /\ nextId \in Nat \ {0}
  BY <1>0, ChangedRows, Writers DEF Rows, Crash
<1>3. nextId' \in Nat \ {0} /\ 1 .. nextId - 1 \subseteq 1 .. nextId' - 1
  <2>1. CASE nextId' = nextId
    BY <1>2, <2>1
  <2>2. CASE nextId' = nextId + 1
    BY <1>2, <2>2
  <2> QED
    BY <1>2, <2>1, <2>2
<1>4. ASSUME NEW a \in DOMAIN wallets'
      PROVE  /\ a \in Addresses /\ wallets'[a].id \in 1 .. nextId' - 1
             /\ wallets'[a] \in [id : Nat, owner : Users, active : BOOLEAN]
  <2>1. CASE wallets' = wallets
    BY <1>0, <1>3, <1>4, <2>1 DEF Rows
  <2>2. CASE /\ ChangeWallet /\ wallets' = Change(request)
             /\ request.cmd = "add_wallet" => nextId' = nextId + 1
    <3>0. request.user \in Users
      BY <2>2, CommandInHand, ChangedRows DEF Busy
    <3>1. CASE request.cmd = "add_wallet"
      <4> DEFINE x == request.arg  u == request.user
      <4>1. x \in Addresses /\ nextId' = nextId + 1 /\ wallets' = Inserted(x, u)
        BY <2>2, <3>1, ChangedRows DEF Change
      <4>2. x \in Addresses /\ u \in Users
        BY <3>0, <4>1
      <4> HIDE DEF x, u
      <4>0. DOMAIN Inserted(x, u) = DOMAIN wallets \cup {x}
        BY DEF Inserted
      <4>3. a \in DOMAIN wallets \cup {x}
        BY <1>4, <4>0, <4>1
      <4>4. Inserted(x, u)[a] \in [id : Nat, owner : Users, active : BOOLEAN]
        BY <1>0, <4>2, <4>3, InsertedRows
      <4>5. a \in Addresses
        BY <1>0, <4>2, <4>3 DEF Rows
      <4>6. CASE a \in DOMAIN wallets
        <5>1. Inserted(x, u)[a].id = wallets[a].id
          BY <1>0, <4>2, <4>6, InsertedIds, Zenon
        <5>2. wallets[a].id \in 1 .. nextId - 1
          BY <1>0, <4>6 DEF Rows
        <5> QED
          BY <1>3, <4>1, <4>4, <4>5, <5>1, <5>2
      <4>7. CASE a \notin DOMAIN wallets
        <5>1. a = x
          BY <4>3, <4>7
        <5>2. Inserted(x, u)[x].id = nextId
          BY <1>0, <4>2, <4>7, <5>1, InsertedRows
        <5>3. nextId \in 1 .. nextId' - 1
          BY <1>2, <4>1
        <5> QED
          BY <4>1, <4>4, <4>5, <5>1, <5>2, <5>3
      <4> QED
        BY <4>6, <4>7
    <3>2. CASE request.cmd # "add_wallet"
      <4>1. wallets' = Deactivated(request.arg)
        BY <2>2, <3>2 DEF Change
      <4>2. /\ a \in DOMAIN wallets /\ wallets'[a].id = wallets[a].id
            /\ wallets'[a] \in [id : Nat, owner : Users, active : BOOLEAN]
        BY <1>0, <1>4, <4>1, DeactivatedRows
      <4>3. a \in Addresses /\ wallets[a].id \in 1 .. nextId - 1
        BY <1>0, <4>2 DEF Rows
      <4> QED
        BY <1>3, <4>2, <4>3
    <3> QED
      BY <3>1, <3>2
  <2> QED
    BY <2>1, <2>2, ChangedRows, Writers
<1>5. burned' \in SUBSET (1 .. nextId' - 1)
  <2>1. burned' = burned \/ Burn
    BY CausesStay, ChangedRows
  <2>2. \A m, n \in Nat \ {0} : m .. n - 1 \subseteq 1 .. n - 1
    OBVIOUS
  <2>3. nextId .. nextId' - 1 \subseteq 1 .. nextId' - 1
    BY <1>2, <1>3, <2>2
  <2> QED
    BY <1>0, <1>3, <2>1, <2>3 DEF Rows, Burn
<1> QED
  BY <1>1, <1>3, <1>4, <1>5 DEF Rows

-----------------------------------------------------------------------------
(* The snapshots and the streams.                                          *)

Snapshot == [pos : Nat, wallet : {SnapshotWallet}, of : SUBSET Addresses, rows : BOOLEAN]

\* save_snapshot adds a row of the command in hand, without holdings.
LEMMA SnapshotSaved ==
  ASSUME IInv, HInv, SaveSnapshot, snapshots' # snapshots
  PROVE  LET s == [pos |-> Head(todo), wallet |-> SnapshotWallet, of |-> found, rows |-> FALSE]
         IN  s \in Snapshot /\ s.pos = Head(todo) /\ ~ s.rows /\ snapshots' = Append(snapshots, s)
<1> DEFINE s == [pos |-> Head(todo), wallet |-> SnapshotWallet, of |-> found, rows |-> FALSE]
<1>1. snapshots' = Append(snapshots, s)
  BY DEF SaveSnapshot
<1>2. pc \in Busy
  BY DEF SaveSnapshot, Busy
<1>3. found \in SUBSET Addresses
  BY DEF HInv, InSnapshot, Rows
<1>4. Head(todo) \in Nat
  BY <1>2, CommandInHand
<1>5. s \in Snapshot
  BY <1>3, <1>4 DEF Snapshot
<1> QED
  BY <1>1, <1>5

\* save_holdings completes the last row, which is the command's.
LEMMA HoldingsSaved ==
  ASSUME IInv, HInv, SaveHoldings
  PROVE  /\ snapshots \in Seq(Snapshot) /\ Len(snapshots) \in DOMAIN snapshots
         /\ snapshots[Len(snapshots)].pos = Head(todo) /\ ~ snapshots[Len(snapshots)].rows
         /\ snapshots' # snapshots =>
               /\ snapshots' \in Seq(Snapshot) /\ DOMAIN snapshots' = DOMAIN snapshots
               /\ Len(snapshots') = Len(snapshots)
               /\ \A j \in DOMAIN snapshots : snapshots'[j].pos = snapshots[j].pos
               /\ \A j \in DOMAIN snapshots : j # Len(snapshots) => snapshots'[j] = snapshots[j]
               /\ snapshots'[Len(snapshots)].rows
         /\ pc' = "reply" => snapshots' # snapshots
<1> DEFINE L == Len(snapshots)
           done1 == [snapshots[L] EXCEPT !.rows = TRUE]
<1>1. /\ snapshots \in Seq(Snapshot) /\ snapshots # <<>>
      /\ snapshots[L].pos = Head(todo) /\ ~ snapshots[L].rows
  BY DEF SaveHoldings, HInv, InSnapshot, Streams, Snapshot
<1>2. L \in DOMAIN snapshots /\ snapshots[L] \in Snapshot
  BY <1>1
<1>3. snapshots' # snapshots => snapshots' = [snapshots EXCEPT ![L].rows = TRUE]
  BY DEF SaveHoldings
<1>4. [snapshots EXCEPT ![L].rows = TRUE] = [snapshots EXCEPT ![L] = done1]
  BY <1>1, <1>2, Zenon
<1>5. done1 \in Snapshot /\ done1.rows /\ done1.pos = snapshots[L].pos
  BY <1>2, Zenon DEF Snapshot
<1> HIDE DEF done1
<1>6. ASSUME snapshots' # snapshots
      PROVE  snapshots' = [snapshots EXCEPT ![L] = done1]
  BY <1>3, <1>4, <1>6
<1>7. pc' = "reply" => snapshots' # snapshots
  <2> SUFFICES ASSUME pc' = "reply" PROVE snapshots' # snapshots
    OBVIOUS
  <2>1. snapshots' = [snapshots EXCEPT ![L].rows = TRUE]
    BY DEF SaveHoldings, Caught, Goto
  <2>2. snapshots'[L] = done1
    BY <1>1, <1>2, <1>4, <2>1
  <2> QED
    BY <1>1, <1>5, <2>2
<1> QED
  BY <1>1, <1>2, <1>5, <1>6, <1>7

LEMMA StreamsStep ==
  ASSUME IInv, HInv, [Next]_vars
  PROVE  Streams'
<1>0. /\ Streams /\ 1 .. delivered \subseteq 1 .. delivered' /\ delivered' \in Nat /\ delivered \in Nat
  BY RequestsKept DEF HInv
<1>1. replies' \in Seq([pos : Nat, ok : BOOLEAN]) /\ \A j \in DOMAIN replies' : replies'[j].pos \in 1 .. delivered'
  <2>1. CASE replies' = replies
    BY <1>0, <2>1 DEF Streams
  <2>2. CASE Reply /\ replies' # replies
    <3> DEFINE e == [pos |-> Head(todo), ok |-> ok]
    <3>1. replies' = Append(replies, e)
      BY <2>2 DEF Reply
    <3>2. Head(todo) \in 1 .. delivered
      BY <2>2, CommandInHand DEF Reply, Busy
    <3>0. ok \in BOOLEAN
      BY <1>0 DEF Streams
    <3>3. e \in [pos : Nat, ok : BOOLEAN] /\ e.pos \in 1 .. delivered'
      BY <1>0, <3>0, <3>2
    <3> HIDE DEF e
    <3>4. replies \in Seq([pos : Nat, ok : BOOLEAN])
      BY <1>0 DEF Streams
    <3>5. replies' \in Seq([pos : Nat, ok : BOOLEAN])
      BY <3>1, <3>3, <3>4
    <3>6. ASSUME NEW j \in DOMAIN replies'
          PROVE  replies'[j].pos \in 1 .. delivered'
      <4>1. CASE j = Len(replies) + 1
        BY <3>1, <3>3, <3>4, <4>1
      <4>2. CASE j \in DOMAIN replies
        <5>1. replies'[j] = replies[j] /\ replies[j].pos \in 1 .. delivered
          BY <1>0, <3>1, <3>4, <4>2 DEF Streams
        <5> QED
          BY <1>0, <5>1
      <4> QED
        BY <3>1, <3>4, <3>6, <4>1, <4>2
    <3> QED
      BY <3>5, <3>6
  <2> QED
    BY <2>1, <2>2, Writers
<1>2. snapshots' \in Seq(Snapshot) /\ \A j \in DOMAIN snapshots' : snapshots'[j].pos \in 1 .. delivered'
  <2>0. snapshots \in Seq(Snapshot) /\ \A j \in DOMAIN snapshots : snapshots[j].pos \in 1 .. delivered'
    BY <1>0 DEF Streams, Snapshot
  <2>1. CASE snapshots' = snapshots
    BY <2>0, <2>1
  <2>2. CASE SaveSnapshot /\ snapshots' # snapshots
    <3> DEFINE s == [pos |-> Head(todo), wallet |-> SnapshotWallet, of |-> found, rows |-> FALSE]
    <3>1. s \in Snapshot /\ s.pos = Head(todo) /\ snapshots' = Append(snapshots, s)
      BY <2>2, SnapshotSaved
    <3>2. Head(todo) \in 1 .. delivered
      BY <2>2, CommandInHand DEF SaveSnapshot, Busy
    <3> HIDE DEF s
    <3>3. s.pos \in 1 .. delivered'
      BY <1>0, <3>1, <3>2
    <3>4. ASSUME NEW j \in DOMAIN snapshots'
          PROVE  snapshots'[j].pos \in 1 .. delivered'
      <4>1. CASE j = Len(snapshots) + 1
        BY <2>0, <3>1, <3>3, <4>1
      <4>2. CASE j \in DOMAIN snapshots
        BY <2>0, <3>1, <4>2
      <4> QED
        BY <2>0, <3>1, <3>4, <4>1, <4>2
    <3> QED
      BY <2>0, <3>1, <3>4
  <2>3. CASE SaveHoldings /\ snapshots' # snapshots
    BY <2>0, <2>3, HoldingsSaved
  <2> QED
    BY <2>1, <2>2, <2>3, Writers
<1>3. audits' \in SUBSET (1 .. delivered') /\ done' \in SUBSET (1 .. delivered')
  <2>1. pc \in Busy => Head(todo) \in 1 .. delivered'
    BY <1>0, CommandInHand
  <2>2. audits \in SUBSET (1 .. delivered') /\ done \in SUBSET (1 .. delivered')
    BY <1>0 DEF Streams
  <2>3. Audit \/ Ack => pc \in Busy
    BY DEF Audit, Ack, Busy
  <2>4. audits' \subseteq audits \cup (IF Audit THEN {Head(todo)} ELSE {})
    BY Writers DEF Audit
  <2>5. done' \subseteq done \cup (IF Ack THEN {Head(todo)} ELSE {})
    BY Writers DEF Ack
  <2> QED
    BY <2>1, <2>2, <2>3, <2>4, <2>5
<1>4. hasGroup' \in BOOLEAN
  BY <1>0, Writers DEF Start, CreateGroup, Streams
<1>5. running' \in BOOLEAN
  BY <1>0, Writers DEF Stop, Restart, Streams
<1>6. ok' \in BOOLEAN
  BY <1>0, Writers DEF Collect, ChangeWallet, Ack, Crash, Streams
<1>7. hurt' \in SUBSET (1 .. delivered')
  <2>1. todo # <<>> => Head(todo) \in 1 .. delivered
    BY CommandInHand DEF IInv, InHand
  <2>2. hurt \in SUBSET (1 .. delivered)
    BY <1>0 DEF Streams
  <2> QED
    BY <1>0, <2>1, <2>2, CausesStay
<1> QED
  BY <1>1, <1>2, <1>3, <1>4, <1>5, <1>6, <1>7 DEF Streams, Snapshot

-----------------------------------------------------------------------------
(* The way of a command through the handler.                               *)

LEMMA AtCommandStep ==
  ASSUME IInv, HInv, [Next]_vars
  PROVE  AtCommand'
<1>0. AtCommand
  BY DEF HInv
<1>1. CASE Handler
  <2>0. request' = request
    BY <1>1, HandlerSame
  <2> USE <2>0 DEF AtCommand, Goto, Caught
  <2>1. CASE Dispatch
    BY <1>0, <2>1 DEF Dispatch, Refused, Handled
  <2>2. CASE GetUser
    BY <1>0, <2>2 DEF GetUser
  <2>3. CASE Collect
    BY <1>0, <2>3 DEF Collect, Handled
  <2>4. CASE SaveSnapshot
    BY <1>0, <2>4 DEF SaveSnapshot
  <2>5. CASE SaveHoldings
    BY <1>0, <2>5 DEF SaveHoldings, Handled
  <2>6. CASE ChangeWallet
    BY <1>0, <2>6 DEF ChangeWallet
  <2>7. CASE Audit
    BY <1>0, <2>7 DEF Audit, Handled
  <2>8. CASE Reply
    BY <1>0, <2>8 DEF Reply
  <2> QED
    BY <1>1, <2>1, <2>2, <2>3, <2>4, <2>5, <2>6, <2>7, <2>8 DEF Handler
<1>2. CASE Ack
  BY <1>2 DEF Ack, AtCommand
<1>3. CASE Aside
  <2>1. CASE UNCHANGED <<pc, todo>> /\ pc \in Busy
    BY <1>0, <2>1, SameCommand DEF AtCommand
  <2>2. CASE UNCHANGED <<pc, todo>> /\ pc \notin Busy
    BY <2>2 DEF AtCommand, Busy
  <2>3. CASE pc' \in Idle
    BY <2>3 DEF AtCommand, Idle
  <2> QED
    BY <1>3, <2>1, <2>2, <2>3 DEF Aside, Idle
<1>4. CASE Fresh
  BY <1>4 DEF Fresh, AtCommand
<1> QED
  BY <1>1, <1>2, <1>3, <1>4, Kinds

\* The table of wallets never loses a row.
LEMMA RowsStay ==
  ASSUME IInv, HInv, [Next]_vars
  PROVE  DOMAIN wallets \subseteq DOMAIN wallets'
<1>1. CASE wallets' = wallets
  BY <1>1
<1>2. CASE ChangeWallet /\ wallets' = Change(request)
  <2>1. DOMAIN wallets \subseteq DOMAIN Change(request)
    BY DEF Change, Inserted, Deactivated
  <2> QED
    BY <1>2, <2>1
<1> QED
  BY <1>1, <1>2, Writers, ChangedRows

LEMMA InSnapshotStep ==
  ASSUME IInv, HInv, [Next]_vars
  PROVE  InSnapshot'
<1>0. InSnapshot /\ AtCommand
  BY DEF HInv
<1>1. found' \in SUBSET (DOMAIN wallets')
  <2>1. found' \in SUBSET (DOMAIN wallets)
    BY <1>0, Writers DEF InSnapshot, Collect, Active, Ack, Crash
  <2> QED
    BY <2>1, RowsStay
<1>2. pc' = "snapshot" => found' # {}
  <2>1. CASE Collect
    BY <2>1 DEF Collect, Goto
  <2>2. CASE Handler /\ ~ Collect
    BY <2>2 DEF Handler, Dispatch, GetUser, SaveSnapshot, SaveHoldings, ChangeWallet, Audit,
                Reply, Goto, Caught
  <2>3. CASE Ack
    BY <2>3 DEF Ack
  <2>4. CASE ~ Ack /\ Aside
    <3>1. pc' = "snapshot" => pc = "snapshot" /\ ~ Crash /\ ~ Collect
      BY <2>4 DEF Aside, Idle, Crash, Collect
    <3> QED
      BY <1>0, <2>4, <3>1, Writers DEF InSnapshot
  <2>5. CASE Fresh
    BY <2>5 DEF Fresh
  <2> QED
    BY <2>1, <2>2, <2>3, <2>4, <2>5, Kinds
<1>3. ASSUME pc' = "holdings"
      PROVE  /\ snapshots' # <<>> /\ snapshots'[Len(snapshots')].pos = Head(todo')
             /\ ~ snapshots'[Len(snapshots')].rows
  <2>1. CASE SaveSnapshot
    <3> DEFINE s == [pos |-> Head(todo), wallet |-> SnapshotWallet, of |-> found, rows |-> FALSE]
    <3>1. snapshots' = Append(snapshots, s) /\ todo' = todo
      BY <1>3, <2>1 DEF SaveSnapshot, Caught, Goto
    <3>2. s.pos = Head(todo) /\ ~ s.rows
      OBVIOUS
    <3> HIDE DEF s
    <3>3. snapshots \in Seq(Snapshot)
      BY DEF HInv, Streams, Snapshot
    <3>4. snapshots' # <<>> /\ snapshots'[Len(snapshots')] = s
      BY <3>1, <3>3
    <3> QED
      BY <3>1, <3>2, <3>4
  <2>2. CASE Handler /\ ~ SaveSnapshot
    BY <1>3, <2>2 DEF Handler, Dispatch, GetUser, Collect, SaveHoldings, ChangeWallet, Audit,
                Reply, Goto, Caught
  <2>3. CASE Ack \/ Fresh
    BY <1>3, <2>3 DEF Ack, Fresh
  <2>4. CASE Aside /\ ~ Handler
    <3>1. pc = "holdings" /\ todo' = todo /\ ~ SaveSnapshot /\ ~ SaveHoldings
      BY <1>3, <2>4 DEF Aside, Idle, Handler
    <3>2. snapshots' = snapshots
      BY <3>1, Writers
    <3> QED
      BY <1>0, <3>1, <3>2 DEF InSnapshot
  <2> QED
    BY <2>1, <2>2, <2>3, <2>4, Kinds
<1> QED
  BY <1>1, <1>2, <1>3 DEF InSnapshot

\* An "ok" is set by the call that makes it true, and stays true until the reply.
LEMMA OkMeansStep ==
  ASSUME IInv, HInv, [Next]_vars
  PROVE  OkMeans'
<1>0. OkMeans /\ AtCommand /\ Rows
  BY DEF HInv
<1> SUFFICES ASSUME ok'
             PROVE  /\ pc' \in {"snapshot", "holdings", "audit", "reply", "ack"}
                    /\ pc' \in {"audit", "reply"} =>
                         /\ request'.cmd = "add_wallet" => Tracked(request.arg)'
                         /\ request'.cmd = "remove_wallet" => ~ Tracked(request.arg)'
                         /\ request'.cmd = "balance" => Stored(Head(todo))'
  BY DEF OkMeans
<1>1. CASE Handler
  <2>0. request' = request /\ todo' = todo
    BY <1>1, HandlerSame
  <2>1. CASE Dispatch \/ GetUser
    BY <1>0, <2>1 DEF Dispatch, GetUser, OkMeans, Goto, Caught, handler, database, ids
  <2>2. CASE Collect
    BY <1>0, <2>0, <2>2 DEF Collect, Goto, Caught, OkMeans, AtCommand
  <2>3. CASE SaveSnapshot
    BY <2>3 DEF SaveSnapshot, Goto, Caught
  <2>4. CASE SaveHoldings
    <3>1. pc' \in {"reply", "ack"} /\ request.cmd = "balance"
      BY <1>0, <2>4 DEF SaveHoldings, Goto, Caught, AtCommand
    <3>2. ASSUME pc' = "reply" PROVE Stored(Head(todo))'
      BY <2>0, <2>4, <3>2, HoldingsSaved DEF Stored
    <3> QED
      BY <2>0, <3>1, <3>2
  <2>5. CASE ChangeWallet
    <3>1. CASE pc' = "ack"
      BY <3>1
    <3>2. CASE pc' = "audit" /\ wallets' = Change(request)
      <4>1. request.cmd \in {"add_wallet", "remove_wallet"} /\ request.user \in Users
        BY <2>5, ChangedRows, CommandInHand DEF Busy
      <4>2. ASSUME request.cmd = "add_wallet" PROVE Tracked(request.arg)'
        <5>1. request.arg \in Addresses /\ wallets' = Inserted(request.arg, request.user)
          BY <2>5, <3>2, <4>2, ChangedRows DEF Change
        <5>2. request.arg \in DOMAIN Inserted(request.arg, request.user)
          BY DEF Inserted
        <5>3. Inserted(request.arg, request.user)[request.arg].active
          BY <1>0, <4>1, <5>1, InsertedRows
        <5> QED
          BY <2>0, <5>1, <5>2, <5>3 DEF Tracked
      <4>3. ASSUME request.cmd = "remove_wallet" PROVE ~ Tracked(request.arg)'
        <5>1. wallets' = Deactivated(request.arg)
          BY <3>2, <4>3 DEF Change
        <5> QED
          BY <1>0, <2>0, <5>1, DeactivatedRows DEF Tracked
      <4> QED
        BY <2>0, <3>2, <4>1, <4>2, <4>3
    <3> QED
      BY <2>5, <3>1, <3>2 DEF ChangeWallet, Goto, Caught
  <2>6. CASE Audit
    BY <1>0, <2>0, <2>6 DEF Audit, Goto, handler, database, ids, OkMeans, Tracked, Stored
  <2>7. CASE Reply
    BY <2>7 DEF Reply, Goto
  <2> QED
    BY <1>1, <2>1, <2>2, <2>3, <2>4, <2>5, <2>6, <2>7 DEF Handler
<1>2. CASE Ack
  BY <1>2 DEF Ack
<1>3. CASE ~ Handler /\ ~ Ack
  <2>1. ~ Crash
    BY DEF Crash
  <2>2. ok' = ok /\ wallets' = wallets /\ snapshots' = snapshots
    BY <1>3, <2>1, Writers DEF Handler
  <2>3. pc \in {"snapshot", "holdings", "audit", "reply", "ack"}
    BY <1>0, <2>2 DEF OkMeans
  <2>4. UNCHANGED <<pc, todo>>
    BY <1>3, <2>1, <2>3, Kinds DEF Aside, Fresh, Idle
  <2>5. request' = request
    BY <2>3, <2>4, SameCommand DEF Busy
  <2> QED
    BY <1>0, <2>2, <2>4, <2>5 DEF OkMeans, Tracked, Stored
<1> QED
  BY <1>1, <1>2, <1>3

-----------------------------------------------------------------------------
(* Ids that are lost, and commands without an answer.                      *)

\* A row of the first id comes with the first draw, or not at all.
LEMMA FirstIdStep ==
  ASSUME IInv, HInv, [Next]_vars
  PROVE  FirstId'
<1>0. Rows /\ FirstId /\ nextId \in Nat \ {0} /\ burned \in SUBSET (1 .. nextId - 1)
  BY DEF HInv, Rows
<1>1. nextId = 1 => DOMAIN wallets = {} /\ burned = {}
  <2>1. \A a \in DOMAIN wallets : wallets[a].id \in 1 .. nextId - 1
    BY <1>0 DEF Rows
  <2>2. nextId = 1 => 1 .. nextId - 1 = {}
    OBVIOUS
  <2> QED
    BY <1>0, <2>1, <2>2
<1>2. CASE wallets' = wallets /\ nextId' = nextId /\ burned' = burned
  BY <1>0, <1>2 DEF FirstId, HasId
<1>3. CASE wallets' = wallets /\ Burn /\ nextId' \in {nextId, nextId + 1}
  <2>1. HasId(SnapshotWallet)' = HasId(SnapshotWallet)
    BY <1>3 DEF HasId
  <2>2. CASE nextId' = nextId
    <3>1. nextId .. nextId' - 1 = {}
      BY <1>0, <2>2
    <3>2. burned' = burned
      BY <1>3, <3>1 DEF Burn
    <3> QED
      BY <1>2, <1>3, <2>2, <3>2
  <2>3. CASE nextId' = nextId + 1
    <3>1. nextId .. nextId' - 1 = {nextId}
      BY <1>0, <2>3
    <3>2. burned' = burned \cup {nextId}
      BY <1>3, <3>1 DEF Burn
    <3>3. CASE nextId = 1
      <4>1. ~ HasId(SnapshotWallet)
        BY <1>1, <3>3 DEF HasId
      <4>2. SnapshotWallet \in burned'
        BY <3>2, <3>3 DEF SnapshotWallet
      <4> QED
        BY <2>1, <4>1, <4>2 DEF FirstId
    <3>4. CASE nextId # 1
      <4>1. SnapshotWallet \in burned' <=> SnapshotWallet \in burned
        BY <3>2, <3>4 DEF SnapshotWallet
      <4>2. HasId(SnapshotWallet) <=> SnapshotWallet \notin burned
        BY <1>0, <3>4 DEF FirstId
      <4>3. HasId(SnapshotWallet)' <=> SnapshotWallet \notin burned'
        BY <2>1, <4>1, <4>2
      <4> QED
        BY <4>3 DEF FirstId
    <3> QED
      BY <3>3, <3>4
  <2> QED
    BY <1>3, <2>2, <2>3
<1>4. CASE /\ ChangeWallet /\ wallets' = Change(request) /\ burned' = burned
           /\ request.cmd = "add_wallet" => nextId' = nextId + 1
           /\ request.cmd # "add_wallet" => nextId' = nextId
  <2>1. CASE request.cmd = "add_wallet"
    <3> DEFINE x == request.arg  u == request.user
    <3>1. x \in Addresses /\ u \in Users /\ wallets' = Inserted(x, u)
      BY <1>4, <2>1, ChangedRows, CommandInHand DEF Change, Busy
    <3> HIDE DEF x, u
    <3>2. /\ DOMAIN Inserted(x, u) = DOMAIN wallets \cup {x}
          /\ x \notin DOMAIN wallets => Inserted(x, u)[x].id = nextId
          /\ \A b \in DOMAIN wallets : Inserted(x, u)[b].id = wallets[b].id
      <4>1. /\ DOMAIN Inserted(x, u) = DOMAIN wallets \cup {x}
            /\ x \notin DOMAIN wallets => Inserted(x, u)[x].id = nextId
        BY <1>0, <3>1, InsertedRows
      <4>2. ASSUME NEW b \in DOMAIN wallets
            PROVE  Inserted(x, u)[b].id = wallets[b].id
        BY <1>0, <3>1, InsertedIds, Zenon
      <4> QED
        BY <4>1, <4>2, Zenon
    <3>3. CASE nextId = 1
      <4>1. x \in DOMAIN wallets' /\ wallets'[x].id = 1
        BY <1>1, <3>1, <3>2, <3>3
      <4>2. HasId(SnapshotWallet)' /\ SnapshotWallet \notin burned'
        BY <1>1, <1>4, <3>3, <4>1 DEF HasId, SnapshotWallet
      <4> QED
        BY <4>2 DEF FirstId
    <3>4. CASE nextId # 1
      <4>1. HasId(SnapshotWallet) <=> SnapshotWallet \notin burned
        BY <1>0, <3>4 DEF FirstId
      <4>2. ASSUME HasId(SnapshotWallet) PROVE HasId(SnapshotWallet)'
        BY <3>1, <3>2, <4>2 DEF HasId
      <4>3. ASSUME HasId(SnapshotWallet)' PROVE HasId(SnapshotWallet)
        <5>1. PICK b \in DOMAIN wallets \cup {x} : Inserted(x, u)[b].id = 1
          BY <3>1, <3>2, <4>3 DEF HasId, SnapshotWallet
        <5>2. b \in DOMAIN wallets
          BY <3>2, <3>4, <5>1
        <5> QED
          BY <3>2, <5>1, <5>2 DEF HasId, SnapshotWallet
      <4>4. HasId(SnapshotWallet)' <=> SnapshotWallet \notin burned'
        BY <1>4, <4>1, <4>2, <4>3
      <4> QED
        BY <4>4 DEF FirstId
    <3> QED
      BY <3>3, <3>4
  <2>2. CASE request.cmd # "add_wallet"
    <3>1. wallets' = Deactivated(request.arg) /\ nextId' = nextId /\ burned' = burned
      BY <1>4, <2>2 DEF Change
    <3>2. DOMAIN wallets' = DOMAIN wallets /\ \A b \in DOMAIN wallets : wallets'[b].id = wallets[b].id
      BY <1>0, <3>1, DeactivatedRows
    <3>3. HasId(SnapshotWallet)' <=> HasId(SnapshotWallet)
      BY <3>2 DEF HasId
    <3> QED
      BY <1>0, <3>1, <3>3 DEF FirstId
  <2> QED
    BY <2>1, <2>2
<1>5. CASE ChangeWallet
  BY <1>3, <1>4, <1>5, ChangedRows
<1>6. CASE Crash
  <2>1. nextId' \in {nextId, nextId + 1} /\ wallets' = wallets /\ Burn
    BY <1>6 DEF Crash
  <2> QED
    BY <1>3, <2>1
<1> QED
  BY <1>2, <1>5, <1>6, Writers, CausesStay

\* What is served stays served.
LEMMA ServedKept ==
  ASSUME IInv, HInv, [Next]_vars, NEW k \in 1 .. delivered, Served(k)
  PROVE  Served(k)'
<1>0. requests'[k] = requests[k] /\ Streams
  BY RequestsKept DEF HInv
<1>1. ASSUME Answered(k) PROVE Answered(k)'
  <2>1. PICK j \in DOMAIN replies : replies[j].pos = k
    BY <1>1 DEF Answered
  <2>2. CASE replies' = replies
    BY <2>1, <2>2 DEF Answered
  <2>3. CASE Reply /\ replies' # replies
    <3> DEFINE e == [pos |-> Head(todo), ok |-> ok]
    <3>1. replies' = Append(replies, e) /\ replies \in Seq([pos : Nat, ok : BOOLEAN])
      BY <1>0, <2>3 DEF Reply, Streams
    <3> HIDE DEF e
    <3>2. j \in DOMAIN replies' /\ replies'[j] = replies[j]
      BY <2>1, <3>1
    <3> QED
      BY <2>1, <3>2 DEF Answered
  <2> QED
    BY <2>2, <2>3, Writers
<1> QED
  BY <1>0, <1>1, CausesStay DEF Served

\* A handler that gets to its XACK has served its command.
LEMMA ReachesAck ==
  ASSUME IInv, HInv, [Next]_vars, Handler, pc' = "ack"
  PROVE  Served(Head(todo))'
<1>0. /\ AtCommand /\ InSnapshot /\ FirstId /\ Rows /\ Streams
      /\ pc \in Busy /\ todo' = todo /\ request' = request
  BY HandlerSame DEF HInv
<1>1. Head(todo) \in 1 .. delivered /\ Head(todo') = Head(todo)
      /\ requests'[Head(todo)] = request
  BY <1>0, CommandInHand DEF request
<1>2. CASE Fault
  <2>1. Head(todo) \in hurt'
    BY <1>0, <1>2, CommandInHand DEF Fault
  <2> QED
    BY <1>1, <2>1 DEF Served
<1> SUFFICES ASSUME ~ Fault PROVE Served(Head(todo))'
  BY <1>2
<1>3. CASE Dispatch
  <2>1. request.cmd \notin Handled
    BY <1>3 DEF Dispatch, Goto, Handled
  <2> QED
    BY <1>1, <2>1 DEF Served
<1>4. CASE GetUser
  BY <1>4 DEF GetUser, Goto, Caught
<1>5. CASE Collect
  BY <1>5 DEF Collect, Goto, Caught
<1>6. CASE SaveSnapshot
  <2>1. pc = "snapshot" /\ ~ HasId(SnapshotWallet) /\ burned' = burned
    BY <1>6 DEF SaveSnapshot, Goto, Caught, ids
  <2>2. PICK a \in DOMAIN wallets : wallets[a].id \in 1 .. nextId - 1
    BY <1>0, <2>1 DEF InSnapshot, Rows
  <2>3. nextId # 1
    BY <1>0, <2>2 DEF Rows
  <2>4. SnapshotWallet \in burned' /\ request.cmd = "balance"
    BY <1>0, <2>1, <2>3 DEF FirstId, AtCommand
  <2> QED
    BY <1>1, <2>4 DEF Served
<1>7. CASE SaveHoldings
  BY <1>7 DEF SaveHoldings, Goto, Caught
<1>8. CASE ChangeWallet
  BY <1>8 DEF ChangeWallet, Goto, Caught
<1>9. CASE Audit
  BY <1>9 DEF Audit, Goto
<1>10. CASE Reply
  <2> DEFINE e == [pos |-> Head(todo), ok |-> ok]
  <2>1. replies' = Append(replies, e) /\ replies \in Seq([pos : Nat, ok : BOOLEAN])
    BY <1>0, <1>10 DEF Reply, Streams
  <2>2. e.pos = Head(todo)
    OBVIOUS
  <2> HIDE DEF e
  <2>3. Len(replies') \in DOMAIN replies' /\ replies'[Len(replies')] = e
    BY <2>1
  <2> QED
    BY <1>1, <2>2, <2>3 DEF Served, Answered
<1> QED
  BY <1>3, <1>4, <1>5, <1>6, <1>7, <1>8, <1>9, <1>10 DEF Handler

LEMMA AllServedStep ==
  ASSUME IInv, HInv, [Next]_vars
  PROVE  AllServed'
<1>0. Streams /\ AllServed
  BY DEF HInv
<1>1. ASSUME NEW k \in done
      PROVE  Served(k)'
  <2>1. k \in 1 .. delivered /\ Served(k)
    BY <1>0 DEF Streams, AllServed
  <2> QED
    BY <2>1, ServedKept
<1>2. ASSUME pc = "ack"
      PROVE  \E k \in 1 .. delivered : k = Head(todo) /\ Served(k)'
  <2>1. PICK k \in 1 .. delivered : k = Head(todo)
    BY <1>2, CommandInHand DEF Busy
  <2>2. Served(k)
    BY <1>0, <1>2, <2>1 DEF AllServed
  <2> QED
    BY <2>1, <2>2, ServedKept
<1>3. CASE Ack
  <2>1. done' = done \cup {Head(todo)} /\ pc = "ack" /\ pc' # "ack"
    BY <1>3 DEF Ack
  <2> QED
    BY <1>1, <1>2, <2>1 DEF AllServed
<1>4. CASE Handler
  <2>1. done' = done
    BY <1>4, Writers DEF Handler, Ack, Dispatch, GetUser, Collect, SaveSnapshot,
       SaveHoldings, ChangeWallet, Audit, Reply
  <2> QED
    BY <1>1, <1>4, <2>1, ReachesAck DEF AllServed
<1>5. CASE ~ Handler /\ ~ Ack
  <2>1. done' = done
    BY <1>5, Writers
  <2>2. ASSUME pc' = "ack" PROVE Served(Head(todo))'
    <3>1. UNCHANGED <<pc, todo>> /\ pc = "ack"
      BY <1>5, <2>2, Kinds DEF Aside, Fresh, Idle
    <3>2. PICK k \in 1 .. delivered : k = Head(todo) /\ Served(k)'
      BY <1>2, <3>1
    <3>3. Head(todo)' = k
      BY <3>1, <3>2
    <3> QED
      BY <3>2, <3>3
  <2> QED
    BY <1>1, <2>1, <2>2 DEF AllServed
<1> QED
  BY <1>3, <1>4, <1>5

-----------------------------------------------------------------------------
\* A sequence whose elements are in S.
LEMMA Narrower ==
  ASSUME NEW S, NEW T, NEW s \in Seq(T), \A i \in 1 .. Len(s) : s[i] \in S
  PROVE  s \in Seq(S)
BY SeqDef

LEMMA AnswersInit == Init => HInv
<1> SUFFICES ASSUME Init PROVE HInv
  OBVIOUS
<1>1. Rows
  BY DEF Init, Rows, Role
<1>2. <<>> \in Seq([pos : Nat, ok : BOOLEAN])
  OBVIOUS
<1>3. <<>> \in Seq([pos : Nat, wallet : {SnapshotWallet}, of : SUBSET Addresses, rows : BOOLEAN])
  OBVIOUS
<1>4. Streams
  <2>1. replies = <<>> /\ snapshots = <<>> /\ DOMAIN replies = {} /\ DOMAIN snapshots = {}
    BY DEF Init
  <2> QED
    BY <1>2, <1>3, <2>1 DEF Init, Streams
<1>5. AtCommand /\ InSnapshot /\ OkMeans /\ FirstId /\ AllServed
  BY DEF Init, AtCommand, InSnapshot, OkMeans, FirstId, AllServed
<1> QED
  BY <1>1, <1>4, <1>5 DEF HInv

\* What is in the tables and streams belongs to delivered commands, and an
\* "ok" in preparation is true.
THEOREM AnswersHold == Spec => [](IInv /\ HInv)
<1>1. IInv /\ HInv /\ [Next]_vars => IInv' /\ HInv'
  <2> SUFFICES ASSUME IInv, HInv, [Next]_vars PROVE IInv' /\ HInv'
    OBVIOUS
  <2>1. IInv'
    BY StepHolds
  <2>2. Rows' /\ Streams' /\ AtCommand' /\ InSnapshot'
    BY RowsStep, StreamsStep, AtCommandStep, InSnapshotStep
  <2>3. OkMeans' /\ FirstId' /\ AllServed'
    BY OkMeansStep, FirstIdStep, AllServedStep
  <2> QED
    BY <2>1, <2>2, <2>3 DEF HInv
<1> QED
  BY InitHolds, AnswersInit, <1>1, PTL DEF Spec

\* Every variable has its type, and a batch in hand is pending.
THEOREM TypeCorrect == Spec => []TypeOK
<1>1. IInv /\ HInv => TypeOK
  <2> SUFFICES ASSUME IInv, HInv PROVE TypeOK
    OBVIOUS
  <2>0. IInv /\ Rows /\ Streams /\ PositionsTyped /\ InHand
    BY DEF HInv, IInv
  <2>1. /\ requests \in Seq(Requests) /\ delivered \in 0 .. Len(requests)
        /\ pending \subseteq 1 .. delivered
    BY <2>0 DEF PositionsTyped
  <2>2. Positions(todo) \subseteq pending
    BY <2>0 DEF Positions, InHand
  <2>3. replies \in Seq([pos : 1 .. delivered, ok : BOOLEAN])
    <3>1. /\ replies \in Seq([pos : Nat, ok : BOOLEAN])
          /\ \A j \in DOMAIN replies : replies[j].pos \in 1 .. delivered
      BY <2>0 DEF Streams
    <3>2. ASSUME NEW j \in 1 .. Len(replies)
          PROVE  replies[j] \in [pos : 1 .. delivered, ok : BOOLEAN]
      <4>1. replies[j] \in [pos : Nat, ok : BOOLEAN] /\ j \in DOMAIN replies
        BY <3>1, <3>2, ElementOfSeq, LenProperties
      <4>2. replies[j].pos \in 1 .. delivered
        BY <3>1, <4>1
      <4> QED
        BY <4>1, <4>2
    <3> QED
      BY <3>1, <3>2, Narrower
  <2>4. \A a \in DOMAIN wallets :
          /\ a \in Addresses
          /\ wallets[a] \in [id : 1 .. nextId - 1, owner : Users, active : BOOLEAN]
    <3> SUFFICES ASSUME NEW a \in DOMAIN wallets
                 PROVE  /\ a \in Addresses
                        /\ wallets[a] \in [id : 1 .. nextId - 1, owner : Users, active : BOOLEAN]
      OBVIOUS
    <3>1. /\ a \in Addresses /\ wallets[a].id \in 1 .. nextId - 1
          /\ wallets[a] \in [id : Nat, owner : Users, active : BOOLEAN]
      BY <2>0 DEF Rows
    <3> QED
      BY <3>1
  <2>5. \A j \in DOMAIN snapshots : snapshots[j] \in
          [pos : 1 .. delivered, wallet : {SnapshotWallet}, of : SUBSET Addresses, rows : BOOLEAN]
    <3> SUFFICES ASSUME NEW j \in DOMAIN snapshots
                 PROVE  snapshots[j] \in [pos : 1 .. delivered, wallet : {SnapshotWallet},
                                          of : SUBSET Addresses, rows : BOOLEAN]
      OBVIOUS
    <3>0. snapshots \in Seq(Snapshot)
      BY <2>0 DEF Streams, Snapshot
    <3>1. snapshots[j] \in Snapshot
      BY <3>0
    <3>2. snapshots[j].pos \in 1 .. delivered
      BY <2>0 DEF Streams
    <3> QED
      BY <3>1, <3>2 DEF Snapshot
  <2>6. /\ audits \subseteq 1 .. delivered /\ done \subseteq 1 .. delivered
        /\ hasGroup \in BOOLEAN /\ running \in BOOLEAN /\ ok \in BOOLEAN
        /\ users \in [Users -> {"owner", "guest", NoRow}]
    BY <2>0 DEF Streams, Rows, Role
  <2>7. (todo = <<>>) = (pc \in {"start", "read", "down"})
    BY <2>0 DEF PositionsTyped, InHand, Busy
  <2>8. pc \in {"start", "read", "dispatch", "user", "collect", "snapshot", "holdings",
                "change", "audit", "reply", "ack", "down"}
    BY <2>0 DEF PositionsTyped, Busy
  <2>9. burned \subseteq 1 .. nextId - 1 /\ hurt \subseteq 1 .. delivered
    BY <2>0 DEF Rows, Streams
  <2> QED
    BY <2>1, <2>2, <2>3, <2>4, <2>5, <2>6, <2>7, <2>8, <2>9 DEF TypeOK
<1> QED
  BY AnswersHold, <1>1, PTL

\* A command of the service that is done was answered, unless a call failed
\* while it was in hand, or it is a /balance and wallet 1 was never made.
THEOREM SilenceIsCaused == Spec => []SilenceHasCause
<1>1. IInv /\ HInv => SilenceHasCause
  BY DEF HInv, AllServed, SilenceHasCause, Served
<1> QED
  BY AnswersHold, <1>1, PTL

\* Once there is any wallet there is a wallet 1, exactly if no insert that drew
\* this id was rolled back.
THEOREM FirstWalletIsOne == Spec => []WalletOneExists
<1>1. IInv /\ HInv => WalletOneExists
  <2> SUFFICES ASSUME HInv, DOMAIN wallets # {}
               PROVE  HasId(SnapshotWallet) <=> SnapshotWallet \notin burned
    BY DEF WalletOneExists
  <2>1. PICK a \in DOMAIN wallets : wallets[a].id \in 1 .. nextId - 1
    BY DEF HInv, Rows
  <2>2. nextId # 1
    BY <2>1 DEF HInv, Rows
  <2> QED
    BY <2>2 DEF HInv, FirstId
<1> QED
  BY AnswersHold, <1>1, PTL

\* What a reply calls done is done at the moment it is sent.
THEOREM RepliesAreTrue == Spec => RepliesTrue
<1> DEFINE True ==
      replies' # replies =>
         LET r == replies'[Len(replies')]
             q == requests[r.pos]
         IN  r.ok =>
               CASE q.cmd = "add_wallet"    -> q.arg \in Active(wallets[q.arg].owner)
                 [] q.cmd = "remove_wallet" -> \A u \in Users : q.arg \notin Active(u)
                 [] q.cmd = "balance"       -> \E j \in DOMAIN snapshots :
                                                 snapshots[j].pos = r.pos /\ snapshots[j].rows
                 [] OTHER                   -> TRUE
<1>1. IInv /\ HInv /\ [Next]_vars => [True]_vars
  <2> SUFFICES ASSUME IInv, HInv, [Next]_vars, replies' # replies, replies'[Len(replies')].ok
               PROVE  LET r == replies'[Len(replies')]
                          q == requests[r.pos]
                      IN  CASE q.cmd = "add_wallet"    -> q.arg \in Active(wallets[q.arg].owner)
                            [] q.cmd = "remove_wallet" -> \A u \in Users : q.arg \notin Active(u)
                            [] q.cmd = "balance"       -> \E j \in DOMAIN snapshots :
                                                    snapshots[j].pos = r.pos /\ snapshots[j].rows
                            [] OTHER                   -> TRUE
    OBVIOUS
  <2> DEFINE e == [pos |-> Head(todo), ok |-> ok]
  <2>1. Reply
    BY Writers
  <2>2. replies' = Append(replies, e) /\ replies \in Seq([pos : Nat, ok : BOOLEAN])
    BY <2>1 DEF Reply, HInv, Streams
  <2>3. replies'[Len(replies')] = e
    BY <2>2
  <2>4. e.pos = Head(todo) /\ e.ok = ok
    OBVIOUS
  <2>5. pc = "reply" /\ ok
    BY <2>1, <2>3, <2>4 DEF Reply
  <2>6. /\ request.cmd = "add_wallet" => Tracked(request.arg)
        /\ request.cmd = "remove_wallet" => ~ Tracked(request.arg)
        /\ request.cmd = "balance" => Stored(Head(todo))
    BY <2>5 DEF HInv, OkMeans
  <2>7. requests[replies'[Len(replies')].pos] = request /\ replies'[Len(replies')].pos = Head(todo)
    BY <2>3, <2>4 DEF request
  <2> QED
    BY <2>6, <2>7 DEF Active, Tracked, Stored
<1> QED
  BY AnswersHold, <1>1, PTL DEF Spec, RepliesTrue
=============================================================================
