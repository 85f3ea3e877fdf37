--------------------------- MODULE PortfolioProofs ---------------------------
(***************************************************************************)
(* Proofs about the portfolio consumer, for any requests, wallets, limits  *)
(* and bounds.  They concern what the thread has in hand: the positions in *)
(* todo are increasing, all pending, and beyond everything applied.        *)
(***************************************************************************)
EXTENDS Portfolio, TLAPS

Busy == {"dispatch", "user", "collect", "snapshot", "holdings", "change",
         "audit", "reply", "ack"}

\* The labels from which the handler may still change the wallets.
BeforeChange == {"dispatch", "user", "change"}

\* The types this argument needs.
PositionsTyped ==
    /\ requests \in Seq(Requests) /\ delivered \in 0 .. Len(requests)
    /\ pending \in SUBSET (1 .. delivered)
    /\ todo \in Seq(Nat) /\ applied \in Seq(Nat)
    /\ faults \in Nat /\ downs \in Nat
    /\ pc \in Busy \cup {"start", "read", "down"}

\* The positions in hand: increasing, and pending.
InHand ==
    /\ todo # <<>> <=> pc \in Busy
    /\ \A k \in DOMAIN todo : todo[k] \in pending
    /\ \A j, k \in DOMAIN todo : j < k => todo[j] < todo[k]

\* Nothing beyond the command in hand was applied, nor itself before its turn.
AppliedBehind ==
    \A j \in DOMAIN applied :
        /\ applied[j] \in 1 .. delivered
        /\ todo # <<>> => applied[j] <= todo[1]
        /\ pc \in BeforeChange => applied[j] < todo[1]

IInv == PositionsTyped /\ InHand /\ AppliedBehind /\ ChangesInOrder /\ NothingStranded

\* A step that only moves on to a later label of the handler.
Onward ==
    /\ pc \in Busy /\ pc' \in Busy
    /\ pc' \in BeforeChange => pc \in BeforeChange
    /\ UNCHANGED <<requests, delivered, pending, todo, downs>>
    /\ faults' \in {faults, faults + 1}

-----------------------------------------------------------------------------
\* The handler's steps other than the change of the wallets move onward.
LEMMA HandlerOnward ==
  ASSUME PositionsTyped, Handler
  PROVE  Onward /\ (applied' = applied \/ ChangeWallet)
<1> USE DEF Onward, Busy, BeforeChange, Goto, NoFault, Fault, failures, Caught, group, PositionsTyped
<1>1. CASE Dispatch
  BY <1>1 DEF Dispatch
<1>2. CASE GetUser
  BY <1>2 DEF GetUser
<1>3. CASE Collect
  BY <1>3 DEF Collect
<1>4. CASE SaveSnapshot
  BY <1>4 DEF SaveSnapshot
<1>5. CASE SaveHoldings
  BY <1>5 DEF SaveHoldings
<1>6. CASE ChangeWallet
  BY <1>6 DEF ChangeWallet
<1>7. CASE Audit
  BY <1>7 DEF Audit
<1>8. CASE Reply
  BY <1>8 DEF Reply
<1> QED
  BY <1>1, <1>2, <1>3, <1>4, <1>5, <1>6, <1>7, <1>8 DEF Handler

LEMMA Onwards ==
  ASSUME IInv, Onward, applied' = applied
  PROVE  IInv'
<1>1. PositionsTyped'
  BY DEF IInv, PositionsTyped, Onward
<1>2. InHand'
  BY DEF IInv, InHand, Onward
<1>3. AppliedBehind'
  BY DEF IInv, AppliedBehind, Onward, InHand
<1>4. ChangesInOrder'
  BY DEF IInv, ChangesInOrder
<1>5. faults' = 0 => faults = 0
  BY DEF IInv, PositionsTyped, Onward
<1>6. NothingStranded'
  BY <1>5 DEF IInv, NothingStranded, Calm, Onward, Positions
<1> QED
  BY <1>1, <1>2, <1>3, <1>4, <1>6 DEF IInv

\* The wallets change: the command in hand is beyond all that was applied.
LEMMA ChangeKeeps ==
  ASSUME IInv, ChangeWallet
  PROVE  IInv'
<1>1. Onward /\ pc = "change" /\ pc' \in {"audit", "ack"}
  <2>1. Handler /\ PositionsTyped
    BY DEF Handler, IInv
  <2> QED
    BY <2>1, HandlerOnward DEF ChangeWallet, Caught, Goto
<1>2. CASE applied' = applied
  BY <1>1, <1>2, Onwards
<1>3. CASE applied' = Append(applied, Head(todo))
  <2>1. todo # <<>> /\ todo \in Seq(Nat) /\ applied \in Seq(Nat)
    BY <1>1 DEF IInv, InHand, PositionsTyped, Busy
  <2>2. Head(todo) = todo[1] /\ 1 \in DOMAIN todo
    BY <2>1
  <2>3. todo[1] \in 1 .. delivered /\ todo[1] \in Nat
    BY <2>1, <2>2 DEF IInv, InHand, PositionsTyped
  <2>4. \A j \in DOMAIN applied : applied[j] < todo[1] /\ applied[j] \in 1 .. delivered
    BY <1>1 DEF IInv, AppliedBehind, BeforeChange
  <2>5. /\ applied' \in Seq(Nat)
        /\ DOMAIN applied' = 1 .. Len(applied) + 1
        /\ \A j \in DOMAIN applied : applied'[j] = applied[j]
        /\ applied'[Len(applied) + 1] = todo[1]
    BY <1>3, <2>1, <2>2, <2>3
  <2>6. DOMAIN applied = 1 .. Len(applied) /\ Len(applied) \in Nat
    BY <2>1
  <2>7. PositionsTyped'
    BY <1>1, <2>5 DEF IInv, PositionsTyped, Onward
  <2>8. InHand'
    BY <1>1 DEF IInv, InHand, Onward
  <2>9. AppliedBehind'
    <3> SUFFICES ASSUME NEW j \in DOMAIN applied'
                 PROVE  applied'[j] \in 1 .. delivered /\ applied'[j] <= todo[1]
      BY <1>1 DEF AppliedBehind, Onward, BeforeChange
    <3>1. j \in DOMAIN applied \/ j = Len(applied) + 1
      BY <2>5, <2>6
    <3> QED
      BY <3>1, <2>3, <2>4, <2>5
  <2>10. ChangesInOrder'
    <3> SUFFICES ASSUME NEW j \in DOMAIN applied', NEW k \in DOMAIN applied', j < k
                 PROVE  applied'[j] < applied'[k]
      BY DEF ChangesInOrder
    <3>1. j \in DOMAIN applied /\ (k \in DOMAIN applied \/ k = Len(applied) + 1)
      BY <2>5, <2>6
    <3>2. CASE k \in DOMAIN applied
      BY <3>1, <3>2, <2>5 DEF IInv, ChangesInOrder
    <3>3. CASE k = Len(applied) + 1
      BY <3>1, <3>3, <2>4, <2>5
    <3> QED
      BY <3>1, <3>2, <3>3
  <2>11. NothingStranded'
    BY <1>1 DEF IInv, NothingStranded, Calm, Onward, Positions, PositionsTyped
  <2> QED
    BY <2>7, <2>8, <2>9, <2>10, <2>11 DEF IInv
<1> QED
  BY <1>2, <1>3 DEF ChangeWallet

-----------------------------------------------------------------------------
\* What read_commands gets: new positions, in order, none of them pending.
LEMMA ReadKeeps ==
  ASSUME IInv, ReadCommands
  PROVE  IInv' /\ pending \subseteq pending' /\ Positions(todo') \cap pending = {}
<1> DEFINE n == Len(NewPositions)
<1>1. /\ pc = "read" /\ todo = <<>>
      /\ delivered \in Nat /\ Len(requests) \in Nat /\ Len(requests) > delivered
      /\ pending \in SUBSET (1 .. delivered)
  BY DEF ReadCommands, IInv, InHand, PositionsTyped, Busy
<1>2. /\ n \in 1 .. Len(requests) - delivered
      /\ NewPositions \in Seq(Nat) /\ DOMAIN NewPositions = 1 .. n
      /\ \A k \in 1 .. n : NewPositions[k] = delivered + k
  BY <1>1, LimitsAssumption DEF NewPositions
<1>3. /\ delivered' = delivered + n /\ pending' = pending \cup Positions(NewPositions)
      /\ UNCHANGED <<requests, applied, downs>> /\ faults' \in {faults, faults + 1}
  BY DEF ReadCommands, NoFault, Fault, failures
<1>4. Positions(NewPositions) = (delivered + 1) .. (delivered + n)
  <2>1. ASSUME NEW x \in (delivered + 1) .. (delivered + n)
        PROVE  x \in Positions(NewPositions)
    <3>1. x - delivered \in 1 .. n /\ NewPositions[x - delivered] = x
      BY <1>1, <1>2
    <3> QED
      BY <3>1, <1>2 DEF Positions
  <2>2. ASSUME NEW x \in Positions(NewPositions)
        PROVE  x \in (delivered + 1) .. (delivered + n)
    <3>1. PICK k \in 1 .. n : x = NewPositions[k]
      BY <1>2 DEF Positions
    <3> QED
      BY <3>1, <1>1, <1>2
  <2> QED
    BY <2>1, <2>2
<1>5. pending' \in SUBSET (1 .. delivered') /\ delivered' \in 0 .. Len(requests')
  <2>1. delivered' \in 0 .. Len(requests') /\ delivered' \in Nat /\ delivered <= delivered'
    BY <1>1, <1>2, <1>3
  <2>2. pending' \subseteq (1 .. delivered) \cup ((delivered + 1) .. (delivered + n))
    BY <1>1, <1>3, <1>4
  <2>3. (1 .. delivered) \cup ((delivered + 1) .. (delivered + n)) \subseteq 1 .. delivered'
    BY <1>1, <1>2, <1>3
  <2> QED
    BY <2>1, <2>2, <2>3
<1>6. \A j \in DOMAIN applied' : applied'[j] \in 1 .. delivered
  BY <1>3 DEF IInv, AppliedBehind
<1>7. \A j \in DOMAIN applied' : applied'[j] \in 1 .. delivered' /\ applied'[j] < delivered + 1
  BY <1>1, <1>2, <1>3, <1>6
<1>8. ChangesInOrder'
  BY <1>3 DEF IInv, ChangesInOrder
<1>9. CASE todo' = NewPositions /\ pc' = "dispatch" /\ faults' = faults
  <2>1. PositionsTyped'
    BY <1>2, <1>3, <1>5, <1>9 DEF IInv, PositionsTyped, Busy
  <2>2. InHand'
    <3>1. todo' # <<>>
      BY <1>2, <1>9
    <3>2. \A k \in DOMAIN todo' : todo'[k] \in pending'
      BY <1>3, <1>9 DEF Positions
    <3>3. \A j, k \in DOMAIN todo' : j < k => todo'[j] < todo'[k]
      BY <1>1, <1>2, <1>9
    <3> QED
      BY <3>1, <3>2, <3>3, <1>9 DEF InHand, Busy
  <2>3. todo'[1] = delivered + 1
    BY <1>2, <1>9
  <2>4. AppliedBehind'
    BY <1>1, <1>2, <1>3, <1>7, <2>3 DEF AppliedBehind
  <2>5. Positions(todo) = {}
    BY <1>1 DEF Positions
  <2>6. NothingStranded'
    BY <1>3, <1>9, <2>5 DEF IInv, NothingStranded, Calm, Positions
  <2>7. Positions(todo') \cap pending = {}
    BY <1>1, <1>4, <1>9 DEF Positions
  <2> QED
    BY <1>3, <1>8, <2>1, <2>2, <2>4, <2>6, <2>7 DEF IInv
<1>10. CASE faults' = faults + 1 /\ todo' = todo /\ pc' = pc
  <2>1. PositionsTyped'
    BY <1>3, <1>5, <1>10 DEF IInv, PositionsTyped
  <2>2. InHand'
    BY <1>1, <1>10 DEF IInv, InHand
  <2>3. AppliedBehind'
    BY <1>1, <1>7, <1>10 DEF AppliedBehind, BeforeChange
  <2>4. NothingStranded' /\ Positions(todo') = {}
    BY <1>1, <1>10 DEF IInv, PositionsTyped, NothingStranded, Calm, Positions
  <2> QED
    BY <1>3, <1>8, <2>1, <2>2, <2>3, <2>4 DEF IInv
<1> QED
  BY <1>9, <1>10 DEF ReadCommands, NoFault, Fault, failures

\* The XACK removes at most the command in hand.
LEMMA AckKeeps ==
  ASSUME IInv, Ack
  PROVE  IInv' /\ pending \ Positions(todo) \subseteq pending' \ Positions(todo')
<1>1. /\ pc = "ack" /\ todo \in Seq(Nat) /\ todo # <<>>
      /\ todo' = Tail(todo) /\ UNCHANGED <<requests, delivered, applied, downs>>
      /\ pc' \in {"read", "dispatch"} /\ (pc' = "read" <=> todo' = <<>>)
      /\ faults' \in {faults, faults + 1}
      /\ pending' \in {pending, pending \ {Head(todo)}}
      /\ faults' = faults => pending' = pending \ {Head(todo)}
  BY DEF Ack, IInv, InHand, PositionsTyped, Busy, NoFault, Fault, failures
<1>2. /\ Head(todo) = todo[1] /\ 1 \in DOMAIN todo
      /\ todo' \in Seq(Nat) /\ Len(todo') = Len(todo) - 1
      /\ \A k \in DOMAIN todo' : k + 1 \in DOMAIN todo /\ todo'[k] = todo[k + 1]
      /\ \A k \in DOMAIN todo : k # 1 => k - 1 \in DOMAIN todo'
  BY <1>1
<1>3. \A k \in DOMAIN todo' : todo[1] < todo'[k]
  BY <1>2 DEF IInv, InHand
<1>4. Positions(todo') = Positions(todo) \ {Head(todo)}
  <2>1. ASSUME NEW x \in Positions(todo')
        PROVE  x \in Positions(todo) \ {Head(todo)}
    <3>1. PICK k \in DOMAIN todo' : x = todo'[k]
      BY DEF Positions
    <3>2. x = todo[k + 1] /\ k + 1 \in DOMAIN todo /\ todo[1] < x
      BY <1>2, <1>3, <3>1
    <3>3. todo[1] \in Nat /\ x \in Nat
      BY <1>1, <1>2, <3>2
    <3> QED
      BY <1>2, <3>2, <3>3 DEF Positions
  <2>2. ASSUME NEW x \in Positions(todo) \ {Head(todo)}
        PROVE  x \in Positions(todo')
    <3>1. PICK k \in DOMAIN todo : x = todo[k]
      BY DEF Positions
    <3>2. k # 1 /\ k \in Nat
      BY <1>1, <1>2, <3>1
    <3>3. k - 1 \in DOMAIN todo' /\ todo'[k - 1] = x
      BY <1>1, <1>2, <3>1, <3>2
    <3> QED
      BY <3>3 DEF Positions
  <2> QED
    BY <2>1, <2>2
<1>5. PositionsTyped'
  BY <1>1, <1>2 DEF IInv, PositionsTyped, Busy
<1>6. InHand'
  <2>1. \A k \in DOMAIN todo' : todo'[k] \in pending'
    <3> SUFFICES ASSUME NEW k \in DOMAIN todo' PROVE todo'[k] \in pending'
      OBVIOUS
    <3>1. todo'[k] \in pending /\ todo'[k] # todo[1]
      <4>1. todo'[k] = todo[k + 1] /\ k + 1 \in DOMAIN todo /\ todo[1] < todo'[k]
        BY <1>2, <1>3
      <4>2. todo[1] \in Nat /\ todo'[k] \in Nat
        BY <1>1, <1>2
      <4> QED
        BY <4>1, <4>2 DEF IInv, InHand
    <3> QED
      BY <1>1, <1>2, <3>1
  <2>2. \A j, k \in DOMAIN todo' : j < k => todo'[j] < todo'[k]
    <3> SUFFICES ASSUME NEW j \in DOMAIN todo', NEW k \in DOMAIN todo', j < k
                 PROVE  todo'[j] < todo'[k]
      OBVIOUS
    <3>1. j + 1 < k + 1
      BY <1>2
    <3> QED
      BY <1>2, <3>1 DEF IInv, InHand
  <2>3. todo' # <<>> <=> pc' \in Busy
    BY <1>1 DEF Busy
  <2> QED
    BY <2>1, <2>2, <2>3 DEF InHand
<1>7. AppliedBehind'
  <2> SUFFICES ASSUME NEW j \in DOMAIN applied
               PROVE  applied[j] \in 1 .. delivered /\ (todo' # <<>> => applied[j] < todo'[1])
    BY <1>1 DEF AppliedBehind, BeforeChange
  <2>1. applied[j] \in 1 .. delivered /\ applied[j] <= todo[1]
    BY <1>1 DEF IInv, AppliedBehind
  <2>2. ASSUME todo' # <<>> PROVE applied[j] < todo'[1]
    <3>1. 1 \in DOMAIN todo'
      BY <1>2, <2>2
    <3>2. todo[1] < todo'[1] /\ todo[1] \in Nat /\ todo'[1] \in Nat /\ applied[j] \in Nat
      <4>1. todo'[1] \in Nat /\ todo[1] \in Nat
        BY <1>1, <1>2, <3>1
      <4>2. todo[1] < todo'[1]
        BY <1>3, <3>1
      <4> QED
        BY <2>1, <4>1, <4>2
    <3> QED
      BY <2>1, <3>2
  <2> QED
    BY <2>1, <2>2
<1>8. ChangesInOrder'
  BY <1>1 DEF IInv, ChangesInOrder
<1>9. NothingStranded'
  <2> SUFFICES ASSUME Calm' PROVE pending' = Positions(todo')
    BY DEF NothingStranded
  <2>1. faults \in Nat /\ faults' = 0 /\ downs' = 0
    BY DEF IInv, PositionsTyped, Calm
  <2>2. faults = 0 /\ faults' = faults /\ downs = 0
    BY <1>1, <2>1
  <2>3. pending = Positions(todo)
    BY <2>2 DEF IInv, NothingStranded, Calm
  <2> QED
    BY <1>1, <1>4, <2>2, <2>3
<1>10. Head(todo) \in Positions(todo)
  BY <1>2 DEF Positions
<1> QED
  BY <1>1, <1>4, <1>5, <1>6, <1>7, <1>8, <1>9, <1>10 DEF IInv

-----------------------------------------------------------------------------
\* A start, in whatever way it ends, moves the group only if there was none.
LEMMA StartKeeps ==
  ASSUME IInv, Start
  PROVE  IInv' /\ UNCHANGED <<pending, todo>>
<1>1. /\ pc = "start" /\ pc' = "read" /\ todo = <<>>
      /\ UNCHANGED <<requests, pending, todo, applied, downs>>
      /\ faults' \in {faults, faults + 1}
      /\ delivered' \in {delivered, Len(requests)}
  BY DEF Start, CreateGroup, NoFault, Fault, failures, IInv, InHand, Busy
<1>2. delivered \in Nat /\ Len(requests) \in Nat /\ delivered <= Len(requests) /\ delivered' \in Nat
      /\ delivered <= delivered'
  BY <1>1 DEF IInv, PositionsTyped
<1>3. 1 .. delivered \subseteq 1 .. delivered'
  BY <1>2
<1>4. PositionsTyped'
  BY <1>1, <1>2, <1>3 DEF IInv, PositionsTyped
<1>5. InHand'
  BY <1>1 DEF IInv, InHand, Busy
<1>6. AppliedBehind'
  BY <1>1, <1>3 DEF IInv, AppliedBehind, BeforeChange
<1>7. ChangesInOrder' /\ NothingStranded'
  BY <1>1 DEF IInv, PositionsTyped, ChangesInOrder, NothingStranded, Calm, Positions
<1> QED
  BY <1>1, <1>4, <1>5, <1>6, <1>7 DEF IInv

\* The steps that leave the thread with nothing, or do not concern it.
LEMMA OtherKeeps ==
  ASSUME IInv, ReadNothing \/ LoopExits \/ Restart \/ Environment \/ UNCHANGED vars
  PROVE  IInv' /\ pending' = pending /\ (todo' = todo \/ todo' = <<>>)
<1> DEFINE Idle == {"start", "read", "down"}
<1>1. /\ UNCHANGED <<delivered, pending, applied>>
      /\ faults' = faults /\ downs' \in {downs, downs + 1}
      /\ \/ todo' = todo /\ pc' = pc /\ downs' = downs
         \/ todo = <<>> /\ todo' = <<>> /\ pc \in Idle /\ pc' \in Idle
         \/ todo' = <<>> /\ pc' = "down" /\ downs' = downs + 1
  BY DEF ReadNothing, LoopExits, Restart, Environment, Request, Stop, Crash, vars, failures, group,
         IInv, InHand, Busy
<1>2. requests' \in Seq(Requests) /\ Len(requests') >= Len(requests)
  <2>1. CASE \E r \in Requests : Request(r)
    BY <2>1 DEF Request, IInv, PositionsTyped
  <2>2. CASE requests' = requests
    BY <2>2 DEF IInv, PositionsTyped
  <2> QED
    BY <2>1, <2>2 DEF ReadNothing, LoopExits, Restart, Environment, Stop, Crash, vars
<1>3. PositionsTyped'
  <2>1. delivered' \in 0 .. Len(requests')
    BY <1>1, <1>2 DEF IInv, PositionsTyped
  <2>2. todo \in Seq(Nat) /\ downs \in Nat /\ pc \in Busy \cup Idle
    BY DEF IInv, PositionsTyped
  <2>3. <<>> \in Seq(Nat)
    OBVIOUS
  <2>4. todo' \in Seq(Nat)
    BY <1>1, <2>2, <2>3
  <2>5. downs' \in Nat
    BY <1>1, <2>2
  <2>6. pc' \in Busy \cup Idle
    BY <1>1, <2>2
  <2> QED
    BY <1>1, <1>2, <2>1, <2>4, <2>5, <2>6 DEF IInv, PositionsTyped
<1>4. InHand'
  BY <1>1 DEF IInv, InHand, Busy
<1>5. AppliedBehind'
  BY <1>1 DEF IInv, AppliedBehind, BeforeChange
<1>6. ChangesInOrder'
  BY <1>1 DEF IInv, ChangesInOrder
<1>7. NothingStranded'
  BY <1>1 DEF IInv, PositionsTyped, NothingStranded, Calm, Positions
<1> QED
  BY <1>1, <1>3, <1>4, <1>5, <1>6, <1>7 DEF IInv

-----------------------------------------------------------------------------
LEMMA InitHolds == Init => IInv
BY DEF Init, IInv, PositionsTyped, InHand, AppliedBehind, ChangesInOrder, NothingStranded,
       Positions, Busy, BeforeChange, Calm

\* One step keeps the invariant, and leaves what is stranded where it is.
LEMMA StepHolds ==
  ASSUME IInv, [Next]_vars
  PROVE  IInv' /\ pending \ Positions(todo) \subseteq pending' \ Positions(todo')
<1> USE DEF Positions
<1>1. CASE Start
  BY <1>1, StartKeeps
<1>2. CASE ReadCommands
  BY <1>2, ReadKeeps
<1>3. CASE Ack
  BY <1>3, AckKeeps
<1>4. CASE Handler
  <2>1. Onward /\ (applied' = applied \/ ChangeWallet)
    BY <1>4, HandlerOnward DEF IInv
  <2>2. IInv'
    BY <2>1, Onwards, ChangeKeeps
  <2> QED
    BY <2>1, <2>2 DEF Onward
<1>5. CASE ReadNothing \/ LoopExits \/ Restart \/ Environment \/ UNCHANGED vars
  BY <1>5, OtherKeeps
<1> QED
  BY <1>1, <1>2, <1>3, <1>4, <1>5 DEF Next, Consumer

\* The thread holds increasing pending positions beyond everything applied.
THEOREM Inductive == Spec => []IInv
<1>1. IInv /\ [Next]_vars => IInv'
  BY StepHolds
<1> QED
  BY InitHolds, <1>1, PTL DEF Spec

\* Wallet changes are committed in stream order, each at most once, whatever
\* fails and however often the process goes down (main.cpp:365).
THEOREM InOrder == Spec => []ChangesInOrder
<1>1. IInv => ChangesInOrder
  BY DEF IInv
<1> QED
  BY Inductive, <1>1, PTL

\* While nothing fails, what is pending is what the thread has in hand.
THEOREM CalmOwesNobody == Spec => []NothingStranded
<1>1. IInv => NothingStranded
  BY DEF IInv
<1> QED
  BY Inductive, <1>1, PTL

\* A command that is pending and in nobody's hands stays so for ever.
THEOREM StrandedStays == Spec => StrandedForever
<1>1. IInv /\ [Next]_vars => [pending \ Positions(todo) \subseteq pending' \ Positions(todo')]_vars
  BY StepHolds
<1> QED
  BY Inductive, <1>1, PTL DEF Spec, StrandedForever

-----------------------------------------------------------------------------
(* The refinement of AtMostOnce.                                           *)

\* Nothing new in hand but positions handed out by this step: Log!Hand.
LEMMA HandStep ==
  ASSUME PositionsTyped, UNCHANGED <<Len(requests), applied>>,
         delivered' \in delivered .. Len(requests),
         Positions(todo') \subseteq Positions(todo) \cup (delivered + 1 .. delivered')
  PROVE  Log!Hand
BY DEF Log!Hand, Positions

\* The positions handed out by a read follow the last one delivered.
LEMMA ReadHands ==
  ASSUME IInv, ReadCommands
  PROVE  Log!Hand
<1> DEFINE n == Len(NewPositions)
<1>1. /\ todo = <<>>
      /\ delivered \in Nat /\ Len(requests) \in Nat /\ Len(requests) > delivered
  BY DEF ReadCommands, IInv, InHand, PositionsTyped, Busy
<1>2. /\ n \in 1 .. Len(requests) - delivered
      /\ DOMAIN NewPositions = 1 .. n
      /\ \A k \in 1 .. n : NewPositions[k] = delivered + k
  BY <1>1, LimitsAssumption DEF NewPositions
<1>3. /\ delivered' = delivered + n /\ UNCHANGED <<requests, applied>>
      /\ todo' = NewPositions \/ todo' = todo
  BY DEF ReadCommands
<1>4. delivered' \in delivered .. Len(requests)
  BY <1>1, <1>2, <1>3
<1>5. ASSUME NEW x \in Positions(todo')
      PROVE  x \in delivered + 1 .. delivered'
  <2>1. PICK k \in DOMAIN todo' : x = todo'[k]
    BY <1>5 DEF Positions
  <2>2. k \in 1 .. n /\ x = delivered + k
    BY <1>1, <1>2, <1>3, <2>1
  <2> QED
    BY <1>1, <1>2, <1>3, <2>2
<1> QED
  BY <1>3, <1>4, <1>5, HandStep DEF IInv

\* The change of the wallets is the effect of the command in hand.
LEMMA ChangeActs ==
  ASSUME IInv, ChangeWallet
  PROVE  [Log!Next]_(Log!vars)
<1>1. /\ pc = "change" /\ UNCHANGED <<requests, delivered, todo>>
      /\ applied' = applied \/ applied' = Append(applied, Head(todo))
  BY DEF ChangeWallet, group
<1>2. CASE applied' = applied
  BY <1>1, <1>2 DEF Log!vars, Positions
<1>3. CASE applied' = Append(applied, Head(todo))
  <2>1. todo # <<>> /\ todo \in Seq(Nat)
    BY <1>1 DEF IInv, InHand, PositionsTyped, Busy
  <2>2. Head(todo) = todo[1] /\ Head(todo) \in Positions(todo)
    BY <2>1 DEF Positions
  <2>3. \A j \in DOMAIN applied : applied[j] < Head(todo)
    BY <1>1, <2>2 DEF IInv, AppliedBehind, BeforeChange
  <2>4. Log!Act(Head(todo))
    BY <1>1, <1>3, <2>2, <2>3 DEF Log!Act, Positions
  <2> QED
    BY <2>2, <2>4 DEF Log!Next
<1> QED
  BY <1>1, <1>2, <1>3

\* Every step of the consumer is a step of AtMostOnce, or none.
LEMMA StepRefines ==
  ASSUME IInv, IInv', [Next]_vars
  PROVE  [Log!Next]_(Log!vars)
<1>0. PositionsTyped /\ delivered \in Nat /\ Len(requests) \in Nat /\ delivered <= Len(requests)
  BY DEF IInv, PositionsTyped
<1>1. CASE Start
  <2>1. /\ UNCHANGED <<requests, applied, todo>> /\ delivered' \in {delivered, Len(requests)}
    BY <1>1 DEF Start, CreateGroup
  <2>2. Log!Hand
    BY <1>0, <2>1, HandStep DEF Positions
  <2> QED
    BY <2>2 DEF Log!Next
<1>2. CASE ReadCommands
  BY <1>2, ReadHands DEF Log!Next
<1>3. CASE Ack
  <2>1. /\ UNCHANGED <<requests, applied, delivered>> /\ todo' = Tail(todo)
        /\ todo \in Seq(Nat) /\ todo # <<>>
    BY <1>3 DEF Ack, IInv, InHand, PositionsTyped, Busy
  <2>2. Positions(todo') \subseteq Positions(todo)
    <3>1. ASSUME NEW x \in Positions(todo') PROVE x \in Positions(todo)
      <4>1. PICK k \in DOMAIN todo' : x = todo'[k]
        BY <3>1 DEF Positions
      <4>2. k + 1 \in DOMAIN todo /\ todo[k + 1] = x
        BY <2>1, <4>1
      <4> QED
        BY <4>2 DEF Positions
    <3> QED
      BY <3>1
  <2>3. Log!Hand
    BY <1>0, <2>1, <2>2, HandStep
  <2> QED
    BY <2>3 DEF Log!Next
<1>4. CASE Handler
  <2>1. CASE ChangeWallet
    BY <2>1, ChangeActs
  <2>2. CASE Onward /\ applied' = applied
    BY <2>2 DEF Onward, Log!vars, Positions
  <2> QED
    BY <1>0, <1>4, <2>1, <2>2, HandlerOnward
<1>5. CASE \E r \in Requests : Request(r)
  <2>1. UNCHANGED <<applied, delivered, todo>> /\ Len(requests') = Len(requests) + 1
    BY <1>5 DEF Request, group, IInv, PositionsTyped
  <2> QED
    BY <2>1 DEF Log!Next, Log!Publish, Positions
<1>6. CASE Crash
  <2>1. UNCHANGED <<requests, applied, delivered>> /\ Positions(todo') = {}
    BY <1>6 DEF Crash, group, Positions
  <2>2. Log!Hand
    BY <1>0, <2>1, HandStep
  <2> QED
    BY <2>2 DEF Log!Next
<1>7. CASE ReadNothing \/ LoopExits \/ Restart \/ Stop \/ UNCHANGED vars
  BY <1>7 DEF ReadNothing, LoopExits, Restart, Stop, vars, group, Log!vars, Positions
<1> QED
  BY <1>1, <1>2, <1>3, <1>4, <1>5, <1>6, <1>7 DEF Next, Consumer, Environment

\* The command consumer implements AtMostOnce, for any commands, wallets,
\* batch size and bounds: no command changes the wallets twice or out of turn.
THEOREM Refines == Spec => ActsAtMostOnce
<1>1. Init => Log!Init
  BY DEF Init, Log!Init, Positions
<1>2. IInv /\ IInv' /\ [Next]_vars => [Log!Next]_(Log!vars)
  BY StepRefines
<1> QED
  BY Inductive, <1>1, <1>2, PTL DEF Spec, ActsAtMostOnce, Log!Spec
=============================================================================
