--------------------------- MODULE AnalyticsProofs ---------------------------
(***************************************************************************)
(* Proofs about the decision loop of the analytics engine, for any script, *)
(* batch size, windows and bounds.                                         *)
(*                                                                         *)
(* That every update is decided on is not inductive: what is in hand must  *)
(* be gone before the next batch is read, and be in hand when a crash      *)
(* takes it.                                                               *)
(*                                                                         *)
(* That every alert was earned takes the sums of the score, what a         *)
(* confirmed entry says of its windows, and that a history is the tail of  *)
(* what the process took of its token, at every step and after every       *)
(* restart.  What the regime means takes that finitely many returns can be *)
(* sorted, whichever of equal ones comes first.                            *)
(***************************************************************************)
EXTENDS Analytics, FiniteSetTheorems, WellFoundedInduction, TLAPS

Typed ==
    /\ {published, delivered, asked, heard, answers, asks, faults} \subseteq Nat
    /\ heard <= asked /\ todo \subseteq Nat /\ \A c \in reads : c \in Nat /\ c <= delivered
    /\ \E S : alerts \in Seq(S)
    /\ at = "requests" => asks > 0

\* What the loop holds at each of its steps, while no call failed and no crash
\* took anything.
Tidy ==
    /\ at # "updates" => todo = {}
    /\ at # "requests" => asks = 0

Accounted(k) == Named(k) => k \in decided \cup todo \/ BehindGarbled(k)
OnRecord(s)  == \E n \in DOMAIN alerts : alerts[n].symbol = s

Calm == faults = 0 /\ ~killed
IInv ==
    /\ Typed
    /\ Calm => /\ Tidy
               /\ \A k \in 1 .. delivered : Accounted(k)
               /\ \A s \in alerted : OnRecord(s)
               /\ answers + asks = heard

-----------------------------------------------------------------------------
(* Batches.                                                                *)

Before == {p \in Nat \X Nat : p[1] < p[2]}

\* A nonempty set of numbers has a least element.
LEMMA LeastExists ==
    ASSUME NEW S, S \subseteq Nat, S # {}
    PROVE  Min(S) \in S /\ \A y \in S : Min(S) <= y
  <1>1. IsWellFoundedOn(Before, Nat)
    BY NatLessThanWellFounded DEF OpToRel, Before
  <1>2. PICK x \in S : \A y \in S : ~ (<<y, x>> \in Before)
    BY <1>1, WFMin
  <1>3. ASSUME NEW y \in S
        PROVE  x =< y
    <2>1. x \in Nat /\ y \in Nat
      OBVIOUS
    <2>2. y < x => <<y, x>> \in Before
      BY <2>1 DEF Before
    <2>. QED
      BY <1>2, <2>1, <2>2
  <1>. QED
    BY <1>3 DEF Min

\* The new positions of a read: each update is in hand, or an entry that does not
\* parse came with it and before it; and what was said of earlier ones holds
\* (redis_bus.cpp:26-38).
LEMMA BatchSplits ==
    ASSUME Typed, ReadUpdates
    PROVE  /\ delivered' \in Nat /\ delivered < delivered'
           /\ Parsed(delivered + 1 .. delivered') \subseteq Nat
           /\ \A c \in reads' : c \in Nat /\ c <= delivered'
           /\ \A k \in 1 .. delivered : BehindGarbled(k) => BehindGarbled(k)'
           /\ todo' = Parsed(delivered + 1 .. delivered') =>
                 \A k \in delivered + 1 .. delivered' : Accounted(k)'
  <1>1. /\ delivered \in Nat /\ published \in Nat /\ delivered < published
        /\ delivered' = Least(delivered + MaxRead, published)
        /\ reads' = reads \cup {delivered'} /\ scope' = scope
        /\ \A c \in reads : c \in Nat /\ c <= delivered
    BY DEF Typed, ReadUpdates, stream
  <1>2. PICK d \in Nat : d = delivered' /\ delivered < d
    <2>1. Least(delivered + MaxRead, published) \in Nat
          /\ delivered < Least(delivered + MaxRead, published)
      BY <1>1, ScopesAssumption DEF Least
    <2>. QED
      BY <1>1, <2>1
  <1>3. script' = script
    BY <1>1 DEF script
  <1>4. ASSUME NEW k \in 1 .. delivered, BehindGarbled(k)
        PROVE  BehindGarbled(k)'
    <2>1. PICK j \in 1 .. k : script[j] = Garbled /\ reads \cap (j .. k - 1) = {}
      BY <1>4 DEF BehindGarbled
    <2>2. d \notin j .. k - 1
      BY <1>1, <1>2
    <2>3. reads' \cap (j .. k - 1) = {}
      BY <1>1, <1>2, <2>1, <2>2
    <2>. QED
      BY <1>3, <2>1, <2>3 DEF BehindGarbled
  <1>5. ASSUME todo' = Parsed(delivered + 1 .. d), NEW k \in delivered + 1 .. d
        PROVE  Accounted(k)'
    <2>1. CASE k \in Parsed(delivered + 1 .. d)
      BY <1>5, <2>1 DEF Accounted
    <2>2. CASE script[k] = NoData
      <3>1. ~ Named(k)'
        BY <1>3, <2>2 DEF Named
      <3>. QED
        BY <3>1 DEF Accounted
    <2>3. ASSUME NEW j \in delivered + 1 .. d, j <= k, script[j] = Garbled
          PROVE  BehindGarbled(k)'
      <3>1. j \in 1 .. k
        BY <1>1, <1>2, <1>5, <2>3
      <3>2. ASSUME NEW c \in reads' PROVE c \notin j .. k - 1
        BY <1>1, <1>2, <1>5, <2>3, <3>2
      <3>. QED
        BY <1>3, <2>3, <3>1, <3>2 DEF BehindGarbled
    <2>. QED
      BY <2>1, <2>2, <2>3 DEF Parsed, Accounted
  <1>6. Parsed(delivered + 1 .. d) \subseteq Nat
    <2>1. delivered + 1 .. d \subseteq Nat
      BY <1>1, <1>2
    <2>. QED
      BY <2>1 DEF Parsed
  <1>7. \A c \in reads' : c \in Nat /\ c <= d
    BY <1>1, <1>2
  <1>. QED
    BY <1>2, <1>4, <1>5, <1>6, <1>7

\* Sequences of what was appended to them.
LEMMA AppendKeeps ==
    ASSUME NEW S, NEW e, alerts \in Seq(S), alerts' = Append(alerts, e)
    PROVE  /\ \E T : alerts' \in Seq(T)
           /\ \A s : OnRecord(s) => OnRecord(s)'
           /\ \A s : e.symbol = s => OnRecord(s)'
  <1>1. alerts \in Seq(S \cup {e}) /\ e \in S \cup {e}
    OBVIOUS
  <1>2. /\ alerts' \in Seq(S \cup {e}) /\ DOMAIN alerts' = 1 .. Len(alerts) + 1
        /\ Len(alerts) \in Nat /\ DOMAIN alerts = 1 .. Len(alerts)
        /\ alerts'[Len(alerts) + 1] = e
        /\ \A n \in 1 .. Len(alerts) : alerts'[n] = alerts[n]
    BY <1>1
  <1>3. Len(alerts) + 1 \in DOMAIN alerts' /\ \A n \in DOMAIN alerts : n \in DOMAIN alerts'
    BY <1>2
  <1>. QED
    BY <1>2, <1>3 DEF OnRecord

-----------------------------------------------------------------------------
(* Steps.                                                                  *)

\* A failing call ends the calm.
LEMMA FaultEndsCalm ==
    ASSUME Typed, Fault
    PROVE  faults' \in Nat /\ ~Calm'
  BY DEF Typed, Fault, Calm

\* What stays accounted for.
LEMMA AccountedStays ==
    ASSUME scope' = scope, reads' = reads, decided \subseteq decided',
           \A k \in todo : Named(k) => k \in todo' \cup decided'
    PROVE  \A k : Accounted(k) => Accounted(k)'
  BY DEF Accounted, BehindGarbled, Named, script

LEMMA ReadUpdatesKeeps ==
    ASSUME IInv, ReadUpdates
    PROVE  IInv'
  <1>. DEFINE batch == delivered + 1 .. delivered'
  <1>1. /\ at = "market" /\ at' = "updates"
        /\ UNCHANGED <<scope, published, asked, heard, alerts, answers, asks, alerted, decided,
                       killed>>
        /\ \/ NoFault /\ todo' = Parsed(batch)
           \/ Fault /\ todo' = {}
    BY DEF ReadUpdates, stream
  <1>2. /\ delivered' \in Nat /\ delivered < delivered' /\ Parsed(batch) \subseteq Nat
        /\ \A c \in reads' : c \in Nat /\ c <= delivered'
        /\ \A k \in 1 .. delivered : BehindGarbled(k) => BehindGarbled(k)'
        /\ todo' = Parsed(batch) => \A k \in batch : Accounted(k)'
    BY BatchSplits DEF IInv
  <1>3. PICK d \in Nat : d = delivered'
    BY <1>2
  <1>. HIDE DEF batch
  <1>4. faults' \in Nat /\ (Calm' => Calm /\ todo' = Parsed(batch))
    BY <1>1, FaultEndsCalm DEF IInv, Typed, NoFault, Calm
  <1>5. Typed'
    BY <1>1, <1>2, <1>4 DEF IInv, Typed
  <1>6. ASSUME Calm'
        PROVE  /\ Tidy' /\ (\A s \in alerted' : OnRecord(s)') /\ answers' + asks' = heard'
               /\ \A k \in 1 .. delivered' : Accounted(k)'
    <2>1. todo' = Parsed(batch) /\ todo = {}
      BY <1>1, <1>4, <1>6 DEF IInv, Tidy
    <2>2. ASSUME NEW k \in 1 .. delivered
          PROVE  Accounted(k)'
      <3>1. Accounted(k)
        BY <1>4, <1>6 DEF IInv
      <3>. QED
        BY <1>1, <1>2, <2>1, <3>1 DEF Accounted, Named, script
    <2>3. ASSUME NEW k \in 1 .. d
          PROVE  Accounted(k)'
      <3>1. delivered \in Nat
        BY DEF IInv, Typed
      <3>2. k \in 1 .. delivered \/ k \in delivered + 1 .. d
        BY <3>1
      <3>. QED
        BY <1>2, <1>3, <2>1, <2>2, <3>2 DEF batch
    <2>4. Tidy'
      BY <1>1, <1>4, <1>6 DEF IInv, Tidy
    <2>. QED
      BY <1>1, <1>3, <1>4, <1>6, <2>3, <2>4 DEF IInv, OnRecord
  <1>. QED
    BY <1>5, <1>6 DEF IInv

LEMMA ReadRequestsKeeps ==
    ASSUME IInv, ReadRequests
    PROVE  IInv'
  <1>1. /\ at = "updates" /\ todo = {} /\ heard' = asked
        /\ at' = IF asks' = 0 THEN "market" ELSE "requests"
        /\ UNCHANGED <<scope, published, asked, delivered, alerts, answers, todo, alerted,
                       decided, reads, killed>>
    BY DEF ReadRequests, stream
  <1>2. \/ NoFault /\ asks' = asked - heard
        \/ Fault /\ asks' = 0
    BY DEF ReadRequests
  <1>3. faults' \in Nat /\ asks' \in Nat /\ (Calm' => Calm /\ asks' = asked - heard)
    BY <1>1, <1>2, FaultEndsCalm DEF IInv, Typed, NoFault, Calm
  <1>4. Typed'
    BY <1>1, <1>3 DEF IInv, Typed
  <1>5. \A k : Accounted(k)' <=> Accounted(k)
    BY <1>1 DEF Accounted, BehindGarbled, Named, script
  <1>6. Calm' => Tidy' /\ answers' + asks' = heard'
    BY <1>1, <1>3 DEF IInv, Tidy, Typed
  <1>. QED
    BY <1>1, <1>3, <1>4, <1>5, <1>6 DEF IInv, OnRecord

\* The update in hand is decided on, whatever comes of it; and while no call
\* fails, what the throttles record is published.
LEMMA DecideKeeps ==
    ASSUME IInv, Decide
    PROVE  IInv'
  <1>1. /\ at = "updates" /\ todo # {} /\ todo' = todo \ {Min(todo)}
        /\ decided' = decided \cup {Min(todo)}
        /\ UNCHANGED <<scope, published, asked, delivered, heard, answers, at, asks, reads,
                       killed>>
    BY DEF Decide, stream
  <1>. DEFINE symbol == script[Min(todo)].symbol
  <1>2. \/ Fault /\ alerts' = alerts
        \/ NoFault /\ alerts' = alerts /\ alerted' = alerted
        \/ \E e : /\ e.symbol = symbol /\ alerts' = Append(alerts, e)
                  /\ NoFault \/ Fault
                  /\ alerted' = alerted \cup {symbol}
    <2>. DEFINE e(band) == Alert(symbol, band, Min(todo))
    <2>1. \A band : e(band).symbol = symbol
      BY DEF Alert
    <2>2. \/ Fault /\ UNCHANGED <<alerts, alerted>>
          \/ \E band :
                \/ NoFault /\ UNCHANGED <<alerts, alerted>>
                \/ /\ alerted' = alerted \cup {symbol}
                   /\ \/ NoFault /\ alerts' = Append(alerts, e(band))
                      \/ Fault /\ (alerts' = Append(alerts, e(band)) \/ UNCHANGED alerts)
      BY DEF Decide
    <2>. HIDE DEF symbol, e
    <2>. QED
      BY <2>1, <2>2
  <1>. HIDE DEF symbol
  <1>3. todo' \subseteq Nat /\ \A k \in todo : k \in todo' \cup decided'
    BY <1>1 DEF IInv, Typed
  <1>4. faults' \in Nat /\ (Calm' => Calm)
    BY <1>1, <1>2, FaultEndsCalm DEF IInv, Typed, NoFault, Calm
  <1>5. \A k : Accounted(k) => Accounted(k)'
    BY <1>1, <1>3, AccountedStays
  <1>6. PICK S : alerts \in Seq(S)
    BY DEF IInv, Typed
  <1>7. CASE Fault /\ alerts' = alerts
    <2>1. Typed'
      BY <1>1, <1>3, <1>4, <1>7 DEF IInv, Typed
    <2>. QED
      BY <1>7, <2>1, FaultEndsCalm DEF IInv
  <1>8. CASE NoFault /\ alerts' = alerts /\ alerted' = alerted
    <2>1. Typed'
      BY <1>1, <1>3, <1>4, <1>8 DEF IInv, Typed
    <2>2. \A s : OnRecord(s) => OnRecord(s)'
      BY <1>8 DEF OnRecord
    <2>3. Tidy => Tidy'
      BY <1>1 DEF Tidy
    <2>. QED
      BY <1>1, <1>4, <1>5, <1>8, <2>1, <2>2, <2>3 DEF IInv
  <1>9. ASSUME NEW e, e.symbol = symbol, alerts' = Append(alerts, e),
               alerted' = alerted \cup {symbol}
        PROVE  IInv'
    <2>1. /\ \E T : alerts' \in Seq(T)
          /\ \A s : OnRecord(s) => OnRecord(s)'
          /\ \A s : s = symbol => OnRecord(s)'
      BY <1>6, <1>9, AppendKeeps
    <2>2. Typed'
      BY <1>1, <1>3, <1>4, <2>1 DEF IInv, Typed
    <2>3. Tidy => Tidy'
      BY <1>1 DEF Tidy
    <2>4. Calm' => \A s \in alerted' : OnRecord(s)'
      BY <1>4, <1>9, <2>1 DEF IInv
    <2>5. Calm' => \A k \in 1 .. delivered' : Accounted(k)'
      BY <1>1, <1>4, <1>5 DEF IInv
    <2>. QED
      BY <1>1, <1>4, <2>2, <2>3, <2>4, <2>5 DEF IInv
  <1>. QED
    BY <1>2, <1>7, <1>8, <1>9

\* An update without a symbol is dropped, or the process dies of it.
LEMMA DropKeeps ==
    ASSUME IInv, Drop
    PROVE  IInv'
  <1>1. /\ at = "updates" /\ script[Min(todo)] = Nameless
        /\ UNCHANGED <<scope, published, asked, delivered, heard, alerts, answers, asks,
                       alerted, decided, reads, faults>>
        /\ \/ todo' = todo \ {Min(todo)} /\ at' = at /\ killed' = killed
           \/ at' = "down" /\ killed' = TRUE /\ todo' = todo
    BY DEF Drop, stream
  <1>2. Typed'
    BY <1>1 DEF IInv, Typed
  <1>3. Calm' => Calm /\ Tidy'
    BY <1>1 DEF IInv, Calm, Tidy
  <1>4. ~ Named(Min(todo))
    BY <1>1 DEF Named
  <1>5. \A k : Accounted(k) => Accounted(k)'
    BY <1>1, <1>4, AccountedStays
  <1>6. \A s : OnRecord(s)' <=> OnRecord(s)
    BY <1>1 DEF OnRecord
  <1>. QED
    BY <1>1, <1>2, <1>3, <1>5, <1>6 DEF IInv

LEMMA AnswerKeeps ==
    ASSUME IInv, Answer
    PROVE  IInv'
  <1>1. /\ at = "requests" /\ asks' = asks - 1 /\ at' = IF asks = 1 THEN "market" ELSE at
        /\ UNCHANGED <<scope, published, asked, delivered, heard, alerts, todo, alerted,
                       decided, reads, killed>>
    BY DEF Answer, stream
  <1>2. \/ NoFault /\ answers' = answers + 1
        \/ Fault /\ answers' \in {answers, answers + 1}
    BY DEF Answer
  <1>3. faults' \in Nat /\ answers' \in Nat /\ (Calm' => Calm /\ answers' = answers + 1)
    BY <1>1, <1>2, FaultEndsCalm DEF IInv, Typed, NoFault, Calm
  <1>4. Typed'
    <2>1. asks \in Nat /\ asks > 0
      BY <1>1 DEF IInv, Typed
    <2>2. asks' \in Nat /\ (at' = "requests" => asks' > 0)
      BY <1>1, <2>1
    <2>. QED
      BY <1>1, <1>3, <2>2 DEF IInv, Typed
  <1>5. \A k : Accounted(k)' <=> Accounted(k)
    BY <1>1 DEF Accounted, BehindGarbled, Named, script
  <1>6. ASSUME Calm'
        PROVE  Tidy' /\ answers' + asks' = heard'
    <2>1. Calm /\ Tidy /\ answers + asks = heard /\ answers' = answers + 1
      BY <1>3, <1>6 DEF IInv
    <2>2. todo' = {} /\ asks \in Nat /\ asks > 0 /\ answers \in Nat
      BY <1>1, <2>1 DEF IInv, Typed, Tidy
    <2>3. at' # "requests" => asks' = 0
      BY <1>1, <2>2
    <2>4. answers' + asks' = heard'
      BY <1>1, <2>1, <2>2
    <2>. QED
      BY <2>2, <2>3, <2>4 DEF Tidy
  <1>. QED
    BY <1>1, <1>3, <1>4, <1>5, <1>6 DEF IInv, OnRecord

\* Stopping and starting: a crash that takes nothing is none.
LEMMA DownKeeps ==
    ASSUME IInv, Stop \/ Crash \/ Start
    PROVE  IInv'
  <1>1. UNCHANGED <<scope, published, asked, delivered, heard, alerts, answers, decided, reads,
                    faults>>
    BY DEF Stop, Crash, Start, stream
  <1>2. CASE Start
    <2>1. /\ at = "down" /\ at' = "market" /\ todo' = {} /\ asks' = 0 /\ alerted' = {}
          /\ killed' = killed
      BY <1>2 DEF Start
    <2>2. Typed'
      BY <1>1, <2>1 DEF IInv, Typed
    <2>3. Calm' => Calm /\ Tidy' /\ todo = {} /\ asks = 0
      BY <1>1, <2>1 DEF IInv, Calm, Tidy
    <2>4. Calm' => \A k : Accounted(k)' <=> Accounted(k)
      BY <1>1, <2>1, <2>3 DEF Accounted, BehindGarbled, Named, script
    <2>. QED
      BY <1>1, <2>1, <2>2, <2>3, <2>4 DEF IInv
  <1>3. CASE Stop \/ Crash
    <2>1. /\ todo' = todo /\ asks' = asks /\ alerted' = alerted /\ at' = "down"
          /\ \/ at = "market" /\ killed' = killed
             \/ killed' = (killed \/ todo # {} \/ asks > 0)
      BY <1>3 DEF Stop, Crash
    <2>2. Typed'
      BY <1>1, <2>1 DEF IInv, Typed
    <2>3. Calm' => Calm /\ Tidy'
      <3>1. CASE at = "market" /\ killed' = killed
        BY <1>1, <2>1, <3>1 DEF IInv, Calm, Tidy
      <3>2. CASE killed' = (killed \/ todo # {} \/ asks > 0)
        <4>1. Calm' => Calm /\ todo = {} /\ ~ (asks > 0)
          BY <1>1, <3>2, Zenon DEF Calm
        <4>. QED
          BY <2>1, <4>1 DEF IInv, Typed, Tidy
      <3>. QED
        BY <2>1, <3>1, <3>2
    <2>4. \A k : Accounted(k)' <=> Accounted(k)
      BY <1>1, <2>1 DEF Accounted, BehindGarbled, Named, script
    <2>5. \A s : OnRecord(s)' <=> OnRecord(s)
      BY <1>1 DEF OnRecord
    <2>. QED
      BY <1>1, <2>1, <2>2, <2>3, <2>4, <2>5 DEF IInv
  <1>. QED
    BY <1>2, <1>3

\* Steps that touch neither what was handed out nor what is in hand.
LEMMA OthersKeep ==
    ASSUME IInv, ReadNothing \/ Publish \/ Ask \/ UNCHANGED vars
    PROVE  IInv'
  <1>1. /\ UNCHANGED <<scope, delivered, heard, alerts, answers, todo, asks, alerted, decided,
                       reads, killed, faults>>
        /\ published' \in {published, published + 1} /\ asked' \in {asked, asked + 1}
        /\ at' = at \/ (at = "market" /\ at' = "updates")
    BY DEF ReadNothing, Publish, Ask, vars, stream
  <1>2. Typed'
    BY <1>1 DEF IInv, Typed
  <1>3. Calm' => Calm /\ Tidy'
    BY <1>1 DEF IInv, Calm, Tidy
  <1>4. \A k : Accounted(k)' <=> Accounted(k)
    BY <1>1 DEF Accounted, BehindGarbled, Named, script
  <1>5. \A s : OnRecord(s)' <=> OnRecord(s)
    BY <1>1 DEF OnRecord
  <1>. QED
    BY <1>1, <1>2, <1>3, <1>4, <1>5 DEF IInv

LEMMA IInvInit == Init => IInv
  <1>1. Init => Typed
    <2>1. Init => alerts \in Seq({})
      BY DEF Init
    <2>. QED
      BY <2>1 DEF Init, Typed
  <1>. QED
    BY <1>1 DEF Init, IInv, Tidy

\* Every update of a token that is handed out to the loop is decided on, unless a
\* call fails, the process dies with it in hand, or an entry of its batch before
\* it does not parse; what the throttles hold against a token was published; and every
\* request is answered (main.cpp:101-212, redis_bus.cpp:18-42).
THEOREM DecidedAll == Spec => []UpdatesDecided
  <1>1. ASSUME IInv, [Next]_vars
        PROVE  IInv'
    BY <1>1, ReadUpdatesKeeps, ReadRequestsKeeps, DecideKeeps, DropKeeps, AnswerKeeps,
       DownKeeps, OthersKeep DEF Next
  <1>2. IInv => UpdatesDecided
    BY DEF IInv, Calm, UpdatesDecided, Accounted, OnRecord
  <1>. QED
    BY <1>1, <1>2, IInvInit, PTL DEF Spec

-----------------------------------------------------------------------------
(* What the weights, penalties and thresholds mean together, for every     *)
(* history of a token: sums of ten signals that no test tries              *)
(* exhaustively.                                                           *)

\* A range of numbers.
Within(x, low, high) == x \in Int /\ low <= x /\ x <= high

AreData(updates) == \A u \in updates : IsData(u)
IsChange(c) == c.by \in Int /\ c.of \in Nat /\ c.of > 0

\* S1 and S2 are one of three values (signals.cpp:25-44).
LEMMA FloorValues ==
    ASSUME NEW md, IsData(md)
    PROVE  /\ ComputeS1(md.liq) \in {0, 5000, 10000}
           /\ ComputeS2(md.vol) \in {0, 5000, 10000}
           /\ md.liq < 25000 => ComputeS1(md.liq) = 0
           /\ md.vol < 50000 => ComputeS2(md.vol) = 0
  BY DEF Within, IsData, ComputeS1, ComputeS2, Points

\* The momentum signal stays between 0.1 and 1 without a clamp
\* (signals.cpp:65-90).
LEMMA MomentumRange ==
    ASSUME NEW a, IsChange(a), NEW b, IsChange(b)
    PROVE  Within(ComputeS4(a, b), 1000, 10000)
  <1>. DEFINE P(c, low, mid, high) ==
             Points(Between(c, low, mid), 2500) + Points(Over(c, mid) > 0, 1000)
             - Points(Over(c, 0) < 0, 2000)
  <1>1. ASSUME NEW c, IsChange(c)
        PROVE  /\ Within(P(c, 1, 12, 0), -2000, 2500)
               /\ Within(P(c, 2, 60, 0), -2000, 2500)
    <2>1. c.by \in Int /\ c.of \in Nat /\ c.of > 0
      BY <1>1 DEF IsChange
    <2>2. /\ Over(c, 0) \in Int /\ Over(c, 12) \in Int /\ Over(c, 60) \in Int
          /\ Over(c, 12) <= Over(c, 0) /\ Over(c, 60) <= Over(c, 0)
      BY <2>1 DEF Within, Over
    <2>. QED
      BY <2>2 DEF Within, Between, Points
  <1>2. Within(P(a, 1, 12, 0), -2000, 2500) /\ Within(P(b, 2, 60, 0), -2000, 2500)
    BY <1>1
  <1>3. ComputeS4(a, b) = 5000 + P(a, 1, 12, 0) + P(b, 2, 60, 0)
    <2>1. /\ Points(Between(a, 1, 12), 2500) \in Int /\ Points(Over(a, 12) > 0, 1000) \in Int
          /\ Points(Over(a, 0) < 0, 2000) \in Int
          /\ Points(Between(b, 2, 60), 2500) \in Int /\ Points(Over(b, 60) > 0, 1000) \in Int
          /\ Points(Over(b, 0) < 0, 2000) \in Int
      BY DEF Within, Points
    <2>. QED
      BY <2>1 DEF Within, ComputeS4
  <1>. QED
    BY <1>2, <1>3 DEF Within

\* Execution and route are between 0 and 1, and 0 outside the gates
\* (signals.cpp:162-173, 201-213).
LEMMA ExecutionRange ==
    ASSUME NEW md, IsData(md)
    PROVE  /\ Within(ComputeS8(md.spread, md.impact), 0, 10000)
           /\ md.spread > 250 \/ md.impact > 150 => ComputeS8(md.spread, md.impact) = 0
           /\ Within(ComputeS10(md.ok, md.hops, md.dev), 0, 10000)
  <1>1. /\ md.spread \in Nat /\ md.impact \in Nat
        /\ md.hops \in Nat /\ md.dev \in Nat
    BY DEF Within, IsData
  <1>2. /\ Within(ComputeS8(md.spread, md.impact), 0, 10000)
        /\ md.spread > 250 \/ md.impact > 150 => ComputeS8(md.spread, md.impact) = 0
    BY <1>1 DEF Within, ComputeS8, Points, Most, One
  <1>3. Within(ComputeS10(md.ok, md.hops, md.dev), 0, 10000)
    BY <1>1 DEF Within, ComputeS10, Least, Most, One
  <1>. QED
    BY <1>2, <1>3

\* The rug signal tells three ages apart, and never falls below its cap's bound
\* of 0.3 (signals.cpp:151-160, scoring.cpp:39).
LEMMA RugValues ==
    ASSUME NEW md, IsData(md)
    PROVE  /\ ComputeS7(md.age) \in {3000, 6000, 9000}
           /\ md.age < 24 <=> ComputeS7(md.age) = 3000
           /\ md.age < 72 <=> ComputeS7(md.age) # 9000
  BY DEF Within, IsData, ComputeS7, Points

-----------------------------------------------------------------------------
(* The sum.                                                                *)

\* The values of S5, S6 and S9 (signals.cpp:95-149, 180-199), and of N1.
Historic == {3000, 4000, 5000, 6000, 7000, 9000}
Listed   == {9000, One}

\* All that the theorems need to know of the signals s of md.
Facts(md, s) ==
    /\ s.S1 \in {0, 5000, 10000} /\ s.S2 \in {0, 5000, 10000}
    /\ md.liq < 25000 => s.S1 = 0
    /\ md.vol < 50000 => s.S2 = 0
    /\ s.S3 = 6500 /\ Within(s.S4, 1000, 10000)
    /\ s.S5 \in Historic /\ s.S6 \in Historic /\ s.S9 \in Historic
    /\ s.S7 \in {3000, 6000, 9000} /\ (md.age < 24 => s.S7 = 3000)
    /\ Within(s.S8, 0, 10000) /\ (md.spread > 250 \/ md.impact > 150 => s.S8 = 0)
    /\ Within(s.S10, 0, 10000) /\ s.N1 \in Listed

\* The changes of the hour and the day are quotients (state.cpp:64-96).
LEMMA ChangeFacts ==
    ASSUME NEW U, AreData(U), NEW h \in Seq(U), h # <<>>
    PROVE  IsData(Last(h)) /\ IsChange(M1h(h)) /\ IsChange(M24h(h))
  <1>1. /\ Len(h) \in Nat /\ Len(h) > 0
        /\ \A k \in 1 .. Len(h) : h[k] \in U
    OBVIOUS
  <1>2. \A k \in 1 .. Len(h) : IsData(h[k])
    BY <1>1 DEF AreData
  <1>3. IsData(h[1]) /\ IsData(h[Len(h)])
    BY <1>1, <1>2
  <1>4. Last(h) = h[Len(h)] /\ Head(h) = h[1]
    BY DEF Last
  <1>5. Price(h) \in Nat /\ Head(h).price \in Nat
    BY <1>3, <1>4 DEF Price, IsData
  <1>6. ASSUME NEW old \in Nat, NEW new \in Nat
        PROVE  IsChange(Change(old, new))
    BY DEF Change, IsChange
  <1>7. ASSUME ~(Len(h) < Hour)
        PROVE  h[Len(h) - Hour + 1].price \in Nat
    <2>1. Len(h) - Hour + 1 \in 1 .. Len(h)
      BY <1>1, <1>7, WindowAssumption
    <2>. QED
      BY <1>2, <2>1 DEF IsData
  <1>8. IsChange(M1h(h))
    BY <1>5, <1>6, <1>7 DEF M1h
  <1>9. IsChange(M24h(h))
    BY <1>5, <1>6 DEF M24h
  <1>. QED
    BY <1>3, <1>4, <1>8, <1>9

\* The signals that compute_signals makes of a history have these facts.
LEMMA SignalFacts ==
    ASSUME NEW U, AreData(U), NEW h \in Seq(U), h # <<>>, NEW symbol
    PROVE  /\ IsData(Last(h))
           /\ Facts(Last(h), ComputeSignals(symbol, h))
           /\ ComputeSignals(symbol, h).N1 = One => symbol \in KnownTokens
  <1>. DEFINE md == Last(h)
              s  == ComputeSignals(symbol, h)
  <1>1. IsData(md) /\ IsChange(M1h(h)) /\ IsChange(M24h(h))
    BY ChangeFacts
  <1>2. /\ s.S1 = ComputeS1(md.liq) /\ s.S2 = ComputeS2(md.vol) /\ s.S3 = ComputeS3(100)
        /\ s.S4 = ComputeS4(M1h(h), M24h(h)) /\ s.S5 = ComputeS5(h) /\ s.S6 = ComputeS6(h)
        /\ s.S7 = ComputeS7(md.age) /\ s.S8 = ComputeS8(md.spread, md.impact)
        /\ s.S9 = ComputeS9(h) /\ s.S10 = ComputeS10(md.ok, md.hops, md.dev)
        /\ s.N1 = ComputeN1(symbol)
    BY DEF ComputeSignals
  <1>. HIDE DEF md, s
  <1>3. s.S3 = 6500
    BY <1>2 DEF ComputeS3, Points, Least, One
  <1>4. s.S5 \in Historic /\ s.S6 \in Historic /\ s.S9 \in Historic
    <2>1. ComputeS5(h) \in {3000, 5000, 6000, 9000}
      BY DEF ComputeS5
    <2>2. ComputeS6(h) \in {3000, 5000, 7000, 9000}
      BY DEF ComputeS6
    <2>3. ComputeS9(h) \in {4000, 5000, 6000, 9000}
      BY DEF ComputeS9
    <2>. QED
      BY <1>2, <2>1, <2>2, <2>3 DEF Historic
  <1>5. s.N1 \in Listed /\ (s.N1 = One => symbol \in KnownTokens)
    BY <1>2 DEF ComputeN1, Listed, One
  <1>6. Within(s.S4, 1000, 10000)
    BY <1>1, <1>2, MomentumRange
  <1>. QED
    BY <1>1, <1>2, <1>3, <1>4, <1>5, <1>6, FloorValues, ExecutionRange, RugValues DEF Facts, md, s

\* Penalties are whole points, 10 of them for a token on no list and 15 for one
\* of less than a day (scoring.cpp:47-51, 77-105).
LEMMA PenaltyFacts ==
    ASSUME NEW md, IsData(md), NEW s, Facts(md, s)
    PROVE  /\ Within(Penalties(md, s), 0, 38)
           /\ s.N1 # One => Penalties(md, s) >= 10
           /\ md.age < 24 => Penalties(md, s) >= 15
  <1>1. /\ md.age \in Nat /\ md.spread \in Nat /\ md.impact \in Nat
        /\ s.N1 = 9000 \/ s.N1 = 10000
    BY DEF Within, IsData, Listed, One, Facts
  <1>2. /\ Points(md.age < 24, 15) + Points(md.age >= 24 /\ md.age < 48, 5) \in {0, 5, 15}
        /\ Points(md.spread > 150, 5) \in {0, 5} /\ Points(md.impact > 100, 5) \in {0, 5}
        /\ Points(s.S9 < 5000, 3) \in {0, 3} /\ Points(s.N1 < One, 10) \in {0, 10}
        /\ s.N1 # One => Points(s.N1 < One, 10) = 10
        /\ md.age < 24 =>
              Points(md.age < 24, 15) + Points(md.age >= 24 /\ md.age < 48, 5) = 15
    BY <1>1, SMT DEF Within, Points, One
  <1>. QED
    BY <1>2, SMT DEF Within, Penalties

\* The sum is at most 93.7 points, at most 86.5 for a token of less than a day,
\* and less than 85 without one of the gated signals.
LEMMA RawBounds ==
    ASSUME NEW md, IsData(md), NEW s, Facts(md, s)
    PROVE  /\ Within(Raw(s), 0, 937000)
           /\ md.age < 24 => Raw(s) <= 865000
           /\ s.S1 = 0 \/ s.S2 = 0 \/ s.S8 = 0 => Raw(s) < 850000
  <1>1. /\ Within(12 * s.S7, 36000, 108000) /\ (md.age < 24 => 12 * s.S7 = 36000)
        /\ Within(15 * s.S1, 0, 150000) /\ (s.S1 = 0 => 15 * s.S1 = 0)
        /\ Within(12 * s.S2, 0, 120000) /\ (s.S2 = 0 => 12 * s.S2 = 0)
        /\ Within(10 * s.S8, 0, 100000) /\ (s.S8 = 0 => 10 * s.S8 = 0)
    BY SMT DEF Within, Facts
  <1>2. /\ 8 * s.S3 = 52000 /\ Within(18 * s.S4, 18000, 180000)
        /\ Within(10 * s.S5, 30000, 90000) /\ Within(8 * s.S6, 24000, 72000)
        /\ Within(5 * s.S9, 15000, 45000) /\ Within(2 * s.S10, 0, 20000)
    BY SMT DEF Within, Facts, Historic
  <1>. QED
    BY <1>1, <1>2, SMT DEF Within, Raw

\* The cap on rug risk never binds: the confidence is the sum less the penalties.
LEMMA ConfidenceIs ==
    ASSUME NEW md, IsData(md), NEW s, Facts(md, s)
    PROVE  Confidence(md, s) = Most(0, Raw(s) - 10000 * Penalties(md, s))
  <1>1. ~RugCap(s)
    BY SMT DEF Within, RugCap, Facts
  <1>2. 10000 * Penalties(md, s) = One * Penalties(md, s)
    BY DEF Within, One
  <1>. QED
    BY <1>1, <1>2 DEF Within, Confidence

\* The confidence is between 0 and 93.7 points: the top of the scale is out of
\* reach (scoring.cpp:12-60).
THEOREM ConfidenceInRange ==
    ASSUME NEW U, AreData(U), NEW h \in Seq(U), h # <<>>, NEW symbol
    PROVE  Within(Confidence(Last(h), ComputeSignals(symbol, h)), 0, 937000)
  <1>. DEFINE md == Last(h)
              s  == ComputeSignals(symbol, h)
  <1>1. IsData(md) /\ Facts(md, s)
    BY SignalFacts
  <1>. HIDE DEF md, s
  <1>2. Within(Penalties(md, s), 0, 38)
    BY <1>1, PenaltyFacts
  <1>3. Within(Raw(s), 0, 937000)
    BY <1>1, RawBounds, SMT
  <1>4. Confidence(md, s) = Most(0, Raw(s) - 10000 * Penalties(md, s))
    BY <1>1, ConfidenceIs, SMT
  <1>5. Within(Confidence(md, s), 0, 937000)
    BY <1>2, <1>3, <1>4, SMT DEF Within, Most
  <1>. QED
    BY <1>5 DEF md, s

\* A confidence of 85 points takes a listed token of a day at least, within the
\* gates of execution cost and above the lowest floors of liquidity and volume:
\* no other signal makes up for one of these.  It does not take the documented
\* gates of 150k, 500k and a route (README.md:15-19): see HardGates
\* (scoring.cpp:12-60).
THEOREM ConvictionNeedsFloors ==
    ASSUME NEW U, AreData(U), NEW h \in Seq(U), h # <<>>, NEW symbol,
           Confidence(Last(h), ComputeSignals(symbol, h)) >= 85 * One
    PROVE  /\ symbol \in KnownTokens /\ Last(h).age >= 24
           /\ Last(h).spread <= 250 /\ Last(h).impact <= 150
           /\ Last(h).liq >= 25000 /\ Last(h).vol >= 50000
  <1>. DEFINE md == Last(h)
              s  == ComputeSignals(symbol, h)
  <1>1. IsData(md) /\ Facts(md, s) /\ (s.N1 = One => symbol \in KnownTokens)
    BY SignalFacts
  <1>2. Confidence(md, s) >= 850000
    BY SMT DEF One
  <1>. HIDE DEF md, s
  <1>3. /\ Within(Penalties(md, s), 0, 38)
        /\ s.N1 # One => Penalties(md, s) >= 10
        /\ md.age < 24 => Penalties(md, s) >= 15
    BY <1>1, PenaltyFacts
  <1>4. /\ Within(Raw(s), 0, 937000)
        /\ s.S1 = 0 \/ s.S2 = 0 \/ s.S8 = 0 => Raw(s) < 850000
    BY <1>1, RawBounds, SMT
  <1>5. Confidence(md, s) = Most(0, Raw(s) - 10000 * Penalties(md, s))
    BY <1>1, ConfidenceIs, SMT
  <1>6. Raw(s) >= 850000 + 10000 * Penalties(md, s)
    BY <1>2, <1>3, <1>4, <1>5, SMT DEF Within, Most
  <1>7. s.N1 = One /\ ~(md.age < 24)
    BY <1>3, <1>4, <1>6, SMT DEF Within
  <1>8. s.S8 # 0 /\ s.S1 # 0 /\ s.S2 # 0
    BY <1>3, <1>4, <1>6, SMT DEF Within
  <1>9. /\ md.age >= 24 /\ md.spread <= 250 /\ md.impact <= 150
        /\ md.liq >= 25000 /\ md.vol >= 50000
    <2>1. /\ md.liq \in Nat /\ md.vol \in Nat /\ md.age \in Nat
          /\ md.spread \in Nat /\ md.impact \in Nat
      BY <1>1 DEF IsData
    <2>2. /\ ~(md.liq < 25000) /\ ~(md.vol < 50000)
          /\ ~(md.spread > 250) /\ ~(md.impact > 150)
      BY <1>1, <1>8 DEF Facts
    <2>. QED
      BY <1>7, <2>1, <2>2, SMT
  <1>. QED
    BY <1>1, <1>7, <1>9 DEF md, s

\* A token of less than a day stays at 71.5 points: it is never an alert to act
\* while the threshold is raised to 80 (scoring.cpp:81-83, regime.cpp:25-29).
THEOREM YoungStaysLow ==
    ASSUME NEW U, AreData(U), NEW h \in Seq(U), h # <<>>, NEW symbol,
           Last(h).age < 24
    PROVE  Confidence(Last(h), ComputeSignals(symbol, h)) <= 715000
  <1>. DEFINE md == Last(h)
              s  == ComputeSignals(symbol, h)
  <1>1. IsData(md) /\ Facts(md, s) /\ md.age < 24
    BY SignalFacts
  <1>. HIDE DEF md, s
  <1>2. Within(Penalties(md, s), 15, 38)
    BY <1>1, PenaltyFacts DEF Within
  <1>3. Within(Raw(s), 0, 865000)
    BY <1>1, RawBounds, SMT DEF Within
  <1>4. Confidence(md, s) = Most(0, Raw(s) - 10000 * Penalties(md, s))
    BY <1>1, ConfidenceIs, SMT
  <1>5. Confidence(md, s) <= 715000
    BY <1>2, <1>3, <1>4, SMT DEF Within, Most
  <1>. QED
    BY <1>5 DEF md, s

-----------------------------------------------------------------------------
(* Bands and size.                                                         *)

\* The bands in the order of their weight.
Rank(band) ==
    IF band = "none" THEN 0 ELSE IF band = "heads_up" THEN 1
    ELSE IF band = "actionable" THEN 2 ELSE 3

\* More confidence never lowers the band, and an update that is forced to
\* heads-up or not confirmed never leads to an alert to act (main.cpp:150-162).
THEOREM BandMonotone ==
    ASSUME NEW c \in Nat, NEW d \in Nat, c <= d, NEW threshold \in Int,
           NEW forced \in BOOLEAN, NEW confirmed \in BOOLEAN, NEW risky \in BOOLEAN
    PROVE  /\ Rank(Band(c, forced, confirmed, risky, threshold))
                <= Rank(Band(d, forced, confirmed, risky, threshold))
           /\ forced \/ ~confirmed =>
                Rank(Band(d, forced, confirmed, risky, threshold)) <= 1
  BY SMT DEF Band, Rank, One

\* The suggested size is at most 15.6 % of the wallet, so that the cap of 30 %
\* never binds, and at most 1.04 % of the liquidity (entry_exit.cpp:144-159).
THEOREM SizeWithinCaps ==
    ASSUME NEW wallet \in Nat, NEW liq \in Nat, NEW positive \in 0 .. 3
    PROVE  /\ Sizing(wallet, liq, positive) <= 1560000 * wallet
           /\ Sizing(wallet, liq, positive) <= 1040 * liq
           /\ Sizing(wallet, liq, positive) >= 0
  <1>. DEFINE base == Least(12000 * wallet, 8 * liq)
              adjusted == 100 + SizeAdjustment(positive)
  <1>1. base \in Nat /\ base <= 12000 * wallet /\ base <= 8 * liq
    BY SMT DEF Least
  <1>2. adjusted \in {70, 100, 130}
    BY SMT DEF SizeAdjustment
  <1>3. adjusted * base \in Nat /\ adjusted * base <= 130 * base
    BY <1>1, <1>2, SMT
  <1>4. adjusted * base <= 1560000 * wallet /\ adjusted * base <= 1040 * liq
    BY <1>1, <1>3, SMT
  <1>5. Sizing(wallet, liq, positive) = adjusted * base
    BY <1>3, <1>4, SMT DEF Sizing, Least
  <1>. QED
    BY <1>3, <1>4, <1>5, SMT

-----------------------------------------------------------------------------
(* What a history must have seen for an alert to act.                      *)

\* Numbers up to a bound have a largest element.
LEMMA LargestExists ==
    ASSUME NEW S, S \subseteq Nat, S # {}, NEW b \in Nat, \A x \in S : x <= b
    PROVE  Max(S) \in S /\ \A x \in S : x <= Max(S)
  <1>. DEFINE T == {b - x : x \in S}
  <1>1. T \subseteq Nat /\ T # {}
    <2>1. ASSUME NEW x \in S PROVE b - x \in Nat
      <3>1. x \in Nat /\ x <= b
        OBVIOUS
      <3>. QED
        BY <3>1
    <2>. QED
      BY <2>1
  <1>2. PICK y \in T : \A z \in T : y <= z
    BY <1>1, LeastExists
  <1>3. PICK m \in S : y = b - m
    BY <1>2
  <1>4. \A x \in S : m >= x
    <2>1. ASSUME NEW x \in S PROVE m >= x
      <3>1. b - m <= b - x /\ m \in Nat /\ x \in Nat
        BY <1>2, <1>3
      <3>. QED
        BY <3>1
    <2>. QED
      BY <2>1
  <1>5. Max(S) \in S /\ \A x \in S : Max(S) >= x
    BY <1>4 DEF Max
  <1>. QED
    BY <1>5

\* The prices of a history are bounded.
LEMMA PricesBounded ==
    ASSUME NEW U, AreData(U), NEW h \in Seq(U)
    PROVE  /\ Len(h) \in Nat /\ \A i \in 1 .. Len(h) : h[i].price \in Nat /\ IsData(h[i])
           /\ \E b \in Nat : \A i \in 1 .. Len(h) : h[i].price <= b
  <1>1. Len(h) \in Nat /\ \A i \in 1 .. Len(h) : h[i] \in U
    OBVIOUS
  <1>2. \A i \in 1 .. Len(h) : h[i].price \in Nat /\ IsData(h[i])
    BY <1>1 DEF AreData, IsData
  <1>. DEFINE Bad == {n \in 0 .. Len(h) : ~ \E b \in Nat : \A i \in 1 .. n : h[i].price <= b}
  <1>3. Bad = {}
    <2>1. SUFFICES ASSUME Bad # {} PROVE FALSE
      OBVIOUS
    <2>2. Bad \subseteq Nat
      BY <1>1
    <2>3. PICK n \in Bad : \A m \in Bad : n <= m
      BY <2>1, <2>2, LeastExists
    <2>4. n # 0
      <3>1. \A i \in 1 .. 0 : h[i].price <= 0
        OBVIOUS
      <3>. QED
        BY <2>3, <3>1
    <2>10. n \in 1 .. Len(h)
      BY <1>1, <2>4
    <2>. HIDE DEF Bad
    <2>5. n - 1 \in 0 .. Len(h) /\ n - 1 \notin Bad
      <3>1. n - 1 \in 0 .. Len(h) /\ ~ (n <= n - 1)
        BY <1>1, <2>10
      <3>. QED
        BY <2>3, <3>1
    <2>6. PICK b \in Nat : \A i \in 1 .. n - 1 : h[i].price <= b
      BY <2>5 DEF Bad
    <2>. DEFINE c == IF h[n].price <= b THEN b ELSE h[n].price
    <2>7. c \in Nat /\ b <= c /\ h[n].price <= c
      <3>1. h[n].price \in Nat
        BY <1>2, <2>10
      <3>. QED
        BY <2>6, <3>1
    <2>. HIDE DEF c
    <2>8. \A i \in 1 .. n : h[i].price <= c
      <3>1. ASSUME NEW i \in 1 .. n PROVE h[i].price <= c
        <4>1. CASE i = n
          BY <2>7, <4>1
        <4>2. CASE i # n
          <5>1. i \in 1 .. n - 1 /\ i \in 1 .. Len(h)
            BY <1>1, <2>10, <4>2
          <5>2. h[i].price \in Nat /\ h[i].price <= b
            BY <1>2, <2>6, <5>1
          <5>. DEFINE p == h[i].price
          <5>3. p \in Nat /\ p <= b /\ b \in Nat /\ c \in Nat /\ b <= c
            BY <2>6, <2>7, <5>2
          <5>. HIDE DEF p
          <5>4. p <= c
            BY <5>3
          <5>. QED
            BY <5>4 DEF p
        <4>. QED
          BY <4>1, <4>2
      <3>. QED
        BY <3>1
    <2>9. n \notin Bad
      BY <2>7, <2>8 DEF Bad
    <2>. QED
      BY <2>3, <2>9
  <1>4. \A n \in 0 .. Len(h) : \E b \in Nat : \A i \in 1 .. n : h[i].price <= b
    BY <1>3
  <1>. HIDE DEF Bad
  <1>5. \E b \in Nat : \A i \in 1 .. Len(h) : h[i].price <= b
    <2>1. Len(h) \in 0 .. Len(h)
      BY <1>1
    <2>. QED
      BY <1>4, <2>1
  <1>. QED
    BY <1>1, <1>2, <1>5

\* The lowest and the highest price of a window are prices of the window, or
\* what they start from.
LEMMA LowFound ==
    ASSUME NEW U, AreData(U), NEW h \in Seq(U), h # <<>>, NEW from \in Nat, NEW to \in Nat
    PROVE  /\ LowOf(h, from, to) \in Nat
           /\ \E j \in 1 .. Len(h) : (j = Len(h) \/ j \in Window(h, from, to))
                                      /\ LowOf(h, from, to) = h[j].price
  <1>1. Len(h) \in Nat /\ Len(h) > 0 /\ \A i \in 1 .. Len(h) : h[i].price \in Nat
    BY PricesBounded
  <1>2. Window(h, from, to) \subseteq 1 .. Len(h)
    BY <1>1 DEF Window
  <1>3. Price(h) = h[Len(h)].price /\ Len(h) \in 1 .. Len(h)
    BY <1>1 DEF Price, Last
  <1>. DEFINE S == {Price(h)} \cup Prices(h, from, to)
  <1>4. S \subseteq Nat /\ S # {}
    BY <1>1, <1>2, <1>3 DEF Prices
  <1>5. Min(S) \in S
    BY <1>4, LeastExists
  <1>. QED
    BY <1>1, <1>2, <1>3, <1>4, <1>5 DEF LowOf, Prices

LEMMA HighFound ==
    ASSUME NEW U, AreData(U), NEW h \in Seq(U), NEW from \in Nat, NEW to \in Nat
    PROVE  /\ HighOf(h, from, to) \in Nat
           /\ HighOf(h, from, to) > 0 =>
                 \E i \in Window(h, from, to) : i \in 1 .. Len(h) /\ HighOf(h, from, to) = h[i].price
  <1>1. Len(h) \in Nat /\ \A i \in 1 .. Len(h) : h[i].price \in Nat
    BY PricesBounded
  <1>2. Window(h, from, to) \subseteq 1 .. Len(h)
    BY <1>1 DEF Window
  <1>. DEFINE S == {0} \cup Prices(h, from, to)
  <1>3. S \subseteq Nat /\ S # {}
    BY <1>1, <1>2 DEF Prices
  <1>4. PICK b \in Nat : \A i \in 1 .. Len(h) : h[i].price <= b
    BY PricesBounded
  <1>5. \A x \in S : x <= b
    BY <1>2, <1>4 DEF Prices
  <1>6. Max(S) \in S
    BY <1>3, <1>4, <1>5, LargestExists
  <1>7. HighOf(h, from, to) = Max(S)
    BY DEF HighOf
  <1>. QED
    BY <1>2, <1>3, <1>6, <1>7 DEF Prices

\* Twice a cost of 30 basis points at least, of the price.
LEMMA CostOfPrice ==
    ASSUME NEW c \in Nat, c >= 30, NEW p \in Nat
    PROVE  2 * c * p >= 60 * p
  <1>1. PICK d \in Nat : c = 30 + d
    <2>1. c - 30 \in Nat /\ c = 30 + (c - 30)
      OBVIOUS
    <2>. QED
      BY <2>1
  <1>2. d * p \in Nat
    OBVIOUS
  <1>3. 2 * c * p = 60 * p + 2 * (d * p)
    BY <1>1
  <1>. QED
    BY <1>2, <1>3

\* An upside that pays for twice the cost: a price of the history is at least
\* 0.6 % above the latest (entry_exit.cpp:100-135).
LEMMA EdgeIsBelow ==
    ASSUME NEW U, AreData(U), NEW h \in Seq(U), h # <<>>, CheckNetEdge(h)
    PROVE  \E i \in 1 .. Len(h) : 1000 * h[i].price >= 1006 * Price(h)
  <1>. DEFINE S == {u.price : u \in Range(h)}
              cost == Last(h).spread + Last(h).impact + 30
  <1>1. Len(h) \in Nat /\ Len(h) > 0
        /\ \A i \in 1 .. Len(h) : h[i].price \in Nat /\ IsData(h[i])
    BY PricesBounded
  <1>2. Last(h) = h[Len(h)] /\ IsData(Last(h)) /\ Price(h) \in Nat
    BY <1>1 DEF Last, Price
  <1>3. cost \in Nat /\ cost >= 30
    <2>1. Last(h).spread \in Nat /\ Last(h).impact \in Nat
      BY <1>2 DEF IsData
    <2>. QED
      BY <2>1
  <1>4. \A x \in S : \E i \in 1 .. Len(h) : x = h[i].price
    BY DEF Range
  <1>5. PICK b \in Nat : \A i \in 1 .. Len(h) : h[i].price <= b
    BY PricesBounded
  <1>6. S \subseteq Nat /\ \A x \in S : x <= b
    BY <1>1, <1>4, <1>5
  <1>7. S # {}
    <2>1. h[1] \in Range(h)
      BY <1>1 DEF Range
    <2>. QED
      BY <2>1
  <1>8. Max(S) \in S /\ Max(S) \in Nat
    BY <1>5, <1>6, <1>7, LargestExists
  <1>9. 10000 * (Max(S) - Price(h)) >= 2 * cost * Price(h)
    BY DEF CheckNetEdge
  <1>. HIDE DEF cost
  <1>10. 2 * cost * Price(h) >= 60 * Price(h)
    BY <1>2, <1>3, CostOfPrice
  <1>11. 2 * cost * Price(h) \in Nat
    BY <1>2, <1>3
  <1>12. 1000 * Max(S) >= 1006 * Price(h)
    <2>. DEFINE x == 2 * cost * Price(h)
                m == Max(S)
                p == Price(h)
    <2>1. x \in Nat /\ m \in Nat /\ p \in Nat /\ 10000 * (m - p) >= x /\ x >= 60 * p
      BY <1>2, <1>8, <1>9, <1>10, <1>11
    <2>. HIDE DEF x, m, p
    <2>2. 1000 * m >= 1006 * p
      BY <2>1
    <2>. QED
      BY <2>2 DEF m, p
  <1>13. PICK i \in 1 .. Len(h) : Max(S) = h[i].price
    BY <1>4, <1>8
  <1>. HIDE DEF S
  <1>. QED
    BY <1>12, <1>13

\* A confirmed entry after a rise of more than 12 % in an hour: the price has
\* fallen by 2 % within the windows (entry_exit.cpp:5-98).
LEMMA SpikeFell ==
    ASSUME NEW U, AreData(U), NEW h \in Seq(U), h # <<>>, CheckEntryConfirmation(h),
           Len(h) >= Hour, h[Len(h) - Hour + 1].price > 0,
           100 * Price(h) > 112 * h[Len(h) - Hour + 1].price
    PROVE  \E i, j \in 1 .. Len(h) :
               /\ Len(h) - Most(RetestFrom, PullbackFrom) + 1 <= i /\ i < j
               /\ 100 * h[j].price <= 98 * h[i].price
  <1>1. Len(h) \in Nat /\ Len(h) > 0 /\ \A i \in 1 .. Len(h) : h[i].price \in Nat
    BY PricesBounded
  <1>2. /\ Hour \in Nat /\ Hour > 0 /\ RetestFrom \in Nat /\ RetestTo \in Nat /\ RetestTo > 0
        /\ PullbackFrom \in Nat /\ PullbackTo \in Nat /\ PullbackTo > 0
        /\ RetestFrom > RetestTo /\ PullbackFrom > PullbackTo
    BY WindowAssumption
  <1>3. Len(h) - Hour + 1 \in 1 .. Len(h) /\ Len(h) \in 1 .. Len(h)
    BY <1>1, <1>2
  <1>4. Price(h) = h[Len(h)].price /\ Price(h) \in Nat
    BY <1>1, <1>3 DEF Price, Last
  <1>5. CheckRetestHold(h) \/ CheckQuickPullback(h)
    <2>. DEFINE old == h[Len(h) - Hour + 1].price
    <2>1. old \in Nat /\ old > 0 /\ Price(h) > 0
      BY <1>1, <1>3, <1>4
    <2>. HIDE DEF old
    <2>2. M1h(h) = Change(old, Price(h))
      BY <1>1, <1>2 DEF M1h, old
    <2>3. M1h(h).by = Price(h) - old /\ M1h(h).of = old
      BY <1>4, <2>1, <2>2 DEF Change
    <2>4. 100 * Price(h) > 112 * old
      BY DEF old
    <2>5. Over(M1h(h), 12) > 0 /\ Over(M1h(h), 12) \in Int
      BY <1>4, <2>1, <2>3, <2>4 DEF Over
    <2>. QED
      BY <2>5 DEF CheckEntryConfirmation
  \* The low of the last 'to' updates comes after the high before them.
  <1>6. ASSUME NEW from \in Nat, NEW to \in Nat, to > 0, from > to, Len(h) >= from,
               from <= Most(RetestFrom, PullbackFrom),
               HighOf(h, from, to) > 0,
               100 * LowOf(h, to, 0) <= 98 * HighOf(h, from, to)
        PROVE  \E i, j \in 1 .. Len(h) :
                   /\ Len(h) - Most(RetestFrom, PullbackFrom) + 1 <= i /\ i < j
                   /\ 100 * h[j].price <= 98 * h[i].price
    <2>1. PICK i \in Window(h, from, to) : i \in 1 .. Len(h) /\ HighOf(h, from, to) = h[i].price
      BY <1>6, HighFound
    <2>2. PICK j \in 1 .. Len(h) : (j = Len(h) \/ j \in Window(h, to, 0))
                                    /\ LowOf(h, to, 0) = h[j].price
      BY <1>6, LowFound
    <2>3. i \in Len(h) - from + 1 .. Len(h) - to
      BY <1>1, <1>6, <2>1 DEF Window
    <2>4. j = Len(h) \/ j \in Len(h) - to + 1 .. Len(h)
      BY <1>1, <1>6, <2>2 DEF Window
    <2>5. i < j
      BY <1>1, <1>6, <2>3, <2>4
    <2>6. Most(RetestFrom, PullbackFrom) \in Nat
      BY <1>2 DEF Most
    <2>7. Len(h) - Most(RetestFrom, PullbackFrom) + 1 <= i
      BY <1>1, <1>6, <2>3, <2>6
    <2>. QED
      BY <1>6, <2>1, <2>2, <2>5, <2>7
  <1>7. RetestFrom <= Most(RetestFrom, PullbackFrom) /\ PullbackFrom <= Most(RetestFrom, PullbackFrom)
    BY <1>2 DEF Most
  <1>8. CASE CheckRetestHold(h)
    <2>. DEFINE high == HighOf(h, RetestFrom, RetestTo)
                low  == LowOf(h, RetestTo, 0)
    <2>1. high \in Nat /\ low \in Nat
      BY <1>2, HighFound, LowFound
    <2>2. Len(h) >= RetestFrom /\ 100 * low < 98 * high
      BY <1>8 DEF CheckRetestHold
    <2>. HIDE DEF high, low
    <2>3. high > 0 /\ 100 * low <= 98 * high
      BY <2>1, <2>2
    <2>. QED
      BY <1>2, <1>6, <1>7, <2>2, <2>3 DEF high, low
  <1>9. CASE CheckQuickPullback(h)
    <2>. DEFINE high == HighOf(h, PullbackFrom, PullbackTo)
                low  == LowOf(h, PullbackTo, 0)
    <2>1. high \in Nat /\ low \in Nat
      BY <1>2, HighFound, LowFound
    <2>2. Len(h) >= PullbackFrom /\ high > 0 /\ 2 * high <= 100 * (high - low)
      BY <1>9 DEF CheckQuickPullback
    <2>. HIDE DEF high, low
    <2>3. 100 * low <= 98 * high
      BY <2>1, <2>2
    <2>. QED
      BY <1>2, <1>6, <1>7, <2>2, <2>3 DEF high, low
  <1>. QED
    BY <1>5, <1>8, <1>9

-----------------------------------------------------------------------------
(* What the memory holds, and what it says of an alert.                    *)

\* The updates of tokens.
Entries == Range(script) \ {Garbled, NoData, Nameless}

\* A history is the tail of what was taken, a day of it at most.
Recalls(h, t) ==
    /\ Len(h) = Least(Day, Len(t))
    /\ \A i \in 1 .. Len(h) : h[i] = script[t[Len(t) - Len(h) + i]]

Earned(a) ==
    /\ Positive(a) => BelowTheHigh(a) /\ SpikeConfirmed(a)
    /\ ConvictionFloors(a)

LEMMA ScopeFacts ==
    ASSUME scope \in Scopes
    PROVE  /\ Len(script) \in Nat /\ AreData(Entries)
           /\ \A k \in 1 .. Len(script) : Named(k) =>
                 script[k] \in Entries /\ script[k].symbol \in Symbols
           /\ scope.asks \in Nat /\ scope.faults \in Nat /\ scope.downs \in Nat
  <1>1. /\ {scope.asks, scope.faults, scope.downs} \subseteq Nat
        /\ script \in Seq(Range(script))
        /\ \A u \in Range(script) \ {Garbled, NoData, Nameless} :
              u.symbol \in Symbols /\ IsData(u)
    BY ScopesAssumption DEF script
  <1>2. /\ Len(script) \in Nat
        /\ \A k \in 1 .. Len(script) : script[k] \in Range(script)
    BY <1>1
  <1>. HIDE DEF script
  <1>3. AreData(Entries)
    BY <1>1 DEF AreData, Entries
  <1>4. \A k \in 1 .. Len(script) : Named(k) =>
                 script[k] \in Entries /\ script[k].symbol \in Symbols
    BY <1>1, <1>2 DEF Entries, Named
  <1>. QED
    BY <1>1, <1>2, <1>3, <1>4

\* Taking in an update: the oldest one makes room (state.cpp:5-13).
LEMMA UpdateRecalls ==
    ASSUME NEW U, NEW h \in Seq(U), NEW t \in Seq(Nat), NEW u \in U, NEW k \in Nat,
           u = script[k], Recalls(h, t)
    PROVE  /\ Update(h, u) \in Seq(U) /\ Append(t, k) \in Seq(Nat)
           /\ Update(h, u) # <<>> /\ Recalls(Update(h, u), Append(t, k))
  <1>. DEFINE v == Append(t, k)
              g == Update(h, u)
  <1>1. Day \in Nat /\ Day > 0
    BY WindowAssumption
  <1>2. /\ Len(h) \in Nat /\ Len(t) \in Nat /\ Len(h) <= Len(t) /\ Len(h) <= Day
        /\ Len(h) < Day => Len(h) = Len(t)
    BY <1>1 DEF Recalls, Least
  <1>3. /\ v \in Seq(Nat) /\ Len(v) = Len(t) + 1 /\ v[Len(t) + 1] = k
        /\ \A i \in 1 .. Len(t) : v[i] = t[i]
    OBVIOUS
  <1>. HIDE DEF v
  <1>4. CASE Len(h) < Day
    <2>1. /\ g \in Seq(U) /\ Len(g) = Len(h) + 1 /\ g[Len(h) + 1] = u
          /\ \A i \in 1 .. Len(h) : g[i] = h[i]
      BY <1>4 DEF Update
    <2>. HIDE DEF g
    <2>2. Len(g) = Len(v) /\ Len(g) = Least(Day, Len(v)) /\ Len(h) = Len(t)
      BY <1>1, <1>2, <1>3, <1>4, <2>1 DEF Least
    <2>3. ASSUME NEW i \in 1 .. Len(g)
          PROVE  g[i] = script[v[Len(v) - Len(g) + i]]
      <3>1. Len(v) - Len(g) + i = i
        BY <1>2, <1>3, <2>1, <2>2
      <3>2. CASE i = Len(h) + 1
        BY <1>3, <2>1, <2>2, <3>1, <3>2
      <3>3. CASE i # Len(h) + 1
        <4>1. i \in 1 .. Len(h) /\ i \in 1 .. Len(t)
          BY <1>2, <2>1, <2>2, <3>3
        <4>2. Len(t) - Len(h) + i = i
          BY <1>2, <2>2, <4>1
        <4>. QED
          <5>1. h[i] = script[t[i]]
            BY <4>1, <4>2, Zenon DEF Recalls
          <5>2. g[i] = h[i] /\ v[i] = t[i]
            BY <1>3, <2>1, <4>1
          <5>. QED
            BY <3>1, <5>1, <5>2, Zenon
      <3>. QED
        BY <3>2, <3>3
    <2>4. g # <<>>
      BY <1>2, <2>1
    <2>. QED
      BY <1>3, <2>1, <2>2, <2>3, <2>4 DEF Recalls, v, g
  <1>5. CASE ~ (Len(h) < Day)
    <2>1. Len(h) = Day /\ h # <<>>
      BY <1>1, <1>2, <1>5
    <2>2. /\ Tail(h) \in Seq(U) /\ Len(Tail(h)) = Len(h) - 1
          /\ \A i \in 1 .. Len(h) - 1 : Tail(h)[i] = h[i + 1]
      BY <2>1
    <2>. DEFINE f == Tail(h)
    <2>. HIDE DEF f
    <2>3. Len(f) + 1 = Len(h) /\ f \in Seq(U)
      BY <1>2, <2>2 DEF f
    <2>4. /\ g \in Seq(U) /\ Len(g) = Len(h) /\ g[Len(h)] = u
          /\ \A i \in 1 .. Len(h) - 1 : g[i] = h[i + 1]
      <3>1. g = Append(f, u)
        BY <1>5 DEF Update, f
      <3>2. /\ g \in Seq(U) /\ Len(g) = Len(f) + 1 /\ g[Len(f) + 1] = u
            /\ \A i \in 1 .. Len(f) : g[i] = f[i]
        BY <2>3, <3>1
      <3>3. Len(f) = Len(h) - 1
        BY <2>2 DEF f
      <3>4. \A i \in 1 .. Len(h) - 1 : g[i] = h[i + 1]
        BY <2>2, <3>2, <3>3 DEF f
      <3>. QED
        BY <2>3, <3>2, <3>4
    <2>. HIDE DEF g
    <2>5. Len(g) = Least(Day, Len(v))
      BY <1>1, <1>2, <1>3, <2>1, <2>4 DEF Least
    <2>6. ASSUME NEW i \in 1 .. Len(g)
          PROVE  g[i] = script[v[Len(v) - Len(g) + i]]
      <3>1. CASE i = Len(h)
        <4>1. Len(v) - Len(g) + i = Len(t) + 1
          BY <1>2, <1>3, <2>4, <3>1
        <4>. QED
          BY <1>3, <2>4, <3>1, <4>1
      <3>2. CASE i # Len(h)
        <4>1. i \in 1 .. Len(h) - 1 /\ i + 1 \in 1 .. Len(h)
          BY <1>2, <2>4, <3>2
        <4>2. Len(v) - Len(g) + i = Len(t) - Len(h) + (i + 1)
              /\ Len(t) - Len(h) + (i + 1) \in 1 .. Len(t)
          <5>1. \A x, y \in Nat : x <= y /\ i + 1 <= x =>
                   (y + 1) - x + i = y - x + (i + 1) /\ y - x + (i + 1) \in 1 .. y
            BY <4>1
          <5>2. i + 1 <= Len(h) /\ Len(v) = Len(t) + 1 /\ Len(g) = Len(h)
            BY <1>3, <2>4, <4>1
          <5>. QED
            BY <1>2, <5>1, <5>2, Zenon
        <4>3. h[i + 1] = script[t[Len(t) - Len(h) + (i + 1)]]
          BY <4>1 DEF Recalls
        <4>. QED
          BY <1>3, <2>4, <4>1, <4>2, <4>3
      <3>. QED
        BY <3>1, <3>2
    <2>7. g # <<>>
      BY <1>1, <2>1, <2>4
    <2>. QED
      BY <1>3, <2>4, <2>5, <2>6, <2>7 DEF Recalls, v, g
  <1>. QED
    BY <1>4, <1>5

\* A band above heads-up takes a confirmed entry, and the highest one 85 points.
LEMMA BandNeeds ==
    ASSUME NEW v, NEW band \in BandsOf(v), v.confidence \in Int
    PROVE  /\ band \in {"actionable", "high_conviction"} => v.confirmed
           /\ band = "high_conviction" => v.confidence >= 85 * One
  <1>1. PICK c \in {v.confidence, Most(0, v.confidence - 1)} :
            band = Band(c, v.forced, v.confirmed, v.risky, v.threshold)
    BY DEF BandsOf
  <1>2. band \in {"actionable", "high_conviction"} => v.confirmed
    BY <1>1, Zenon DEF Band
  <1>3. band = "high_conviction" => c >= 85 * One
    BY <1>1, Zenon DEF Band
  <1>4. c >= 85 * One => v.confidence >= 85 * One
    BY <1>1, SMT DEF Most, One
  <1>. QED
    BY <1>2, <1>3, <1>4

\* An alert is earned by the history that its verdict is made of
\* (main.cpp:120-162).
LEMMA AlertIsEarned ==
    ASSUME scope \in Scopes, NEW symbol, NEW h \in Seq(Entries), h # <<>>,
           NEW t \in Seq(Nat), Recalls(h, t), NEW remembered, remembered[symbol] = h,
           NEW band \in BandsOf(Verdict(symbol, remembered)),
           NEW a, a.symbol = symbol, a.band = band, a.seen = t, script[a.at] = Last(h)
    PROVE  Earned(a)
  <1>. DEFINE v == Verdict(symbol, remembered)
              m == Len(h)
              last == Len(t)
              back == last - Most(RetestFrom, PullbackFrom) + 1
  <1>1. AreData(Entries)
    BY ScopeFacts
  <1>2. /\ v.confidence = Confidence(Last(h), ComputeSignals(symbol, h))
        /\ v.confirmed = (CheckEntryConfirmation(h) /\ CheckNetEdge(h))
    BY DEF Verdict
  <1>3. v.confidence \in Int
    BY <1>1, <1>2, ConfidenceInRange DEF Within
  <1>. HIDE DEF v
  <1>4. /\ Positive(a) => CheckEntryConfirmation(h) /\ CheckNetEdge(h)
        /\ a.band = "high_conviction" =>
              Confidence(Last(h), ComputeSignals(symbol, h)) >= 85 * One
    <2>1. band \in BandsOf(v)
      BY DEF v
    <2>2. /\ band \in {"actionable", "high_conviction"} => v.confirmed
          /\ band = "high_conviction" => v.confidence >= 85 * One
      BY <1>3, <2>1, BandNeeds
    <2>. QED
      BY <1>2, <2>2, Zenon DEF Positive
  <1>5. ConvictionFloors(a)
    BY <1>1, <1>4, ConvictionNeedsFloors DEF ConvictionFloors
  <1>6. /\ m \in Nat /\ m > 0 /\ last \in Nat /\ m <= last /\ m <= Day /\ Day \in Nat
        /\ last >= Hour => m >= Hour
        /\ Hour \in Nat /\ Hour > 0
        /\ \A i \in 1 .. m : h[i] = script[t[last - m + i]]
    BY WindowAssumption DEF Recalls, Least
  <1>7. Last(h) = h[m]
    BY DEF Last
  <1>. HIDE DEF m, last
  \* The prices of the history are the last ones seen.
  <1>8. \A i \in 1 .. m : h[i].price = PriceSeen(a, last - m + i)
    BY <1>6 DEF PriceSeen
  <1>9. Price(h) = PriceSeen(a, last)
    <2>1. last - m + m = last /\ m \in 1 .. m
      BY <1>6
    <2>. QED
      BY <1>7, <1>8, <2>1 DEF Price
  <1>10. ASSUME Positive(a) PROVE BelowTheHigh(a)
    <2>1. PICK i \in 1 .. m : 1000 * h[i].price >= 1006 * Price(h)
      BY <1>1, <1>4, <1>10, EdgeIsBelow DEF m
    <2>2. last - m + i \in last - Day + 1 .. last /\ last - m + i >= 1
      BY <1>6, <2>1
    <2>3. 1000 * PriceSeen(a, last - m + i) >= 1006 * PriceSeen(a, last)
      BY <1>8, <1>9, <2>1
    <2>. QED
      BY <2>2, <2>3 DEF BelowTheHigh, last
  <1>11. ASSUME Positive(a) PROVE SpikeConfirmed(a)
    <2>1. SUFFICES ASSUME last >= Hour, PriceSeen(a, last - Hour + 1) > 0,
                          100 * PriceSeen(a, last) > 112 * PriceSeen(a, last - Hour + 1)
                   PROVE  \E i, j \in 1 .. last :
                              back <= i /\ i < j
                              /\ 100 * PriceSeen(a, j) <= 98 * PriceSeen(a, i)
      BY DEF SpikeConfirmed, last
    <2>2. h[m - Hour + 1].price = PriceSeen(a, last - Hour + 1)
      <3>1. m - Hour + 1 \in 1 .. m /\ last - m + (m - Hour + 1) = last - Hour + 1
        BY <1>6, <2>1
      <3>. QED
        BY <1>8, <3>1
    <2>3. PICK i, j \in 1 .. m :
               /\ m - Most(RetestFrom, PullbackFrom) + 1 <= i /\ i < j
               /\ 100 * h[j].price <= 98 * h[i].price
      <3>1. /\ CheckEntryConfirmation(h) /\ m >= Hour /\ h[m - Hour + 1].price > 0
            /\ 100 * Price(h) > 112 * h[m - Hour + 1].price
        BY <1>4, <1>6, <1>9, <1>11, <2>1, <2>2
      <3>. QED
        BY <1>1, <3>1, SpikeFell DEF m
    <2>4. Most(RetestFrom, PullbackFrom) \in Nat
      BY WindowAssumption DEF Most
    <2>5. /\ last - m + i \in 1 .. last /\ last - m + j \in 1 .. last
          /\ back <= last - m + i /\ last - m + i < last - m + j
      <3>. DEFINE most == Most(RetestFrom, PullbackFrom)
      <3>1. /\ m \in Nat /\ last \in Nat /\ most \in Nat /\ m <= last
            /\ i \in Int /\ j \in Int /\ 1 <= i /\ i <= m /\ j <= m
            /\ m - most + 1 <= i /\ i < j
        BY <1>6, <2>3, <2>4
      <3>2. back = last - most + 1
        OBVIOUS
      <3>. HIDE DEF most, back
      <3>. QED
        BY <3>1, <3>2
    <2>6. 100 * PriceSeen(a, last - m + j) <= 98 * PriceSeen(a, last - m + i)
      BY <1>8, <2>3
    <2>. QED
      BY <2>5, <2>6
  <1>. QED
    BY <1>5, <1>10, <1>11 DEF Earned

-----------------------------------------------------------------------------
(* The types of the loop.                                                  *)

Sound(k) == k \in 1 .. delivered /\ script[k] \notin {Garbled, NoData}

Counted ==
    /\ scope \in Scopes
    /\ published \in 0 .. Len(script) /\ delivered \in 0 .. published
    /\ asked \in 0 .. scope.asks /\ heard \in 0 .. asked
    /\ answers \in Nat /\ asks \in Nat /\ answers + asks <= heard
    /\ at \in {"market", "updates", "requests", "down"}
    /\ at = "requests" => asks > 0
    /\ faults \in 0 .. scope.faults /\ downs \in 0 .. scope.downs

Kept ==
    /\ todo \subseteq Nat /\ (\A k \in todo : Sound(k)) /\ reads \subseteq 1 .. delivered
    /\ memory \in [Symbols -> Seq(Entries)] /\ taken \in [Symbols -> Seq(Nat)]
    /\ \A s \in Symbols : Recalls(memory[s], taken[s]) /\ Positions(taken[s]) \subseteq decided
    /\ decided \subseteq 1 .. delivered /\ alerted \subseteq Symbols

Sent ==
    /\ \E S : alerts \in Seq(S)
    /\ \A n \in DOMAIN alerts : Earned(alerts[n])

EInv == Counted /\ Kept /\ Sent

\* The last update of a history is the one taken last.
LEMMA LatestIsTaken ==
    ASSUME NEW U, NEW h \in Seq(U), NEW t \in Seq(Nat), Recalls(h, t), t # <<>>
    PROVE  h # <<>> /\ Last(h) = script[Last(t)]
  <1>1. Len(t) \in Nat /\ Len(t) > 0 /\ Len(h) \in Nat /\ Day \in Nat /\ Day > 0
    BY WindowAssumption
  <1>2. Len(h) > 0
    BY <1>1 DEF Recalls, Least
  <1>3. Len(h) \in 1 .. Len(h) /\ Len(t) - Len(h) + Len(h) = Len(t)
    BY <1>1, <1>2
  <1>4. h[Len(h)] = script[t[Len(t)]]
    BY <1>3 DEF Recalls
  <1>. QED
    BY <1>1, <1>2, <1>4 DEF Last

\* Nothing is remembered of nothing.
LEMMA EmptyRecalls ==
    /\ NoMemory \in [Symbols -> Seq(Entries)] /\ NoMemory \in [Symbols -> Seq(Nat)]
    /\ \A s \in Symbols : Recalls(NoMemory[s], NoMemory[s]) /\ Positions(NoMemory[s]) = {}
  <1>1. \A U : <<>> \in Seq(U)
    OBVIOUS
  <1>2. \A s \in Symbols : NoMemory[s] = <<>>
    BY DEF NoMemory
  <1>3. Recalls(<<>>, <<>>)
    <2>1. Len(<<>>) = 0 /\ Least(Day, 0) = 0
      BY WindowAssumption DEF Least
    <2>2. \A i \in 1 .. 0 : FALSE
      OBVIOUS
    <2>. QED
      BY <2>1, <2>2 DEF Recalls
  <1>4. Positions(<<>>) = {}
    BY DEF Positions
  <1>. QED
    BY <1>1, <1>2, <1>3, <1>4 DEF NoMemory

LEMMA EInvInit == Init => EInv
  <1>. SUFFICES ASSUME Init PROVE EInv
    OBVIOUS
  <1>1. /\ Len(script) \in Nat /\ scope.asks \in Nat /\ scope.faults \in Nat
        /\ scope.downs \in Nat
    BY ScopeFacts DEF Init
  <1>2. Counted
    BY <1>1 DEF Init, Counted
  <1>3. Kept
    BY EmptyRecalls, Zenon DEF Init, Kept
  <1>4. Sent
    <2>1. alerts = <<>> /\ <<>> \in Seq({}) /\ DOMAIN <<>> = {}
      BY DEF Init
    <2>. QED
      BY <2>1, Zenon DEF Sent
  <1>. QED
    BY <1>2, <1>3, <1>4 DEF EInv

\* What was earned stays earned: the script does not change.
LEMMA EarnedStays ==
    ASSUME scope' = scope, alerts' = alerts, Sent
    PROVE  Sent'
  BY DEF Sent, Earned, Positive, BelowTheHigh, SpikeConfirmed, ConvictionFloors, PriceSeen,
         script

LEMMA KeptStays ==
    ASSUME scope' = scope, Kept, delivered \in Nat, delivered' \in Nat, delivered <= delivered',
           UNCHANGED <<memory, alerted, taken, decided>>,
           todo' \subseteq Nat, \A k \in todo' : Sound(k)', reads' \subseteq 1 .. delivered'
    PROVE  Kept'
  <1>1. decided' \subseteq 1 .. delivered'
    BY DEF Kept
  <1>2. /\ memory' \in [Symbols -> Seq(Entries')]
        /\ \A s \in Symbols : Recalls(memory[s], taken[s])'
    BY Zenon DEF Kept, Entries, script, Recalls
  <1>. QED
    BY <1>1, <1>2, Zenon DEF Kept, Positions

\* A failing call stays within its bound.
LEMMA FaultBounded ==
    ASSUME Counted, scope' = scope, NoFault \/ Fault
    PROVE  faults' \in 0 .. scope.faults
  BY ScopeFacts DEF Counted, NoFault, Fault

LEMMA ReadUpdatesSound ==
    ASSUME EInv, ReadUpdates
    PROVE  EInv'
  <1>1. /\ delivered < published /\ at = "market" /\ at' = "updates"
        /\ delivered' = Least(delivered + MaxRead, published)
        /\ reads' = reads \cup {delivered'}
        /\ \/ NoFault /\ todo' = Parsed(delivered + 1 .. delivered')
           \/ Fault /\ todo' = {}
        /\ UNCHANGED <<scope, published, asked, heard, alerts, answers, asks, memory, alerted,
                       taken, decided, downs>>
    BY DEF ReadUpdates, stream
  <1>2. /\ published \in Nat /\ delivered \in Nat /\ script' = script
    BY <1>1, ScopeFacts DEF EInv, Counted, script
  <1>3. PICK d \in Nat : d = delivered' /\ delivered < d /\ d <= published
    <2>1. /\ Least(delivered + MaxRead, published) \in Nat
          /\ delivered < Least(delivered + MaxRead, published)
          /\ Least(delivered + MaxRead, published) <= published
      BY <1>1, <1>2, ScopesAssumption DEF Least
    <2>. QED
      BY <1>1, <2>1
  <1>4. \A k \in Parsed(delivered + 1 .. d) :
           k \in delivered + 1 .. d /\ script[k] \notin {Garbled, NoData}
    <2>1. ASSUME NEW k \in delivered + 1 .. d
          PROVE  k \in Nat /\ k <= k
      BY <1>2, <1>3
    <2>. QED
      BY <2>1, Zenon DEF Parsed
  <1>5. delivered + 1 .. d \subseteq 1 .. d /\ 1 .. d \subseteq Nat /\ 1 .. delivered \subseteq 1 .. d
        /\ d \in 1 .. d
    BY <1>2, <1>3
  <1>6. Counted'
    <2>1. faults' \in 0 .. scope.faults
      BY <1>1, FaultBounded DEF EInv
    <2>2. delivered' \in 0 .. published
      BY <1>2, <1>3
    <2>. QED
      BY <1>1, <1>2, <2>1, <2>2 DEF EInv, Counted
  <1>7. Kept'
    <2>1. \A k \in todo' : k \in 1 .. d /\ script[k] \notin {Garbled, NoData}
      BY <1>1, <1>3, <1>4, <1>5, Zenon
    <2>2. todo' \subseteq Nat /\ \A k \in todo' : Sound(k)'
      BY <1>2, <1>3, <1>5, <2>1, Zenon DEF Sound
    <2>3. reads' \subseteq 1 .. delivered'
      BY <1>1, <1>3, <1>5, Zenon DEF EInv, Kept
    <2>4. delivered' \in Nat /\ delivered <= delivered'
      BY <1>2, <1>3
    <2>. QED
      BY <1>1, <1>2, <2>2, <2>3, <2>4, KeptStays DEF EInv
  <1>. QED
    BY <1>1, <1>6, <1>7, EarnedStays DEF EInv

\* The steps that leave the batch and the memory alone.
LEMMA OthersSound ==
    ASSUME EInv,
           ReadNothing \/ ReadRequests \/ Answer \/ Stop \/ Crash \/ Publish \/ Ask
             \/ UNCHANGED vars
    PROVE  EInv'
  <1>1. UNCHANGED <<scope, delivered, alerts, todo, memory, alerted, taken, decided, reads>>
    BY DEF ReadNothing, ReadRequests, Answer, Stop, Crash, Publish, Ask, vars, stream
  <1>2. /\ published \in Nat /\ delivered \in Nat /\ script' = script /\ Len(script) \in Nat
        /\ scope.asks \in Nat /\ scope.faults \in Nat /\ scope.downs \in Nat
        /\ asked \in Nat /\ heard \in Nat /\ asks \in Nat /\ answers \in Nat
    BY <1>1, ScopeFacts DEF EInv, Counted, script
  <1>6. /\ published \in 0 .. Len(script) /\ delivered <= published
        /\ asked <= scope.asks /\ heard <= asked /\ answers + asks <= heard
        /\ faults \in 0 .. scope.faults /\ downs \in 0 .. scope.downs
        /\ scope \in Scopes
    BY <1>2 DEF EInv, Counted
  <1>5. at \in {"market", "updates", "requests", "down"} /\ (at = "requests" => asks > 0)
    BY DEF EInv, Counted
  <1>3. Counted'
    <2>1. CASE ReadNothing
      BY <1>1, <1>2, <2>1 DEF ReadNothing, stream, EInv, Counted
    <2>2. CASE ReadRequests
      <3>1. /\ heard' = asked /\ at' = IF asks' = 0 THEN "market" ELSE "requests"
            /\ UNCHANGED <<published, asked, answers, downs>>
            /\ \/ NoFault /\ asks' = asked - heard
               \/ Fault /\ asks' = 0
        BY <2>2 DEF ReadRequests, stream
      <3>2. faults' \in 0 .. scope.faults
        BY <1>1, <3>1, FaultBounded DEF EInv
      <3>3. asks' \in Nat /\ answers + asks' <= asked
        BY <1>2, <3>1 DEF EInv, Counted
      <3>5. at' \in {"market", "requests"} /\ (at' = "requests" => asks' > 0)
        BY <3>1, <3>3
      <3>6. at' \in {"market", "updates", "requests", "down"}
        BY <3>5
      <3>7. /\ published' \in 0 .. Len(script') /\ delivered' \in 0 .. published'
            /\ asked' \in 0 .. scope'.asks /\ heard' \in 0 .. asked'
            /\ faults' \in 0 .. scope'.faults /\ downs' \in 0 .. scope'.downs
            /\ answers' + asks' <= heard' /\ answers' \in Nat
        <4>1. scope' = scope /\ script' = script /\ published' = published
              /\ delivered' = delivered /\ downs' = downs
          BY <1>1, <1>2, <3>1
        <4>2. delivered \in 0 .. published
          BY <1>6, <1>2
        <4>3. asked' \in 0 .. scope.asks /\ heard' \in 0 .. asked'
          BY <1>6, <1>2, <3>1
        <4>4. answers' + asks' <= heard' /\ answers' \in Nat
          BY <1>2, <3>1, <3>3
        <4>. QED
          BY <1>6, <3>2, <4>1, <4>2, <4>3, <4>4, Zenon
      <3>. QED
        BY <1>6, <1>1, <3>3, <3>5, <3>6, <3>7, Zenon DEF Counted
    <2>3. CASE Answer
      <3>1. /\ at = "requests" /\ asks' = asks - 1
            /\ at' = IF asks = 1 THEN "market" ELSE at
            /\ UNCHANGED <<published, asked, heard, downs>>
            /\ NoFault \/ Fault
            /\ answers' \in {answers, answers + 1}
        BY <2>3 DEF Answer, stream
      <3>2. faults' \in 0 .. scope.faults
        BY <1>1, <3>1, FaultBounded DEF EInv
      <3>3. asks > 0
        BY <1>5, <3>1
      <3>4. asks' \in Nat /\ answers' \in Nat /\ answers' + asks' <= heard
        <4>1. asks - 1 \in Nat /\ answers + 1 \in Nat
          BY <1>2, <3>3
        <4>2. answers + (asks - 1) <= heard /\ (answers + 1) + (asks - 1) <= heard
          BY <1>2, <1>6, <3>3
        <4>. QED
          BY <1>2, <3>1, <4>1, <4>2
      <3>5. at' \in {"market", "requests"} /\ (at' = "requests" => asks' > 0)
        BY <1>2, <3>1, <3>3
      <3>6. at' \in {"market", "updates", "requests", "down"}
        BY <3>5
      <3>7. /\ published' \in 0 .. Len(script') /\ delivered' \in 0 .. published'
            /\ asked' \in 0 .. scope'.asks /\ heard' \in 0 .. asked'
            /\ faults' \in 0 .. scope'.faults /\ downs' \in 0 .. scope'.downs
            /\ answers' + asks' <= heard'
        <4>1. scope' = scope /\ script' = script /\ published' = published
              /\ delivered' = delivered /\ downs' = downs
          BY <1>1, <1>2, <3>1
        <4>2. delivered \in 0 .. published
          BY <1>6, <1>2
        <4>3. asked' \in 0 .. scope.asks /\ heard' \in 0 .. asked'
          BY <1>6, <1>2, <3>1
        <4>4. answers' + asks' <= heard'
          BY <1>2, <3>1, <3>4
        <4>. QED
          BY <1>6, <3>2, <4>1, <4>2, <4>3, <4>4, Zenon
      <3>. QED
        BY <1>6, <1>1, <3>4, <3>5, <3>6, <3>7, Zenon DEF Counted
    <2>4. CASE Stop \/ Crash
      <3>1. /\ UNCHANGED <<published, asked, heard, answers, asks, faults>>
            /\ at' = "down" /\ downs < scope.downs /\ downs' = downs + 1
        BY <2>4 DEF Stop, Crash, stream
      <3>. QED
        BY <1>6, <1>1, <1>2, <3>1 DEF Counted
    <2>5. CASE Publish \/ Ask
      <3>1. /\ UNCHANGED <<heard, answers, asks, faults, at, downs>>
            /\ published' \in 0 .. Len(script) /\ published <= published'
            /\ asked' \in 0 .. scope.asks /\ asked <= asked'
        <4>1. CASE Publish
          <5>1. /\ UNCHANGED <<heard, answers, asks, faults, at, downs, asked>>
                /\ published < Len(script) /\ published' = published + 1
            BY <4>1 DEF Publish
          <5>. QED
            BY <1>6, <1>2, <5>1
        <4>2. CASE Ask
          <5>1. /\ UNCHANGED <<heard, answers, asks, faults, at, downs, published>>
                /\ asked < scope.asks /\ asked' = asked + 1
            BY <4>2 DEF Ask
          <5>. QED
            BY <1>6, <1>2, <5>1
        <4>. QED
          BY <2>5, <4>1, <4>2
      <3>. QED
        BY <1>6, <1>5, <1>1, <1>2, <3>1 DEF Counted
    <2>6. CASE UNCHANGED vars
      BY <1>1, <1>2, <2>6 DEF vars, stream, EInv, Counted
    <2>. QED
      BY <2>1, <2>2, <2>3, <2>4, <2>5, <2>6
  <1>4. Kept'
    <2>1. todo' \subseteq Nat /\ (\A k \in todo' : Sound(k)') /\ reads' \subseteq 1 .. delivered'
      BY <1>1, <1>2, Zenon DEF EInv, Kept, Sound
    <2>2. delivered' \in Nat /\ delivered <= delivered'
      BY <1>1, <1>2
    <2>. QED
      BY <1>1, <1>2, <2>1, <2>2, KeptStays DEF EInv
  <1>. QED
    BY <1>1, <1>3, <1>4, EarnedStays DEF EInv

LEMMA StartSound ==
    ASSUME EInv, Start
    PROVE  EInv'
  <1>1. /\ at' = "market" /\ todo' = {} /\ asks' = 0 /\ memory' = NoMemory /\ alerted' = {}
        /\ taken' = NoMemory
        /\ UNCHANGED <<scope, published, asked, delivered, heard, alerts, answers, decided,
                       reads, faults, downs>>
    BY DEF Start, stream
  <1>2. script' = script /\ Entries' = Entries
    BY <1>1 DEF script, Entries
  <1>3. Counted'
    <2>1. heard \in Nat /\ answers \in Nat /\ asks \in Nat
      BY ScopeFacts DEF EInv, Counted
    <2>2. answers + asks' <= heard
      BY <1>1, <2>1 DEF EInv, Counted
    <2>. QED
      BY <1>1, <1>2, <2>1, <2>2 DEF EInv, Counted
  <1>4. Kept'
    <2>2. \A s \in Symbols : Recalls(memory[s], taken[s])' /\ Positions(taken'[s]) = {}
      BY <1>1, <1>2, EmptyRecalls, Zenon DEF Recalls
    <2>. QED
      BY <1>1, <1>2, <2>2, EmptyRecalls DEF EInv, Kept
  <1>. QED
    BY <1>1, <1>3, <1>4, EarnedStays DEF EInv

\* The update in hand goes into the memory of its token, and what is published
\* is earned by it.
LEMMA DecideSound ==
    ASSUME EInv, Decide
    PROVE  EInv'
  <1>. DEFINE k == Min(todo)
              symbol == script[k].symbol
              h == memory'[symbol]
              t == taken'[symbol]
              Record(band) == Alert(symbol, band, k)
  <1>1. /\ todo # {} /\ todo' = todo \ {k} /\ decided' = decided \cup {k}
        /\ script[k] # Nameless
        /\ memory' = [memory EXCEPT ![symbol] = Update(@, script[k])]
        /\ taken' = [taken EXCEPT ![symbol] = Append(@, k)]
        /\ UNCHANGED <<scope, published, asked, delivered, heard, answers, at, asks, reads,
                       downs>>
    BY DEF Decide, stream
  <1>2. /\ script' = script /\ Entries' = Entries /\ scope \in Scopes
    BY <1>1 DEF EInv, Counted, script, Entries
  <1>3. todo \subseteq Nat /\ k \in Nat /\ k \in todo
    BY <1>1, LeastExists DEF EInv, Kept
  <1>. HIDE DEF k
  <1>4. k \in 1 .. delivered /\ Named(k)
    BY <1>1, <1>3 DEF EInv, Kept, Sound, Named
  <1>5. script[k] \in Entries /\ symbol \in Symbols
    <2>1. k \in 1 .. Len(script)
      BY <1>2, <1>4, ScopeFacts DEF EInv, Counted
    <2>. QED
      BY <1>2, <1>4, <2>1, ScopeFacts
  <1>. HIDE DEF symbol
  <1>6. /\ memory \in [Symbols -> Seq(Entries)] /\ taken \in [Symbols -> Seq(Nat)]
        /\ memory[symbol] \in Seq(Entries) /\ taken[symbol] \in Seq(Nat)
        /\ Recalls(memory[symbol], taken[symbol])
        /\ h = Update(memory[symbol], script[k]) /\ t = Append(taken[symbol], k)
    BY <1>1, <1>5 DEF EInv, Kept
  <1>7. h \in Seq(Entries) /\ t \in Seq(Nat) /\ h # <<>> /\ Recalls(h, t)
    BY <1>3, <1>5, <1>6, UpdateRecalls
  <1>8. Positions(t) \subseteq decided' /\ t # <<>> /\ Last(t) = k
    <2>. DEFINE o == taken[symbol]
    <2>1. o \in Seq(Nat) /\ Len(o) \in Nat /\ t = Append(o, k)
      BY <1>6
    <2>2. DOMAIN t = 1 .. Len(o) + 1 /\ Len(t) = Len(o) + 1 /\ t[Len(o) + 1] = k
          /\ \A i \in 1 .. Len(o) : t[i] = o[i]
      BY <1>3, <2>1
    <2>3. Positions(o) \subseteq decided
      BY <1>5 DEF EInv, Kept
    <2>. HIDE DEF o, t
    <2>4. ASSUME NEW i \in DOMAIN t PROVE t[i] \in decided'
      <3>1. CASE i = Len(o) + 1
        BY <1>1, <2>2, <3>1
      <3>2. CASE i # Len(o) + 1
        <4>1. i \in DOMAIN o /\ t[i] = o[i]
          BY <2>1, <2>2, <3>2
        <4>. QED
          BY <1>1, <2>3, <4>1 DEF Positions
      <3>. QED
        BY <3>1, <3>2
    <2>5. Positions(t) \subseteq decided'
      BY <2>4 DEF Positions
    <2>6. t # <<>> /\ Last(t) = k
      BY <2>1, <2>2 DEF Last
    <2>. QED
      BY <2>5, <2>6
  <1>9. Last(h) = script[k]
    BY <1>7, <1>8, LatestIsTaken
  <1>10. \/ Fault /\ UNCHANGED <<alerts, alerted>>
         \/ NoFault /\ UNCHANGED <<alerts, alerted>>
         \/ \E band \in BandsOf(Verdict(symbol, memory')) :
               /\ alerted' = alerted \cup {symbol} /\ (NoFault \/ Fault)
               /\ alerts' = Append(alerts, Record(band)) \/ alerts' = alerts
    <2>1. \/ Fault /\ UNCHANGED <<alerts, alerted>>
          \/ \E band \in BandsOf(Verdict(symbol, memory')) :
                \/ NoFault /\ UNCHANGED <<alerts, alerted>>
                \/ /\ alerted' = alerted \cup {symbol}
                   /\ \/ NoFault /\ alerts' = Append(alerts, Record(band))
                      \/ Fault /\ (alerts' = Append(alerts, Record(band)) \/ UNCHANGED alerts)
      BY DEF Decide, k, symbol
    <2>. HIDE DEF Record
    <2>. QED
      BY <2>1, Zenon
  <1>11. Counted'
    <2>1. faults' \in 0 .. scope.faults
      BY <1>1, <1>10, FaultBounded DEF EInv
    <2>. QED
      BY <1>1, <1>2, <2>1 DEF EInv, Counted
  <1>12. Kept'
    <2>1. todo' \subseteq Nat /\ (\A p \in todo' : Sound(p)') /\ reads' \subseteq 1 .. delivered'
      BY <1>1, <1>2, <1>3, Zenon DEF EInv, Kept, Sound
    <2>2. memory' \in [Symbols -> Seq(Entries)] /\ taken' \in [Symbols -> Seq(Nat)]
      BY <1>1, <1>5, <1>6, <1>7
    <2>3. ASSUME NEW s \in Symbols
          PROVE  Recalls(memory'[s], taken'[s]) /\ Positions(taken'[s]) \subseteq decided'
      <3>1. CASE s = symbol
        BY <1>7, <1>8, <3>1
      <3>2. CASE s # symbol
        <4>1. memory'[s] = memory[s] /\ taken'[s] = taken[s]
          BY <1>1, <1>6, <3>2
        <4>2. Recalls(memory[s], taken[s]) /\ Positions(taken[s]) \subseteq decided
          BY DEF EInv, Kept
        <4>3. decided \subseteq decided'
          BY <1>1
        <4>. QED
          BY <4>1, <4>2, <4>3, Zenon
      <3>. QED
        BY <3>1, <3>2
    <2>4. \A s \in Symbols : Recalls(memory[s], taken[s])'
      BY <1>2, <2>3, Zenon DEF Recalls
    <2>5. decided' \subseteq 1 .. delivered' /\ alerted' \subseteq Symbols
      BY <1>1, <1>4, <1>5, <1>10 DEF EInv, Kept
    <2>. QED
      BY <1>2, <2>1, <2>2, <2>3, <2>4, <2>5, Zenon DEF Kept
  <1>13. Sent'
    <2>1. CASE alerts' = alerts
      BY <1>1, <2>1, EarnedStays DEF EInv
    <2>2. ASSUME NEW band \in BandsOf(Verdict(symbol, memory')), NEW a,
                 a = Record(band), alerts' = Append(alerts, a)
          PROVE  Sent'
      <3>1. /\ a.symbol = symbol /\ a.band = band /\ a.seen = t /\ a.at = k
        BY <2>2 DEF Alert
      <3>2. Earned(a)
        BY <1>2, <1>7, <1>9, <3>1, AlertIsEarned
      <3>3. PICK S : alerts \in Seq(S)
        BY DEF EInv, Sent
      <3>4. /\ alerts' \in Seq(S \cup {a}) /\ DOMAIN alerts' = 1 .. Len(alerts) + 1
            /\ Len(alerts) \in Nat /\ DOMAIN alerts = 1 .. Len(alerts)
            /\ alerts'[Len(alerts) + 1] = a
            /\ \A n \in 1 .. Len(alerts) : alerts'[n] = alerts[n]
        <4>1. alerts \in Seq(S \cup {a}) /\ a \in S \cup {a}
          BY <3>3
        <4>. QED
          BY <2>2, <4>1
      <3>5. ASSUME NEW n \in DOMAIN alerts'
            PROVE  (Earned(alerts[n]))'
        <4>1. PICK b : b = alerts'[n]
          OBVIOUS
        <4>2. Earned(b)
          <5>1. CASE n = Len(alerts) + 1
            BY <3>2, <3>4, <4>1, <5>1
          <5>2. CASE n # Len(alerts) + 1
            <6>1. n \in DOMAIN alerts /\ b = alerts[n]
              BY <3>4, <4>1, <5>2
            <6>. QED
              BY <6>1 DEF EInv, Sent
          <5>. QED
            BY <5>1, <5>2
        <4>. QED
          BY <1>1, <4>1, <4>2 DEF Earned, Positive, BelowTheHigh, SpikeConfirmed,
             ConvictionFloors, PriceSeen, script
      <3>. QED
        BY <3>4, <3>5 DEF Sent
    <2>. QED
      BY <1>10, <2>1, <2>2
  <1>. QED
    BY <1>11, <1>12, <1>13 DEF EInv

\* An update without a symbol leaves the memory and the alerts alone.
LEMMA DropSound ==
    ASSUME EInv, Drop
    PROVE  EInv'
  <1>1. /\ todo' \subseteq todo /\ at' \in {at, "down"}
        /\ UNCHANGED <<scope, published, asked, delivered, heard, alerts, answers, asks, memory,
                       alerted, taken, decided, reads, faults, downs>>
    BY DEF Drop, stream
  <1>2. /\ delivered \in Nat /\ script' = script
    BY <1>1, ScopeFacts DEF EInv, Counted, script
  <1>3. Counted'
    BY <1>1, <1>2 DEF EInv, Counted
  <1>4. Kept'
    <2>1. todo' \subseteq Nat /\ (\A k \in todo' : Sound(k)') /\ reads' \subseteq 1 .. delivered'
      BY <1>1, <1>2, Zenon DEF EInv, Kept, Sound
    <2>2. delivered' \in Nat /\ delivered <= delivered'
      BY <1>1, <1>2
    <2>. QED
      BY <1>1, <1>2, <2>1, <2>2, KeptStays DEF EInv
  <1>. QED
    BY <1>1, <1>3, <1>4, EarnedStays DEF EInv

LEMMA EInvHolds == Spec => []EInv
  <1>1. ASSUME EInv, [Next]_vars
        PROVE  EInv'
    BY <1>1, ReadUpdatesSound, OthersSound, StartSound, DecideSound, DropSound DEF Next
  <1>. QED
    BY <1>1, EInvInit, PTL DEF Spec

\* The counters keep within each other and within their bounds, only updates
\* that were decided on are in the memory, and a memory is the last day of what
\* was taken of its token (main.cpp:101-212, state.cpp:5-13).
THEOREM TypeCorrect == Spec => []TypeOK
  <1>1. ASSUME EInv PROVE TypeOK
    <2>1. /\ Len(script) \in Nat /\ published \in Nat /\ delivered \in Nat /\ heard \in Nat
          /\ asked \in Nat /\ scope.asks \in Nat
      BY <1>1, ScopeFacts DEF EInv, Counted
    <2>2. answers \in 0 .. heard /\ asks \in 0 .. heard
      BY <1>1, <2>1 DEF EInv, Counted
    <2>3. ASSUME NEW s \in Symbols
          PROVE  /\ Positions(taken[s]) \subseteq decided /\ Len(memory[s]) <= Day
                 /\ taken[s] # <<>> => Last(memory[s]) = script[Last(taken[s])]
      <3>1. /\ memory[s] \in Seq(Entries) /\ taken[s] \in Seq(Nat)
            /\ Recalls(memory[s], taken[s]) /\ Positions(taken[s]) \subseteq decided
        BY <1>1 DEF EInv, Kept
      <3>2. Len(memory[s]) <= Day
        <4>1. Len(taken[s]) \in Nat /\ Day \in Nat
          BY <3>1, WindowAssumption
        <4>. QED
          BY <3>1, <4>1 DEF Recalls, Least
      <3>. QED
        BY <3>1, <3>2, LatestIsTaken
    <2>4. todo \subseteq 1 .. delivered /\ reads \subseteq 1 .. delivered
      BY <1>1 DEF EInv, Kept, Sound
    <2>. QED
      BY <1>1, <2>2, <2>3, <2>4 DEF EInv, Counted, Kept, TypeOK
  <1>. QED
    BY <1>1, EInvHolds, PTL

\* Every alert that was ever published was earned: one to act came below a
\* price of the last day and, after a spike, once the price had fallen back;
\* one of high conviction was of a listed token of a day at least, within the
\* gates of cost and above the lowest floors.  The documented gates of 150k, 500k
\* and a route are not among this: see HardGates (signals.cpp, scoring.cpp,
\* entry_exit.cpp, main.cpp:120-162).
THEOREM AlertsAreEarned == Spec => []AlertsEarned
  <1>1. EInv => AlertsEarned
    BY Zenon DEF EInv, Sent, Earned, AlertsEarned
  <1>. QED
    BY <1>1, EInvHolds, PTL

-----------------------------------------------------------------------------
(* The regime: sorting the returns, and counting below and above a place.  *)

\* Multiplying keeps an order, and a positive factor cancels.
LEMMA TimesMonotone ==
    ASSUME NEW x \in Int, NEW y \in Int, x <= y, NEW z \in Nat
    PROVE  x * z <= y * z
  <1>1. PICK d \in Nat : y = x + d
    <2>1. y - x \in Nat /\ y = x + (y - x)
      OBVIOUS
    <2>. QED
      BY <2>1
  <1>2. d * z \in Nat /\ x * z \in Int /\ y * z = x * z + d * z
    BY <1>1
  <1>. QED
    BY <1>2

LEMMA TimesCancels ==
    ASSUME NEW x \in Int, NEW y \in Int, NEW z \in Nat, z > 0, x * z <= y * z
    PROVE  x <= y
  <1>1. SUFFICES ASSUME y + 1 <= x PROVE FALSE
    OBVIOUS
  <1>2. (y + 1) * z <= x * z
    BY <1>1, TimesMonotone
  <1>3. (y + 1) * z = y * z + z /\ y * z \in Int /\ x * z \in Int
    OBVIOUS
  <1>. QED
    BY <1>2, <1>3

\* Comparing changes crosswise orders them as their quotients.
LEMMA ChangesOrdered ==
    ASSUME NEW a, IsChange(a), NEW b, IsChange(b), NEW c, IsChange(c)
    PROVE  /\ Smaller(a, b) => ~ Smaller(b, a)
           /\ ~ Smaller(b, a) /\ ~ Smaller(c, b) => ~ Smaller(c, a)
  <1>. DEFINE p == a.by
              P == a.of
              q == b.by
              Q == b.of
              r == c.by
              R == c.of
  <1>1. /\ p \in Int /\ q \in Int /\ r \in Int
        /\ P \in Nat /\ Q \in Nat /\ R \in Nat /\ P > 0 /\ Q > 0 /\ R > 0
    BY DEF IsChange
  <1>2. /\ Smaller(a, b) <=> p * Q < q * P
        /\ Smaller(b, a) <=> q * P < p * Q
        /\ Smaller(c, b) <=> r * Q < q * R
        /\ Smaller(c, a) <=> r * P < p * R
    BY DEF Smaller
  <1>. HIDE DEF p, P, q, Q, r, R
  <1>3. /\ p * Q \in Int /\ q * P \in Int /\ q * R \in Int /\ r * Q \in Int
        /\ p * R \in Int /\ r * P \in Int
    BY <1>1
  <1>4. Smaller(a, b) => ~ Smaller(b, a)
    BY <1>2, <1>3
  <1>5. ASSUME ~ Smaller(b, a), ~ Smaller(c, b)
        PROVE  ~ Smaller(c, a)
    <2>1. p * Q <= q * P /\ q * R <= r * Q
      BY <1>2, <1>3, <1>5
    <2>2. (p * Q) * R <= (q * P) * R
      BY <1>1, <1>3, <2>1, TimesMonotone
    <2>3. (q * R) * P <= (r * Q) * P
      BY <1>1, <1>3, <2>1, TimesMonotone
    <2>4. /\ (p * Q) * R = (p * R) * Q /\ (q * P) * R = (q * R) * P
          /\ (r * Q) * P = (r * P) * Q
      BY <1>1
    <2>5. (p * R) * Q \in Int /\ (q * R) * P \in Int /\ (r * P) * Q \in Int
      BY <1>1, <1>3
    <2>6. (p * R) * Q <= (r * P) * Q
      BY <2>2, <2>3, <2>4, <2>5
    <2>7. p * R <= r * P
      BY <1>1, <1>3, <2>6, TimesCancels
    <2>. QED
      BY <1>2, <1>3, <2>7
  <1>. QED
    BY <1>4, <1>5

\* Of finitely many changes one is smallest.
LEMMA SmallestExists ==
    ASSUME NEW T, IsFiniteSet(T), NEW f, \A s \in T : IsChange(f[s]), T # {}
    PROVE  \E m \in T : \A s \in T : ~ Smaller(f[s], f[m])
  <1>. DEFINE Lowest(S) == \E m \in S : \A s \in S : ~ Smaller(f[s], f[m])
              Bad == {n \in Nat : \E S \in SUBSET T : Cardinality(S) = n /\ S # {} /\ ~ Lowest(S)}
  <1>1. Bad = {}
    <2>1. SUFFICES ASSUME Bad # {} PROVE FALSE
      OBVIOUS
    <2>2. PICK n \in Bad : \A k \in Bad : n <= k
      <3>1. Bad \subseteq Nat
        OBVIOUS
      <3>. QED
        BY <2>1, <3>1, LeastExists
    <2>3. PICK S \in SUBSET T : Cardinality(S) = n /\ S # {} /\ ~ Lowest(S)
      BY <2>2
    <2>. HIDE DEF Bad
    <2>4. PICK x : x \in S
      BY <2>3
    <2>. DEFINE R == S \ {x}
    <2>5. IsFiniteSet(S) /\ n \in Nat /\ Cardinality(R) = n - 1 /\ IsFiniteSet(R)
      <3>1. IsFiniteSet(S)
        BY FS_Subset
      <3>2. Cardinality(S) \in Nat
        BY <3>1, FS_CardinalityType
      <3>. QED
        BY <2>3, <2>4, <3>1, <3>2, FS_RemoveElement
    <2>6. Lowest(R) \/ R = {}
      <3>1. SUFFICES ASSUME R # {}, ~ Lowest(R) PROVE FALSE
        OBVIOUS
      <3>2. n - 1 \in Nat
        BY <2>5, FS_CardinalityType
      <3>3. n - 1 \in Bad
        BY <2>5, <3>1, <3>2 DEF Bad
      <3>. QED
        BY <2>2, <2>5, <3>2, <3>3
    <2>7. \A s \in S : IsChange(f[s])
      OBVIOUS
    <2>8. ASSUME NEW s \in S PROVE ~ Smaller(f[s], f[s])
      BY <2>7, ChangesOrdered
    <2>9. CASE R = {}
      <3>1. \A s \in S : s = x
        BY <2>9
      <3>. QED
        BY <2>3, <2>4, <2>8, <3>1
    <2>10. CASE Lowest(R)
      <3>1. PICK m \in R : \A s \in R : ~ Smaller(f[s], f[m])
        BY <2>10
      <3>2. m \in S /\ x \in S /\ \A s \in S : s = x \/ s \in R
        BY <2>4, <3>1
      <3>3. CASE Smaller(f[x], f[m])
        <4>1. ~ Smaller(f[m], f[x])
          BY <2>7, <3>2, <3>3, ChangesOrdered
        <4>2. \A s \in R : ~ Smaller(f[s], f[x])
          BY <2>7, <3>1, <3>2, <4>1, ChangesOrdered
        <4>3. \A s \in S : ~ Smaller(f[s], f[x])
          BY <2>8, <3>2, <4>2
        <4>. QED
          BY <2>3, <3>2, <4>3
      <3>4. CASE ~ Smaller(f[x], f[m])
        BY <2>3, <3>1, <3>2, <3>4
      <3>. QED
        BY <3>3, <3>4
    <2>. QED
      BY <2>6, <2>9, <2>10
  <1>2. Cardinality(T) \in Nat /\ T \in SUBSET T
    BY FS_CardinalityType
  <1>. QED
    BY <1>1, <1>2

Sorted(f, q) == \A i, j \in DOMAIN q : i < j => ~ Smaller(f[q[j]], f[q[i]])

\* Finitely many changes can be sorted.
LEMMA OrderExists ==
    ASSUME NEW T, IsFiniteSet(T), NEW f, \A s \in T : IsChange(f[s])
    PROVE  \E q \in SetToSeqs(T) : Sorted(f, q)
  <1>. DEFINE Can(S) == \E q \in SetToSeqs(S) : Sorted(f, q)
              Bad == {n \in Nat : \E S \in SUBSET T : Cardinality(S) = n /\ ~ Can(S)}
  <1>1. Bad = {}
    <2>1. SUFFICES ASSUME Bad # {} PROVE FALSE
      OBVIOUS
    <2>2. PICK n \in Bad : \A k \in Bad : n <= k
      <3>1. Bad \subseteq Nat
        OBVIOUS
      <3>. QED
        BY <2>1, <3>1, LeastExists
    <2>3. PICK S \in SUBSET T : Cardinality(S) = n /\ ~ Can(S)
      BY <2>2
    <2>. HIDE DEF Bad
    <2>4. IsFiniteSet(S) /\ n \in Nat
      <3>1. IsFiniteSet(S)
        BY FS_Subset
      <3>. QED
        BY <2>3, <3>1, FS_CardinalityType
    <2>5. S # {}
      <3>1. SUFFICES ASSUME S = {} PROVE FALSE
        OBVIOUS
      <3>2. n = 0
        BY <2>3, <3>1, FS_EmptySet
      <3>. DEFINE q == [i \in 1 .. 0 |-> i]
      <3>3. DOMAIN q = {} /\ 1 .. 0 = {}
        OBVIOUS
      <3>4. q \in SetToSeqs(S)
        BY <2>3, <3>1, <3>2, <3>3 DEF SetToSeqs
      <3>5. Sorted(f, q)
        BY <3>3 DEF Sorted
      <3>. QED
        BY <2>3, <3>4, <3>5
    <2>6. PICK m \in S : \A s \in S : ~ Smaller(f[s], f[m])
      BY <2>4, <2>5, SmallestExists
    <2>. DEFINE R == S \ {m}
    <2>7. Cardinality(R) = n - 1 /\ n - 1 \in Nat
      <3>1. IsFiniteSet(R) /\ Cardinality(R) = n - 1
        BY <2>3, <2>4, <2>6, FS_RemoveElement
      <3>. QED
        BY <3>1, FS_CardinalityType
    <2>8. PICK q \in SetToSeqs(R) : Sorted(f, q)
      <3>1. n - 1 \notin Bad
        BY <2>2, <2>4, <2>7
      <3>. QED
        BY <2>7, <3>1 DEF Bad
    <2>9. /\ DOMAIN q = 1 .. n - 1 /\ \A i \in 1 .. n - 1 : q[i] \in R
          /\ \A i, j \in 1 .. n - 1 : i # j => q[i] # q[j]
      BY <2>7, <2>8 DEF SetToSeqs
    <2>. DEFINE g == [i \in 1 .. n |-> IF i = 1 THEN m ELSE q[i - 1]]
    <2>10. ASSUME NEW i \in 1 .. n, i # 1
           PROVE  i - 1 \in 1 .. n - 1 /\ g[i] = q[i - 1] /\ g[i] \in R
      <3>1. i - 1 \in 1 .. n - 1
        BY <2>4, <2>10
      <3>. QED
        BY <2>9, <2>10, <3>1
    <2>11. 1 \in 1 .. n => g[1] = m
      OBVIOUS
    <2>12. DOMAIN g = 1 .. n
      OBVIOUS
    <2>. HIDE DEF g
    <2>13. g \in SetToSeqs(S)
      <3>1. \A i \in 1 .. n : g[i] \in S
        BY <2>6, <2>10, <2>11
      <3>2. g = [i \in 1 .. n |-> g[i]]
        BY DEF g
      <3>3. g \in [1 .. n -> S]
        BY <3>1, <3>2
      <3>4. ASSUME NEW i \in 1 .. n, NEW j \in 1 .. n, i # j
            PROVE  g[i] # g[j]
        <4>1. CASE i = 1
          BY <2>10, <2>11, <3>4, <4>1
        <4>2. CASE j = 1
          BY <2>10, <2>11, <3>4, <4>2
        <4>3. CASE i # 1 /\ j # 1
          <5>1. i - 1 # j - 1
            BY <3>4
          <5>. QED
            BY <2>9, <2>10, <4>3, <5>1
        <4>. QED
          BY <4>1, <4>2, <4>3
      <3>. QED
        BY <2>3, <3>3, <3>4 DEF SetToSeqs
    <2>14. Sorted(f, g)
      <3>1. ASSUME NEW i \in 1 .. n, NEW j \in 1 .. n, i < j
            PROVE  ~ Smaller(f[g[j]], f[g[i]])
        <4>1. j # 1 /\ g[j] \in S /\ g[j] = q[j - 1] /\ j - 1 \in 1 .. n - 1
          BY <2>10, <3>1
        <4>2. CASE i = 1
          BY <2>6, <2>11, <4>1, <4>2
        <4>3. CASE i # 1
          <5>1. i - 1 < j - 1 /\ i - 1 \in 1 .. n - 1 /\ g[i] = q[i - 1]
            BY <2>10, <3>1, <4>3
          <5>. QED
            BY <2>8, <2>9, <4>1, <5>1 DEF Sorted
        <4>. QED
          BY <4>2, <4>3
      <3>. QED
        BY <2>12, <3>1 DEF Sorted
    <2>. QED
      BY <2>3, <2>13, <2>14
  <1>2. Cardinality(T) \in Nat /\ T \in SUBSET T
    BY FS_CardinalityType
  <1>. QED
    BY <1>1, <1>2

\* The middle of what is sorted is positive exactly when at least half is.
LEMMA MiddlePositive ==
    ASSUME NEW T, IsFiniteSet(T), NEW f, \A s \in T : IsChange(f[s]),
           NEW q \in SetToSeqs(T), Sorted(f, q), T # {}
    PROVE  /\ Middle(Cardinality(T)) \in 1 .. Cardinality(T)
           /\ f[q[Middle(Cardinality(T))]].by > 0 <=>
                 LET up == {s \in T : f[s].by > 0}
                 IN  up # {} /\ 2 * Cardinality(up) >= Cardinality(T)
  <1>. DEFINE n  == Cardinality(T)
              up == {s \in T : f[s].by > 0}
              P  == {k \in 1 .. n : f[q[k]].by > 0}
  <1>1. n \in Nat /\ n > 0
    BY FS_CardinalityType, FS_EmptySet
  <1>2. /\ q \in [1 .. n -> T] /\ \A i, j \in 1 .. n : i # j => q[i] # q[j]
    BY DEF SetToSeqs
  <1>3. Middle(n) \in 1 .. n /\ (2 * Middle(n) = n + 1 \/ 2 * Middle(n) = n + 2)
    BY <1>1 DEF Middle
  <1>4. \A s \in T : \E k \in 1 .. n : q[k] = s
    <2>1. q \in Injection(1 .. n, T)
      BY <1>2 DEF Injection, IsInjective
    <2>2. Cardinality(1 .. n) = n
      BY <1>1, FS_Interval
    <2>3. q \in Surjection(1 .. n, T)
      BY <2>1, <2>2, FS_Injection
    <2>. QED
      BY <2>3 DEF Surjection
  <1>5. IsFiniteSet(P) /\ Cardinality(up) = Cardinality(P)
    <2>1. IsFiniteSet(P)
      <3>1. P \in SUBSET (1 .. n) /\ IsFiniteSet(1 .. n)
        BY <1>1, FS_Interval
      <3>. QED
        BY <3>1, FS_Subset
    <2>. DEFINE g == [k \in P |-> q[k]]
    <2>2. g \in [P -> up]
      BY <1>2
    <2>3. \A i, j \in P : g[i] = g[j] => i = j
      BY <1>2
    <2>4. \A s \in up : \E k \in P : g[k] = s
      BY <1>4
    <2>. HIDE DEF g, P, up
    <2>5. g \in Bijection(P, up)
      BY <2>2, <2>3, <2>4 DEF Bijection, Injection, Surjection, IsInjective
    <2>6. ExistsBijection(P, up)
      BY <2>5 DEF ExistsBijection
    <2>. QED
      BY <2>1, <2>6, FS_Bijection
  \* What comes after a positive one is positive.
  <1>6. ASSUME NEW i \in P, NEW j \in 1 .. n, i < j
        PROVE  j \in P
    <2>. DEFINE a == f[q[i]]
                b == f[q[j]]
    <2>1. IsChange(a) /\ IsChange(b) /\ a.by > 0 /\ ~ Smaller(b, a)
      BY <1>2, <1>6 DEF Sorted
    <2>2. /\ a.by \in Int /\ b.by \in Int /\ a.of \in Nat /\ b.of \in Nat
          /\ a.of > 0 /\ b.of > 0
      BY <2>1 DEF IsChange
    <2>3. ~ (b.by * a.of < a.by * b.of)
      BY <2>1 DEF Smaller
    <2>4. b.by > 0
      <3>. DEFINE x == b.by
                  y == a.of
                  u == a.by
                  v == b.of
      <3>1. /\ x \in Int /\ u \in Int /\ y \in Nat /\ v \in Nat /\ u > 0 /\ v > 0
            /\ ~ (x * y < u * v)
        BY <2>1, <2>2, <2>3
      <3>. HIDE DEF x, y, u, v
      <3>2. 1 * v <= u * v
        BY <3>1, TimesMonotone
      <3>3. x <= 0 => x * y <= 0 * y
        BY <3>1, TimesMonotone
      <3>4. x * y \in Int /\ u * v \in Int /\ 0 * y = 0 /\ 1 * v = v
        BY <3>1
      <3>5. x > 0
        BY <3>1, <3>2, <3>3, <3>4
      <3>. QED
        BY <3>5 DEF x
    <2>. QED
      BY <2>4
  <1>7. f[q[Middle(n)]].by > 0 <=> Middle(n) \in P
    BY <1>3
  <1>8. up # {} <=> P # {}
    BY <1>2, <1>4
  <1>11. \A k \in P : k \in 1 .. n
    OBVIOUS
  <1>. HIDE DEF P, up, n
  <1>9. ASSUME P = {} PROVE Middle(n) \in P <=> up # {} /\ 2 * Cardinality(up) >= n
    BY <1>8, <1>9
  <1>10. ASSUME P # {} PROVE Middle(n) \in P <=> up # {} /\ 2 * Cardinality(up) >= n
    <2>1. PICK p \in P : \A k \in P : p <= k
      <3>1. P \subseteq Nat
        BY <1>11
      <3>. QED
        BY <1>10, <3>1, LeastExists
    <2>2. P = p .. n /\ p \in 1 .. n
      <3>1. p \in 1 .. n
        BY <1>11, <2>1
      <3>2. \A k \in P : k \in p .. n
        BY <1>11, <2>1, <3>1
      <3>3. \A k \in p .. n : k \in P
        <4>1. ASSUME NEW k \in p .. n PROVE k \in P
          <5>1. k = p \/ (k \in 1 .. n /\ p < k)
            BY <3>1
          <5>. QED
            BY <1>6, <2>1, <5>1
        <4>. QED
          BY <4>1
      <3>. QED
        BY <3>1, <3>2, <3>3
    <2>3. Cardinality(P) = n - p + 1
      <3>1. p \in Int /\ n \in Int /\ ~ (p > n)
        BY <1>1, <2>2
      <3>2. Cardinality(p .. n) = IF p > n THEN 0 ELSE n - p + 1
        BY <3>1, FS_Interval
      <3>. QED
        BY <2>2, <3>1, <3>2
    <2>4. Middle(n) \in P <=> p <= Middle(n)
      BY <1>1, <1>3, <2>2
    <2>5. p <= Middle(n) <=> 2 * (n - p + 1) >= n
      BY <1>1, <1>3, <2>2
    <2>. QED
      BY <1>5, <1>8, <1>10, <2>3, <2>4, <2>5
  <1>12. f[q[Middle(n)]].by > 0 <=> up # {} /\ 2 * Cardinality(up) >= n
    BY <1>7, <1>9, <1>10
  <1>. QED
    BY <1>3, <1>12, Zenon DEF n, up

\* The return of a token that was seen, and when it is positive
\* (state.cpp:21-36).
LEMMA ReturnFacts ==
    ASSUME EInv, NEW s \in Tokens(memory)
    PROVE  /\ IsChange(Return(memory, s))
           /\ Return(memory, s).by > 0 <=>
                 Head(memory[s]).price > 0 /\ Price(memory[s]) > Head(memory[s]).price
  <1>. DEFINE h == memory[s]
  <1>1. h \in Seq(Entries) /\ h # <<>> /\ AreData(Entries)
    BY ScopeFacts DEF EInv, Counted, Kept, Tokens
  <1>. HIDE DEF h
  <1>2. /\ Len(h) \in Nat /\ Len(h) > 0 /\ \A i \in 1 .. Len(h) : h[i].price \in Nat
    BY <1>1, PricesBounded
  <1>. DEFINE old == Head(h).price
              new == Price(h)
  <1>3. old \in Nat /\ new \in Nat
    <2>1. Head(h) = h[1] /\ Last(h) = h[Len(h)] /\ 1 \in 1 .. Len(h) /\ Len(h) \in 1 .. Len(h)
      BY <1>1, <1>2 DEF Last
    <2>. QED
      BY <1>2, <2>1 DEF Price
  <1>4. Return(memory, s) = Change(old, new)
    BY DEF Return, M24h, h
  <1>. HIDE DEF old, new
  <1>5. Change(old, new).by > 0 <=> old > 0 /\ new > old
    BY <1>3 DEF Change
  <1>6. IsChange(Return(memory, s))
    BY <1>1, ChangeFacts DEF Return, h
  <1>. QED
    BY <1>4, <1>5, <1>6 DEF old, new, h

\* The median is the middle of the sorted returns (regime.cpp:53-68).
LEMMA MedianMeans ==
    ASSUME EInv
    PROVE  MedianPositive(memory) <=>
              LET up == {s \in Tokens(memory) : Return(memory, s).by > 0}
              IN  up # {} /\ 2 * Cardinality(up) >= Cardinality(Tokens(memory))
  <1>. DEFINE T  == Tokens(memory)
              n  == Cardinality(T)
              f  == [s \in T |-> Return(memory, s)]
              up == {s \in T : Return(memory, s).by > 0}
              order == CHOOSE tokens \in SetToSeqs(T) : Ascending(memory, tokens)
              returns == [k \in DOMAIN order |-> Return(memory, order[k])]
  <1>1. IsFiniteSet(T)
    <2>1. T \in SUBSET Symbols
      BY DEF EInv, Kept, Tokens
    <2>. QED
      BY <2>1, ScopesAssumption, FS_Subset
  <1>2. n \in Nat /\ (n = 0 <=> T = {})
    BY <1>1, FS_CardinalityType, FS_EmptySet
  <1>3. \A s \in T : f[s] = Return(memory, s) /\ IsChange(f[s])
    BY ReturnFacts
  <1>4. up = {s \in T : f[s].by > 0}
    BY <1>3
  <1>5. Returns(memory) = returns
    BY DEF Returns
  <1>. HIDE DEF T, f
  <1>6. \A q \in SetToSeqs(T) :
           /\ DOMAIN q = 1 .. n /\ \A k \in 1 .. n : q[k] \in T
           /\ Sorted(f, q) <=> Ascending(memory, q)
    <2>1. ASSUME NEW q \in SetToSeqs(T)
          PROVE  DOMAIN q = 1 .. n /\ \A k \in 1 .. n : q[k] \in T
      BY DEF SetToSeqs
    <2>2. ASSUME NEW q \in SetToSeqs(T)
          PROVE  Sorted(f, q) <=> Ascending(memory, q)
      <3>1. \A i \in DOMAIN q : f[q[i]] = Return(memory, q[i])
        BY <1>3, <2>1
      <3>. QED
        BY <3>1, Zenon DEF Sorted, Ascending
    <2>. QED
      BY <2>1, <2>2
  <1>7. order \in SetToSeqs(T) /\ Sorted(f, order)
    <2>1. \E q \in SetToSeqs(T) : Ascending(memory, q)
      BY <1>1, <1>3, <1>6, OrderExists
    <2>. QED
      BY <1>6, <2>1
  <1>. HIDE DEF order, n
  <1>8. returns = [k \in 1 .. n |-> Return(memory, order[k])]
    BY <1>6, <1>7
  <1>. HIDE DEF returns
  <1>9. DOMAIN returns = 1 .. n /\ Len(returns) = n
    BY <1>2, <1>8
  <1>10. MedianPositive(memory) <=> n # 0 /\ returns[Middle(n)].by > 0
    <2>1. returns # <<>> <=> n # 0
      <3>1. returns = <<>> => n = 0
        BY <1>9
      <3>2. n = 0 => returns = <<>>
        BY <1>8
      <3>. QED
        BY <3>1, <3>2
    <2>. QED
      BY <1>5, <1>9, <2>1 DEF MedianPositive
  <1>11. CASE T = {}
    <2>1. n = 0 /\ up = {}
      BY <1>2, <1>11
    <2>. QED
      BY <1>10, <2>1 DEF T
  <1>12. CASE T # {}
    <2>1. /\ Middle(n) \in 1 .. n
          /\ f[order[Middle(n)]].by > 0 <=> up # {} /\ 2 * Cardinality(up) >= n
      <3>. DEFINE u == {s \in T : f[s].by > 0}
      <3>1. /\ Middle(Cardinality(T)) \in 1 .. Cardinality(T)
            /\ f[order[Middle(Cardinality(T))]].by > 0 <=>
                  u # {} /\ 2 * Cardinality(u) >= Cardinality(T)
        BY <1>1, <1>3, <1>7, <1>12, MiddlePositive
      <3>2. up = u
        BY <1>4
      <3>. HIDE DEF u, up
      <3>. QED
        BY <3>1, <3>2, Zenon DEF n
    <2>2. returns[Middle(n)] = f[order[Middle(n)]]
      <3>1. returns[Middle(n)] = Return(memory, order[Middle(n)])
        BY <1>8, <2>1
      <3>. QED
        BY <1>3, <1>6, <1>7, <2>1, <3>1
    <2>3. n # 0
      BY <1>2, <1>12
    <2>. HIDE DEF up
    <2>4. MedianPositive(memory) <=> up # {} /\ 2 * Cardinality(up) >= n
      BY <1>10, <2>1, <2>2, <2>3, Zenon
    <2>. QED
      BY <2>4, Zenon DEF up, n, T
  <1>. QED
    BY <1>11, <1>12

\* The median of the day's returns is positive exactly when at least half of the
\* tokens are up, for any number of tokens and whatever the order of equal
\* returns; risk-on takes that or a rise of SOL, risk-off that neither is so
\* (regime.cpp:5-68).
THEOREM RegimeMeans == Spec => []RegimeMeaning
  <1>1. ASSUME EInv PROVE RegimeMeaning
    <2>. DEFINE Up(s)  == Head(memory[s]).price > 0 /\ Price(memory[s]) > Head(memory[s]).price
                up     == {s \in Tokens(memory) : Up(s)}
                halfUp == up # {} /\ 2 * Cardinality(up) >= Cardinality(Tokens(memory))
                rising == {s \in Tokens(memory) : Return(memory, s).by > 0}
    <2>1. up = rising
      BY <1>1, ReturnFacts
    <2>2. MedianPositive(memory) <=>
             rising # {} /\ 2 * Cardinality(rising) >= Cardinality(Tokens(memory))
      BY <1>1, MedianMeans
    <2>3. SolPositive(memory) <=> "SOL" \in rising
      BY DEF SolPositive, Return
    <2>. HIDE DEF up, rising
    <2>4. MedianPositive(memory) <=> halfUp
      BY <2>1, <2>2, Zenon
    <2>5. SolPositive(memory) <=> "SOL" \in up
      BY <2>1, <2>3
    <2>6. /\ AssessRegime(memory) >= 2 => MedianPositive(memory) \/ SolPositive(memory)
          /\ AssessRegime(memory) = 0 => ~ MedianPositive(memory) /\ ~ SolPositive(memory)
      BY DEF AssessRegime, Points
    <2>. QED
      BY <2>4, <2>5, <2>6, Zenon DEF RegimeMeaning, up
  <1>. QED
    BY <1>1, EInvHolds, PTL
=============================================================================
