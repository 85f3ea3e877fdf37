------------------------------ MODULE Analytics ------------------------------
(***************************************************************************)
(* The decision loop of the analytics engine (analytics/src/main.cpp): one *)
(* thread that takes market updates in batches, decides on each, publishes *)
(* alerts, and answers /signals.                                           *)
(*                                                                         *)
(* main.cpp calls its components by names the repository declares nowhere  *)
(* (MarketState, compute_confidence, consume_stream and so on); each is    *)
(* read as the component that is there for it (StateManager,               *)
(* ConfidenceScorer, read_market_updates).                                 *)
(*                                                                         *)
(* A scope bounds a behaviour: its script (the entries of the stream of    *)
(* market updates, also such that no update can be made of), the /signals  *)
(* requests, the failing calls, and the stops and crashes.  The consumer   *)
(* groups exist: somebody has created them (the engine's main does not).   *)
(***************************************************************************)
EXTENDS Market

CONSTANTS
    Symbols,     \* the tokens
    Scopes,      \* the bounds considered
    MaxRead,     \* entries of a batch
    Garbled,     \* an entry that does not parse
    NoData,      \* an entry without the field "data"
    Nameless     \* an update without a symbol, as the ingestor of this
                 \* repository publishes them (ingestor/src/main.cpp:130-155)

ASSUME ScopesAssumption ==
    /\ MaxRead \in Nat \ {0} /\ IsFiniteSet(Symbols)
    /\ \A s \in Scopes :
          /\ {s.asks, s.faults, s.downs} \subseteq Nat
          /\ s.script \in Seq(Range(s.script))
          /\ \A u \in Range(s.script) \ {Garbled, NoData, Nameless} :
                u.symbol \in Symbols /\ IsData(u)

VARIABLES
    scope,       \* the bounds of this behaviour
    published,   \* Redis: entries of the script that are in the stream
    delivered,   \* Redis: entries handed out
    asked,       \* Redis: /signals requests in the stream
    heard,       \* Redis: requests handed out
    alerts,      \* Redis: alerts published
    answers,     \* Redis: replies published
    at,          \* the loop: "market", "updates", "requests" or "down"
    todo,        \* positions of the batch, handled in their order
    asks,        \* requests of the batch
    memory,      \* StateManager: the histories
    alerted,     \* ThrottleManager: tokens with an alert on record
    taken,       \* history: the positions this process took into its memory, by token
    decided,     \* history: positions decided on
    reads,       \* history: the last positions of the batches
    killed,      \* history: a process was killed while it held something
    faults, downs

script == scope.script

stream == <<scope, published, asked>>
vars == <<stream, delivered, heard, alerts, answers, at, todo, asks, memory, alerted,
          taken, decided, reads, killed, faults, downs>>

\* An entry with the update of a token.
Named(k) == script[k] \notin {Garbled, NoData, Nameless}

NoMemory == [s \in Symbols |-> <<>>]
NoFault  == UNCHANGED faults
Fault    == faults < scope.faults /\ faults' = faults + 1

Init ==
    /\ scope \in Scopes /\ published = 0 /\ delivered = 0 /\ asked = 0 /\ heard = 0
    /\ alerts = <<>> /\ answers = 0
    /\ at = "market" /\ todo = {} /\ asks = 0
    /\ memory = NoMemory /\ alerted = {}
    /\ taken = NoMemory /\ decided = {} /\ reads = {}
    /\ killed = FALSE /\ faults = 0 /\ downs = 0

-----------------------------------------------------------------------------
(* Reading.                                                                *)

\* Mutant of Parsed: nothing of a batch survives an entry that does not parse.
ParsedAllOrNothing(batch) ==
    IF \E k \in batch : script[k] = Garbled THEN {} ELSE {k \in batch : script[k] # NoData}

\* What is in front of the first entry that does not parse (the exception
\* leaves the loop over the entries, and all of them were handed out), without
\* the entries that have no data.
Parsed(batch) ==
    {k \in batch : script[k] # NoData /\ \A j \in batch : j <= k => script[j] # Garbled}

\* XREADGROUP; a batch that is lost on the way was handed out too.
ReadUpdates ==
    /\ at = "market" /\ delivered < published
    /\ delivered' = Least(delivered + MaxRead, published)
    /\ reads' = reads \cup {delivered'}
    /\ \/ NoFault /\ todo' = Parsed(delivered + 1 .. delivered')
       \/ Fault /\ todo' = {}
    /\ at' = "updates"
    /\ UNCHANGED <<stream, heard, alerts, answers, asks, memory, alerted, taken, decided,
                   killed, downs>>

\* The read times out: the requests are looked at all the same.
ReadNothing ==
    /\ at = "market" /\ delivered = published /\ heard < asked
    /\ at' = "updates"
    /\ UNCHANGED <<stream, delivered, heard, alerts, answers, todo, asks, memory, alerted,
                   taken, decided, reads, killed, faults, downs>>

ReadRequests ==
    /\ at = "updates" /\ todo = {}
    /\ heard' = asked
    /\ \/ NoFault /\ asks' = asked - heard
       \/ asked > heard /\ Fault /\ asks' = 0
    /\ at' = IF asks' = 0 THEN "market" ELSE "requests"
    /\ UNCHANGED <<stream, delivered, alerts, answers, todo, memory, alerted, taken,
                   decided, reads, killed, downs>>

-----------------------------------------------------------------------------
(* Deciding.                                                               *)

Verdict(symbol, remembered) ==
    LET h == remembered[symbol]
        s == ComputeSignals(symbol, h)
    IN  [confidence |-> Confidence(Last(h), s),
         forced     |-> ForcedHeadsUp(Last(h), s),
         risky      |-> RugCap(s) \/ YoungAndRisky(Last(h), s),
         confirmed  |-> CheckEntryConfirmation(h) /\ CheckNetEdge(h),
         threshold  |-> BaseThreshold + ThresholdAdjustment(AssessRegime(remembered))]

\* The bands of a verdict: where the sum in doubles falls short of the exact
\* one, a bound that it meets exactly is missed.
BandsOf(v) ==
    {Band(c, v.forced, v.confirmed, v.risky, v.threshold) :
        c \in {v.confidence, Most(0, v.confidence - 1)}}

\* Only an alert on record can make the throttles suppress another.
MaySuppress(symbol) == alerted # {}

\* An alert, with the updates of its token that this process has seen.
Alert(symbol, band, k) ==
    [symbol |-> symbol, band |-> band, at |-> k, seen |-> taken'[symbol]]

\* One update: the memory takes it in first, whatever fails later.  A verdict
\* other than "none" goes through the throttles, which record it before it is
\* published; publish_alert swallows its errors.
Decide ==
    /\ at = "updates" /\ todo # {} /\ script[Min(todo)] # Nameless
    /\ LET k == Min(todo)
           symbol == script[k].symbol
           Publish(band) == alerts' = Append(alerts, Alert(symbol, band, k))
       IN  /\ memory' = [memory EXCEPT ![symbol] = Update(@, script[k])]
           /\ taken' = [taken EXCEPT ![symbol] = Append(@, k)] /\ decided' = decided \cup {k}
           /\ \/ /\ Fault /\ UNCHANGED <<alerts, alerted>>
              \/ \E band \in BandsOf(Verdict(symbol, memory')) :
                    \/ /\ NoFault /\ UNCHANGED <<alerts, alerted>>
                       /\ band = "none" \/ MaySuppress(symbol)
                    \/ /\ band # "none" /\ alerted' = alerted \cup {symbol}
                       /\ \/ NoFault /\ Publish(band)
                          \/ Fault /\ (Publish(band) \/ UNCHANGED alerts)
    /\ todo' = todo \ {Min(todo)}
    /\ UNCHANGED <<stream, delivered, heard, answers, at, asks, reads, killed, downs>>

\* An update without a symbol: nothing is remembered of it or decided.  The
\* update is const, and a missing key of a const object is undefined in a
\* build with NDEBUG: what is read there is no string, and the exception is
\* caught (main.cpp:189), or the process dies of it.
Drop ==
    /\ at = "updates" /\ todo # {} /\ script[Min(todo)] = Nameless
    /\ \/ todo' = todo \ {Min(todo)} /\ UNCHANGED <<at, killed>>
       \/ at' = "down" /\ killed' = TRUE /\ UNCHANGED todo
    /\ UNCHANGED <<stream, delivered, heard, alerts, answers, asks, memory, alerted, taken,
                   decided, reads, faults, downs>>

Answer ==
    /\ at = "requests"
    /\ asks' = asks - 1 /\ at' = IF asks = 1 THEN "market" ELSE at
    /\ \/ NoFault /\ answers' = answers + 1
       \/ Fault /\ answers' \in {answers, answers + 1}
    /\ UNCHANGED <<stream, delivered, heard, alerts, todo, memory, alerted, taken, decided,
                   reads, killed, downs>>

-----------------------------------------------------------------------------
(* Stopping and starting, and the environment.                             *)

\* SIGTERM is looked at between two rounds.
Stop ==
    /\ at = "market" /\ downs < scope.downs /\ downs' = downs + 1 /\ at' = "down"
    /\ UNCHANGED <<stream, delivered, heard, alerts, answers, todo, asks, memory, alerted,
                   taken, decided, reads, killed, faults>>

Crash ==
    /\ at # "down" /\ downs < scope.downs /\ downs' = downs + 1 /\ at' = "down"
    /\ killed' = (killed \/ todo # {} \/ asks > 0)
    /\ UNCHANGED <<stream, delivered, heard, alerts, answers, todo, asks, memory, alerted,
                   taken, decided, reads, faults>>

\* The memory starts empty.
Start ==
    /\ at = "down" /\ at' = "market" /\ todo' = {} /\ asks' = 0
    /\ memory' = NoMemory /\ alerted' = {} /\ taken' = NoMemory
    /\ UNCHANGED <<stream, delivered, heard, alerts, answers, decided, reads, killed, faults,
                   downs>>

\* The ingestor publishes, the gateway forwards a request.
Publish ==
    /\ published < Len(script) /\ published' = published + 1
    /\ UNCHANGED <<scope, asked, delivered, heard, alerts, answers, at, todo, asks, memory,
                   alerted, taken, decided, reads, killed, faults, downs>>

Ask ==
    /\ asked < scope.asks /\ asked' = asked + 1
    /\ UNCHANGED <<scope, published, delivered, heard, alerts, answers, at, todo, asks,
                   memory, alerted, taken, decided, reads, killed, faults, downs>>

Next ==
    \/ ReadUpdates \/ ReadNothing \/ ReadRequests \/ Decide \/ Drop \/ Answer
    \/ Stop \/ Crash \/ Start \/ Publish \/ Ask

Spec == Init /\ [][Next]_vars
-----------------------------------------------------------------------------
(* Properties.                                                             *)

Positions(s) == {s[k] : k \in DOMAIN s}
Positive(a) == a.band \in {"actionable", "high_conviction"}

\* Every variable has its type; a memory is no longer than a day and holds what
\* was taken last of its token.
TypeOK ==
    /\ published \in 0 .. Len(script) /\ delivered \in 0 .. published
    /\ asked \in 0 .. scope.asks /\ heard \in 0 .. asked /\ answers \in 0 .. heard
    /\ at \in {"market", "updates", "requests", "down"}
    /\ todo \subseteq 1 .. delivered /\ reads \subseteq 1 .. delivered
    /\ decided \subseteq 1 .. delivered /\ asks \in 0 .. heard
    /\ \A s \in Symbols :
          /\ Positions(taken[s]) \subseteq decided /\ Len(memory[s]) <= Day
          /\ taken[s] # <<>> => Last(memory[s]) = script[Last(taken[s])]
    /\ alerted \subseteq Symbols /\ faults \in 0 .. scope.faults /\ downs \in 0 .. scope.downs

\* In the batch of this entry, one at or before it does not parse.
BehindGarbled(k) ==
    \E j \in 1 .. k : script[j] = Garbled /\ reads \cap (j .. k - 1) = {}

\* While nothing fails, every update of a token that was handed out is decided
\* on or in hand, unless an entry of its batch at or before it does not parse;
\* the throttles hold against a token only alerts that were published; and
\* every request that was handed out is answered or in hand.  An update without
\* a symbol is nobody's and is not decided on: see EveryUpdateDecided
\* (main.cpp:101-212, redis_bus.cpp:18-42).
UpdatesDecided ==
    (faults = 0 /\ ~killed) =>
        /\ \A k \in 1 .. delivered :
              Named(k) => k \in decided \cup todo \/ BehindGarbled(k)
        /\ \A s \in alerted : \E n \in DOMAIN alerts : alerts[n].symbol = s
        /\ answers + asks = heard

\* As the ingestor's README has it (ingestor/README.md:43-45), every update
\* that it sends is consumed for signal generation: also one as it sends them.
\* Violated: main.cpp:117 wants a symbol.
EveryUpdateDecided ==
    (faults = 0 /\ ~killed) =>
        \A k \in 1 .. delivered :
            script[k] \notin {Garbled, NoData} =>
                k \in decided \cup todo \/ BehindGarbled(k)

\* The prices an alert's process has seen of its token, the last one its own.
PriceSeen(a, n) == script[a.seen[n]].price

\* An alert to act comes at a price at least 0.6 % below one of the last day:
\* never at the top, and never on the first update after a start.
BelowTheHigh(a) ==
    LET last == Len(a.seen)
    IN  \E n \in last - Day + 1 .. last :
            n >= 1 /\ 1000 * PriceSeen(a, n) >= 1006 * PriceSeen(a, last)

\* An alert to act after a rise of more than 12 % in an hour comes only after
\* the price has fallen by 2 % within the windows of the confirmation.
SpikeConfirmed(a) ==
    LET last == Len(a.seen)
        back == last - Most(RetestFrom, PullbackFrom) + 1
        Spike == /\ last >= Hour /\ PriceSeen(a, last - Hour + 1) > 0
                 /\ 100 * PriceSeen(a, last) > 112 * PriceSeen(a, last - Hour + 1)
    IN  Spike => \E i, j \in 1 .. last :
                    back <= i /\ i < j /\ 100 * PriceSeen(a, j) <= 98 * PriceSeen(a, i)

\* High conviction takes a listed token of a day at least, within the gates of
\* execution cost and above the lowest floors of liquidity and volume: no
\* signal is so strong that it makes up for one of these.  These are the floors
\* that the weights bring about, and lower than the documented ones (HardGates).
ConvictionFloors(a) ==
    LET md == script[a.at]
    IN  a.band = "high_conviction" =>
            /\ a.symbol \in KnownTokens /\ md.age >= 24
            /\ md.spread <= 250 /\ md.impact <= 150
            /\ md.liq >= 25000 /\ md.vol >= 50000

\* The "Hard Gates (Must Pass for Actionable)" of analytics/README.md:15-19.
\* Violated: no gate is looked at when the band is determined
\* (main.cpp:151-162), and the sum of the signals makes up for a missing one.
HardGates ==
    \A n \in DOMAIN alerts :
        LET md == script[alerts[n].at]
        IN  Positive(alerts[n]) =>
                /\ md.liq >= 150000 /\ md.vol >= 500000
                /\ md.spread <= 250 /\ md.impact <= 150
                /\ md.ok /\ md.hops <= 3 /\ md.dev < 80

\* Every alert that was published was earned by the updates its process had
\* seen (signals.cpp, scoring.cpp, entry_exit.cpp, main.cpp:120-162).
AlertsEarned ==
    \A n \in DOMAIN alerts :
        /\ Positive(alerts[n]) => BelowTheHigh(alerts[n]) /\ SpikeConfirmed(alerts[n])
        /\ ConvictionFloors(alerts[n])

\* The median return is positive exactly when at least half of the tokens are
\* up on the day; risk-on takes that or SOL's rise, and risk-off takes that
\* neither is so (regime.cpp:5-68).
RegimeMeaning ==
    LET Up(s)   == Head(memory[s]).price > 0 /\ Price(memory[s]) > Head(memory[s]).price
        up      == {s \in Tokens(memory) : Up(s)}
        halfUp  == up # {} /\ 2 * Cardinality(up) >= Cardinality(Tokens(memory))
    IN  /\ MedianPositive(memory) <=> halfUp
        /\ AssessRegime(memory) >= 2 => halfUp \/ "SOL" \in up
        /\ AssessRegime(memory) = 0 => ~halfUp /\ "SOL" \notin up
=============================================================================
