-------------------------------- MODULE Market --------------------------------
(***************************************************************************)
(* What the analytics engine reads off its memory of the market: the       *)
(* momentum and the signals with a history (analytics/src/state.cpp,       *)
(* signals.cpp), entry confirmation and net edge (entry_exit.cpp), and the *)
(* risk regime (regime.cpp).                                               *)
(*                                                                         *)
(* A history is the sequence of a token's updates, the latest last.  The   *)
(* code's window sizes are constants.  Comparisons are exact.              *)
(***************************************************************************)
EXTENDS Scoring, Sequences, FiniteSetsExt, SequencesExt, Functions

CONSTANTS
    Day,                 \* 1440: the longest history
    Hour,                \* 60: updates of an hour
    Low,                 \* 10: updates of a low of S5, two lows in a row
    Steady,              \* 60: updates of S6
    Trend,               \* 50: updates of a volume of S9, two in a row
    RetestFrom, RetestTo,     \* 20, 5: the high before a retest
    PullbackFrom, PullbackTo  \* 30, 15: the high before a pullback

ASSUME WindowAssumption ==
    /\ {Day, Hour, Low, Steady, Trend, RetestTo, PullbackTo} \subseteq Nat \ {0}
    /\ Hour <= Day
    /\ RetestFrom \in Nat /\ RetestFrom > RetestTo
    /\ PullbackFrom \in Nat /\ PullbackFrom > PullbackTo

-----------------------------------------------------------------------------
(* History.                                                                *)

\* Mutant of Update: nothing is forgotten.
UpdateKeepingAll(h, md) == Append(h, md)

Update(h, md) ==
    IF Len(h) < Day THEN Append(h, md) ELSE Append(Tail(h), md)

Price(h) == Last(h).price

\* The entries from 'from' to 'to' + 1 back.  The code's unsigned subtraction
\* wraps around when the history is shorter: then its loop does nothing.
Window(h, from, to) ==
    IF Len(h) < from THEN {} ELSE Len(h) - from + 1 .. Len(h) - to
Prices(h, from, to) == {h[k].price : k \in Window(h, from, to)}
Total(h, from, to, f(_)) == SumFunctionOnSet([k \in DOMAIN h |-> f(h[k])], Window(h, from, to))

LowOf(h, from, to)  == Min({Price(h)} \cup Prices(h, from, to))
HighOf(h, from, to) == Max({0} \cup Prices(h, from, to))

\* The change from an old price to the latest, as by / of.
Change(old, new) ==
    IF old <= 0 \/ new <= 0 THEN [by |-> 0, of |-> 1] ELSE [by |-> new - old, of |-> old]

\* Mutant of M1h: one entry more, so that it looks before the hour.
M1hEarlier(h) ==
    IF Len(h) <= Hour THEN Change(Price(h), Price(h))
    ELSE Change(h[Len(h) - Hour].price, Price(h))

M1h(h) ==
    IF Len(h) < Hour THEN Change(Price(h), Price(h))
    ELSE Change(h[Len(h) - Hour + 1].price, Price(h))

M24h(h) == Change(Head(h).price, Price(h))

-----------------------------------------------------------------------------
(* Signals with a history.                                                 *)

ComputeS5(h) ==
    LET recent == LowOf(h, Low, 0)
        before == LowOf(h, 2 * Low, Low)
    IN  IF Len(h) < Low THEN 5000
        ELSE IF 100 * recent > 102 * before THEN 9000
        ELSE IF 100 * recent < 98 * before THEN 3000 ELSE 6000

\* The sum of the latest prices, and Steady^2 times their variance.
SumOfPrices(h) ==
    LET PriceOf(u) == u.price IN Total(h, Steady, 0, PriceOf)
SpreadOfPrices(h) ==
    LET Square(u) == u.price * u.price
    IN  Steady * Total(h, Steady, 0, Square) - SumOfPrices(h) * SumOfPrices(h)

\* The coefficient of variation against 0.05 and 0.20, without the root.
VaryingPrices(h) == 25 * SpreadOfPrices(h) > SumOfPrices(h) * SumOfPrices(h)
SteadyPrices(h)  == 400 * SpreadOfPrices(h) < SumOfPrices(h) * SumOfPrices(h)

ComputeS6(h) ==
    IF Len(h) < Steady THEN 5000
    ELSE IF SteadyPrices(h) THEN 9000 ELSE IF VaryingPrices(h) THEN 3000 ELSE 7000

ComputeS9(h) ==
    LET VolumeOf(u) == u.v5
        recent == Total(h, Trend, 0, VolumeOf)
        old    == Total(h, 2 * Trend, Trend, VolumeOf)
    IN  IF Len(h) < 2 * Trend THEN 5000
        ELSE IF 10 * recent > 12 * old THEN 9000
        ELSE IF 10 * recent < 8 * old THEN 4000 ELSE 6000

ComputeSignals(symbol, h) ==
    LET md == Last(h)
    IN  [S1 |-> ComputeS1(md.liq), S2 |-> ComputeS2(md.vol), S3 |-> ComputeS3(100),
         S4 |-> ComputeS4(M1h(h), M24h(h)), S5 |-> ComputeS5(h), S6 |-> ComputeS6(h),
         S7 |-> ComputeS7(md.age), S8 |-> ComputeS8(md.spread, md.impact),
         S9 |-> ComputeS9(h), S10 |-> ComputeS10(md.ok, md.hops, md.dev),
         N1 |-> ComputeN1(symbol)]

-----------------------------------------------------------------------------
(* Entry.                                                                  *)

CheckRetestHold(h) ==
    LET high == HighOf(h, RetestFrom, RetestTo)
    IN  /\ Len(h) >= RetestFrom
        /\ 100 * LowOf(h, RetestTo, 0) < 98 * high
        /\ Last(h).c5 > high

CheckQuickPullback(h) ==
    LET high == HighOf(h, PullbackFrom, PullbackTo)
        drop == 100 * (high - LowOf(h, PullbackTo, 0))
    IN  /\ Len(h) >= PullbackFrom /\ high > 0
        /\ 2 * high <= drop /\ drop <= 5 * high
        /\ Last(h).c15 > high

CheckEntryConfirmation(h) ==
    Over(M1h(h), 12) <= 0 \/ CheckRetestHold(h) \/ CheckQuickPullback(h)

\* The upside to the highest price, 15 % at most, against twice the cost.
CheckNetEdge(h) ==
    LET cost  == Last(h).spread + Last(h).impact + 30
        swing == Max({u.price : u \in Range(h)})
    IN  Price(h) > 0 /\ 10000 * (swing - Price(h)) >= 2 * cost * Price(h) /\ 1500 >= 2 * cost

-----------------------------------------------------------------------------
(* The regime of a memory: a history for every token, empty if not seen.   *)

Tokens(memory) == {s \in DOMAIN memory : memory[s] # <<>>}

Smaller(a, b) == a.by * b.of < b.by * a.of

SolPositive(memory) ==
    "SOL" \in Tokens(memory) /\ M24h(memory["SOL"]).by > 0

Return(memory, s) == M24h(memory[s])

\* The returns of the day in ascending order.
Ascending(memory, order) ==
    \A i, j \in DOMAIN order :
        i < j => ~ Smaller(Return(memory, order[j]), Return(memory, order[i]))

Returns(memory) ==
    LET order == CHOOSE tokens \in SetToSeqs(Tokens(memory)) : Ascending(memory, tokens)
    IN  [k \in DOMAIN order |-> Return(memory, order[k])]

\* Mutant of Middle: the lower one of two.
LowerMiddle(n) == (n + 1) \div 2

\* The upper one of two.
Middle(n) == n \div 2 + 1

MedianPositive(memory) ==
    LET returns == Returns(memory)
    IN  returns # <<>> /\ returns[Middle(Len(returns))].by > 0

Volume(h) == LET VolumeOf(u) == u.v5 IN Total(h, Len(h), 0, VolumeOf)

\* The latest price is above the average of the day weighted by volume.
AboveVwap(h) ==
    LET Turnover(u) == u.price * u.v5
    IN  Price(h) * Volume(h) > Total(h, Len(h), 0, Turnover)

\* More than half of the tokens with volume.
AboveVwapMajority(memory) ==
    LET traded == {s \in Tokens(memory) : Volume(memory[s]) > 0}
    IN  2 * Cardinality({s \in traded : AboveVwap(memory[s])}) > Cardinality(traded)

\* The number of positive indicators.
AssessRegime(memory) ==
    Points(SolPositive(memory), 1) + Points(MedianPositive(memory), 1)
    + Points(AboveVwapMajority(memory), 1)
=============================================================================
