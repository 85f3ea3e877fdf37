------------------------------- MODULE Scoring -------------------------------
(***************************************************************************)
(* The arithmetic of the analytics engine on one update: the signals that  *)
(* look at the latest market data only (analytics/src/signals.cpp), the    *)
(* confidence made of all signals (scoring.cpp), the band of an alert      *)
(* (main.cpp:150-162) and the suggested size (entry_exit.cpp:137-167).     *)
(*                                                                         *)
(* Numbers are integers in the unit that makes the code's constants whole: *)
(* a signal in 1/10000, the confidence in 1/10000 of its points, a spread, *)
(* an impact or a deviation in 1/100 of a percent, money in dollars.       *)
(*                                                                         *)
(* Market data is a record md: liq, vol, spread, impact, age (hours), ok,  *)
(* hops and dev (the route), v5 and v15 (the bars' volume), degraded.      *)
(***************************************************************************)
EXTENDS Integers

CONSTANTS KnownTokens,   \* known_tokens: SOL, USDC, USDT, BONK, JUP, WIF, JTO
          BaseThreshold  \* actionable_base_threshold

ASSUME ThresholdAssumption == BaseThreshold \in Int

One == 10000    \* 1.0, and one point of confidence
Points(condition, n) == IF condition THEN n ELSE 0
Least(a, b) == IF a < b THEN a ELSE b
Most(a, b)  == IF a < b THEN b ELSE a

\* The numbers of market data.
IsData(md) ==
    {md.price, md.liq, md.vol, md.spread, md.impact, md.age, md.hops, md.dev} \subseteq Nat

-----------------------------------------------------------------------------
(* Signals of the latest data.                                             *)

ComputeS1(liq) == Points(liq >= 25000, 5000) + Points(liq >= 150000, 5000)
ComputeS2(vol) == Points(vol >= 50000, 5000) + Points(vol >= 500000, 5000)

\* The ratio is in whole numbers; the engine always passes 100.
ComputeS3(ratio) ==
    IF ratio < 5 THEN 4000 + Points(ratio >= 2, 1200 * ratio)
    ELSE One - Points(ratio > 50, 70 * Least(100, ratio - 50))

\* A change is a quotient by / of; this is its distance to a percentage.
Over(change, pct) == 100 * change.by - pct * change.of
Between(change, low, high) == Over(change, low) >= 0 /\ Over(change, high) <= 0

\* (The sum stays in its range without the code's clamp.)
ComputeS4(m1h, m24h) ==
    5000 + Points(Between(m1h, 1, 12), 2500) + Points(Over(m1h, 12) > 0, 1000)
         - Points(Over(m1h, 0) < 0, 2000)
         + Points(Between(m24h, 2, 60), 2500) + Points(Over(m24h, 60) > 0, 1000)
         - Points(Over(m24h, 0) < 0, 2000)

ComputeS7(age) == 3000 + Points(age >= 24, 3000) + Points(age >= 72, 3000)

ComputeS8(spread, impact) ==
    Points(spread <= 250 /\ impact <= 150, Most(0, One - 12 * spread - 20 * impact))

ComputeS10(ok, hops, dev) ==
    IF ~ok \/ hops > 3 THEN 0
    ELSE IF dev > 80 THEN 3000
    ELSE Most(0, Least(One, One - 1500 * (hops - 1) - 30 * dev))

ComputeN1(symbol) == IF symbol \in KnownTokens THEN One ELSE 9000

-----------------------------------------------------------------------------
(* Confidence.                                                             *)

\* The weighted sum R with the weights of ScoringWeights.
Raw(s) ==
    15 * s.S1 + 12 * s.S2 + 8 * s.S3 + 18 * s.S4 + 10 * s.S5 + 8 * s.S6 + 12 * s.S7
    + 10 * s.S8 + 5 * s.S9 + 2 * s.S10

RugCap(s)        == s.S7 < 3000
YoungAndRisky(md, s) == md.age < 72 /\ s.S7 < 6000

\* The 0.5 - 0.2 - 0.2 of two negative momenta is less than 0.1 in doubles.
MissingMomentum(s) == s.S4 <= 1000

\* Key inputs that are missing; four of them bring the quality below 0.7.
Missing(md, s) ==
    Points(s.S1 < 1000, 1) + Points(s.S2 < 1000, 1) + Points(MissingMomentum(s), 1)
    + Points(md.v5 = 0, 1) + Points(md.v15 = 0, 1) + Points(md.degraded, 1)
ForcedHeadsUp(md, s) == Missing(md, s) >= 4

\* Mutant of Penalties: tokens that are on no list are let off.
PenaltiesUnlisted(md, s) ==
    Points(md.age < 24, 15) + Points(md.age >= 24 /\ md.age < 48, 5)
    + Points(md.spread > 150, 5) + Points(md.impact > 100, 5) + Points(s.S9 < 5000, 3)

Penalties(md, s) ==
    Points(md.age < 24, 15) + Points(md.age >= 24 /\ md.age < 48, 5)
    + Points(md.spread > 150, 5) + Points(md.impact > 100, 5) + Points(s.S9 < 5000, 3)
    + Points(s.N1 < One, 10)

Confidence(md, s) ==
    Most(0, (IF RugCap(s) THEN Least(Raw(s), 55 * One) ELSE Raw(s)) - One * Penalties(md, s))

-----------------------------------------------------------------------------
(* The band, and the size.                                                 *)

\* threshold_adjustment by the number of positive indicators.
ThresholdAdjustment(positive) ==
    IF positive >= 2 THEN -10 ELSE IF positive = 0 THEN 10 ELSE 0

SizeAdjustment(positive) ==
    IF positive >= 2 THEN 30 ELSE IF positive = 0 THEN -30 ELSE 0

Band(confidence, forced, confirmed, risky, threshold) ==
    LET free == ~forced /\ confirmed
    IN  IF free /\ confidence >= 85 * One /\ ~risky THEN "high_conviction"
        ELSE IF free /\ confidence >= threshold * One THEN "actionable"
        ELSE IF confidence >= 60 * One THEN "heads_up" ELSE "none"

\* In 1/10^7 SOL, for a wallet in SOL, a price above zero, and the 100 dollars
\* the code takes for one SOL.
Sizing(wallet, liq, positive) ==
    Least((100 + SizeAdjustment(positive)) * Least(12000 * wallet, 8 * liq), 3000000 * wallet)
=============================================================================
