----------------------------- MODULE MCAnalytics -----------------------------
(* The decision loop on small windows and chosen scripts: each family has  *)
(* the prices that make one part of the decision matter.                   *)
EXTENDS Analytics

Strong == [liq |-> 200000, vol |-> 600000, spread |-> 5, impact |-> 5, age |-> 100,
           ok |-> TRUE, hops |-> 1, dev |-> 0, v5 |-> 1, v15 |-> 1, degraded |-> FALSE]
Profiles == {Strong, [Strong EXCEPT !.liq = 20000], [Strong EXCEPT !.vol = 40000],
             [Strong EXCEPT !.age = 20], [Strong EXCEPT !.spread = 260, !.v5 = 0]}

\* The ingestor's closes are the price.
UpdateOf(symbol_, price_, volume, p) ==
    [symbol |-> symbol_, price |-> price_, c5 |-> price_, c15 |-> price_,
     liq |-> p.liq, vol |-> p.vol, spread |-> p.spread, impact |-> p.impact, age |-> p.age,
     ok |-> p.ok, hops |-> p.hops, dev |-> p.dev,
     v5 |-> volume * p.v5, v15 |-> p.v15, degraded |-> p.degraded]
NoUpdate == UpdateOf("garbled", 0, 0, Strong)
NoField  == UpdateOf("empty", 0, 0, Strong)
NoSymbol == UpdateOf("nameless", 100, 1, Strong)

\* One token with rising volume.
OfToken(symbol_, prices, p) == [k \in DOMAIN prices |-> UpdateOf(symbol_, prices[k], 2 * k, p)]

\* A token near the day's high.
Near == {99, 104} \X {100, 104} \X {100, 103} \X {103}
\* A token after a rise of 13 %.
Spikes == {100, 115} \X {100, 115} \X {100} \X {97, 100, 110} \X {97, 107, 115} \X {113}
\* Those that a restart cuts in two.
CutSpikes == {100} \X {115} \X {100} \X {97, 100} \X {107, 115} \X {113}
\* Two tokens, and three.
Two == [1 .. 4 -> {"SOL", "NEW"} \X {100, 110}]
Three == {<<<<"SOL", 100>>, <<"NEW", 100>>, <<"OLD", 100>>, a, b>> :
             a, b \in {"SOL", "NEW", "OLD"} \X {90, 110}}
OfTokens(s) == [k \in DOMAIN s |-> UpdateOf(s[k][1], s[k][2], 1, Strong)]
\* Entries no update of a token is made of.
Good == UpdateOf("SOL", 100, 1, Strong)
Odd == [1 .. 4 -> {NoUpdate, Good}] \cup [1 .. 3 -> {NoUpdate, NoField, NoSymbol, Good}]

Scope(scripts, asks_, faults_, downs_) ==
    {[script |-> s, asks |-> asks_, faults |-> faults_, downs |-> downs_] : s \in scripts}

MCScopes ==
    Scope({OfToken(s, prices, p) : s \in {"SOL", "NEW"}, prices \in Near, p \in Profiles}, 0, 0, 0)
    \cup Scope({OfToken("SOL", prices, Strong) : prices \in Spikes}, 0, 0, 0)
    \cup Scope({OfToken("SOL", prices, Strong) : prices \in CutSpikes}, 0, 0, 1)
    \cup Scope({OfTokens(s) : s \in Two \cup Three}, 0, 0, 0)
    \cup Scope(Odd, 0, 0, 1)
    \cup Scope({<<Good, NoUpdate>>, <<NoSymbol, Good>>, OfToken("SOL", <<104, 100, 103>>, Strong)}, 1, 1, 1)
=============================================================================
