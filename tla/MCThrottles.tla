---------------------------- MODULE MCThrottles ----------------------------
(* The throttles with two tokens, two bands and two sets of reasons.       *)
EXTENDS Throttles, TLC

CONSTANTS sol, solx, actionable, headsup, h1, h2

\* Two names neither of which begins the other, and "SOL" against "SOLX".
Apart == {<<s, s>> : s \in {sol, solx}}
Nested == Apart \cup {<<sol, solx>>}
=============================================================================
