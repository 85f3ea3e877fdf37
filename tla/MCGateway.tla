------------------------------ MODULE MCGateway ------------------------------
(* The gateway's threads in both modes.  Each scope has some of what makes *)
(* the threads meet; together they have all of it.                         *)
EXTENDS Gateway

Scope(mode_, replies, alerts, updates_, posts_, faults_, downs_) ==
    [mode |-> mode_, script |-> [reply |-> replies, alert |-> alerts],
     updates |-> updates_, posts |-> posts_, faults |-> faults_, downs |-> downs_]

MCScopes == {
    \* A failing call while an alert and an update are under way.
    Scope("poll", <<>>, <<"plain">>, 1, 0, 1, 0),
    \* The restart of a gateway with an alert and an update.
    Scope("poll", <<>>, <<"plain">>, 1, 0, 0, 1),
    \* Updates, one of which is answered, an HTTP client and a failing call.
    Scope("poll", <<>>, <<>>, 2, 1, 1, 0),
    \* Alerts, an HTTP client, a failing call and a restart.
    Scope("webhook", <<>>, <<"plain">>, 0, 1, 1, 1),
    \* Entries of every kind.
    Scope("webhook", <<"plain", "odd">>, <<"other", "odd">>, 0, 0, 1, 1)
 }
=============================================================================
