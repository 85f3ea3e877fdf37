---------------------------- MODULE MCPortfolio ----------------------------
(* The portfolio consumer with one owner, one guest and two wallets.       *)
EXTENDS Portfolio

CONSTANTS owner, guest, w1, w2, none

Req(u, role, cmd, arg) == [user |-> u, role |-> role, cmd |-> cmd, arg |-> arg]
Own(cmd, arg) == Req(owner, "owner", cmd, arg)

\* Every handler, a refusal and a command of another service.
AllCommands == {Own("add_wallet", w1), Own("add_wallet", w2), Own("remove_wallet", w1),
                Own("balance", none), Own("holdings", none),
                Req(guest, "guest", "add_wallet", w1), Req(guest, "guest", "signals", none)}

\* Enough to value a second wallet after the first was removed.
Balances == {Own("add_wallet", w1), Own("add_wallet", w2), Own("remove_wallet", w1),
             Own("balance", none)}
=============================================================================
