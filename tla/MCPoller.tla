------------------------------ MODULE MCPoller ------------------------------
(* The poller with one owner, one or two guests and a few kinds of updates. *)
EXTENDS Poller

CONSTANTS owner, guest, guest2, pin, w1, w2, none

Msg(u, c, a) == [user |-> u, cmd |-> c, arg |-> a]

\* Every path of handle_message: two owner commands, the guest flow, an
\* unparsable text and an update without text.
AllPaths == {Msg(owner, "add_wallet", w1), Msg(owner, "guest", none),
             Msg(owner, "help", none), Msg(owner, "start", none),
             Msg(owner, Unparsed, none), Msg(owner, NoText, none),
             Msg(guest, "start", pin), Msg(guest, "balance", none)}

\* Two owner commands, for the runs that look at order and retries.
Commands == {Msg(owner, "add_wallet", w1), Msg(owner, "remove_wallet", w1)}

\* The PIN of one /guest, given by two guests.
Pairing == {Msg(owner, "guest", none), Msg(guest, "start", pin), Msg(guest2, "start", pin),
            Msg(guest, "balance", none)}
=============================================================================
