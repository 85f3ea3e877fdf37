----------------------------- MODULE AtMostOnce -----------------------------
(***************************************************************************)
(* What a consumer of a Redis stream in SoulScout promises: entries are    *)
(* handed to it in the order of the stream and never again, and it acts on *)
(* an entry only while it has it in hand, once, and in order.  It does not *)
(* promise to act: an entry may be skipped, or lost between Redis and the  *)
(* consumer, or dropped by a failure or a restart.                         *)
(*                                                                         *)
(* Entries are the positions 1 .. published of the stream.                 *)
(***************************************************************************)
EXTENDS Integers, Sequences

VARIABLES
    published,   \* the length of the stream
    handed,      \* the last position handed out or skipped
    held,        \* the positions the consumer has in hand
    effects      \* the positions it acted on, in the order it did

vars == <<published, handed, held, effects>>

Init == published = 0 /\ handed = 0 /\ held = {} /\ effects = <<>>

Publish == published' = published + 1 /\ UNCHANGED <<handed, held, effects>>

\* Positions are handed out, skipped or lost, and what is in hand is let go.
Hand ==
    /\ handed' \in handed .. published
    /\ held' \subseteq held \cup (handed + 1 .. handed')
    /\ UNCHANGED <<published, effects>>

\* The consumer acts on k, which lies behind everything it acted on.
Act(k) ==
    /\ k \in held /\ \A j \in DOMAIN effects : effects[j] < k
    /\ effects' = Append(effects, k)
    /\ UNCHANGED <<published, handed, held>>

Next == Publish \/ Hand \/ \E k \in held : Act(k)

Spec == Init /\ [][Next]_vars
=============================================================================
