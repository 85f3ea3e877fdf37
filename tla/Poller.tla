------------------------------- MODULE Poller -------------------------------
(***************************************************************************)
(* The gateway's poll mode (tg_gateway/src/poller.cpp): one thread fetches *)
(* updates from Telegram, handles them one by one, and tells Telegram how  *)
(* far it got with the offset of its next getUpdates call.                 *)
(*                                                                         *)
(* Telegram (external) numbers the updates 1, 2, ... and repeats every     *)
(* update above `confirmed' until a call asks for a higher offset.  The    *)
(* poller keeps its position only in memory (last_update_id_), so a        *)
(* restart replays whatever was not confirmed.                             *)
(*                                                                         *)
(* MaxUpdates, MaxFaults and MaxRestarts bound the environment: how many   *)
(* updates arrive, how many Redis or Telegram calls fail, how often the    *)
(* process goes down.                                                      *)
(***************************************************************************)
EXTENDS Integers, Sequences

CONSTANTS
    Users,        \* Telegram users
    Owner,        \* config.owner_telegram_id
    Messages,     \* the updates a user may send: [user, cmd, arg]
    Pins,         \* values generate_pin may return
    RateLimit,    \* config.rate_limit_msgs_per_min
    MaxBatch,     \* updates in one getUpdates answer (Telegram: 100)
    MaxUpdates, MaxFaults, MaxRestarts

NoText   == "notext"     \* an update without message, text, sender or chat
Unparsed == "unparsed"   \* a text CommandParser::parse rejects

OwnerOnly == {"silence", "resume", "add_wallet", "remove_wallet", "guest"}
Forwarded == {"balance", "holdings", "signals", "health"} \cup (OwnerOnly \ {"guest"})
BuiltIn   == {"start", "help", "guest"}
Roles     == {"owner", "guest"}

ASSUME OwnerAssumption == Owner \in Users
ASSUME MessagesAssumption ==
    \A m \in Messages : /\ m.user \in Users
                        /\ m.cmd \in Forwarded \cup BuiltIn \cup {NoText, Unparsed}
ASSUME BoundsAssumption ==
    /\ RateLimit \in Nat \ {0} /\ MaxBatch \in Nat \ {0}
    /\ MaxUpdates \in Nat /\ MaxFaults \in Nat /\ MaxRestarts \in Nat

VARIABLES
    sent,          \* Telegram: every update so far, in order of update_id
    confirmed,     \* Telegram: updates 1..confirmed are never delivered again
    pc,            \* poll thread: "poll", "work", "pause" (5 s sleep) or "down"
    running,       \* running_
    lastUpdateId,  \* last_update_id_
    batch,         \* update ids of the current answer not yet handled
    charges,       \* rate limiter: charges of each user in the current minute
    sessions,      \* Redis: users with a live guest session key
    pins,          \* Redis: live guest PINs
    requests,      \* Redis: the request stream
    trail,         \* history: PINs, sessions and guests' requests as they came and went
    limited,       \* history: updates answered with "Rate limit exceeded"
    faults,        \* failed calls so far
    run            \* restarts so far

telegram == <<sent, confirmed>>
thread   == <<pc, running, lastUpdateId, batch>>
access   == <<sessions, pins, trail>>
vars     == <<telegram, thread, charges, access, requests, limited, faults, run>>

Request(i, role) == [id |-> i, user |-> sent[i].user, role |-> role,
                     cmd |-> sent[i].cmd, arg |-> sent[i].arg, run |-> run]
RequestType == [id : Nat \ {0}, user : Users, role : Roles, cmd : Forwarded,
                arg : {m.arg : m \in Messages}, run : Nat]

\* An event of the trail: what happened to which PIN or user, by which update
\* (or as which request; 0 for a key that expired).
Event(what, key, by) == [what |-> what, key |-> key, by |-> by]
Note(what, key, by)  == trail' = Append(trail, Event(what, key, by))
EventType == [what : {"stored", "expired", "opened", "ended", "asked"},
              key : Users \cup Pins, by : Nat]

Init ==
    /\ sent = <<>> /\ confirmed = 0
    /\ pc = "poll" /\ running = TRUE /\ lastUpdateId = 0 /\ batch = <<>>
    /\ charges = [u \in Users |-> 0]
    /\ sessions = {} /\ pins = {} /\ requests = <<>> /\ trail = <<>>
    /\ limited = {} /\ faults = 0 /\ run = 0

-----------------------------------------------------------------------------
(* Telegram, the clock and the operator (external).                        *)

\* A user writes to the bot.
Send(m) ==
    /\ Len(sent) < MaxUpdates
    /\ sent' = Append(sent, m)
    /\ UNCHANGED <<confirmed, thread, charges, access, requests, limited, faults, run>>

\* The oldest charge of u leaves the one-minute window.
ChargeExpires(u) ==
    /\ charges[u] > 0
    /\ charges' = [charges EXCEPT ![u] = @ - 1]
    /\ UNCHANGED <<telegram, thread, access, requests, limited, faults, run>>

\* A SETEX key reaches its time to live.
KeyExpires ==
    /\ \/ \E u \in sessions : /\ sessions' = sessions \ {u} /\ UNCHANGED pins
                              /\ Note("ended", u, 0)
       \/ \E p \in pins : /\ pins' = pins \ {p} /\ UNCHANGED sessions
                          /\ Note("expired", p, 0)
    /\ UNCHANGED <<telegram, thread, charges, requests, limited, faults, run>>

\* SIGTERM: the main thread calls TelegramPoller::stop.
Stop ==
    /\ pc # "down" /\ running /\ run < MaxRestarts
    /\ running' = FALSE
    /\ UNCHANGED <<telegram, pc, lastUpdateId, batch, charges, access, requests,
                   limited, faults, run>>

Crash ==
    /\ pc # "down" /\ run < MaxRestarts
    /\ pc' = "down" /\ batch' = <<>>
    /\ UNCHANGED <<telegram, running, lastUpdateId, charges, access, requests,
                   limited, faults, run>>

\* A new process: last_update_id_ and the rate limiter start empty.
Restart ==
    /\ pc = "down"
    /\ pc' = "poll" /\ running' = TRUE /\ lastUpdateId' = 0 /\ batch' = <<>>
    /\ charges' = [u \in Users |-> 0]
    /\ run' = run + 1
    /\ UNCHANGED <<telegram, access, requests, limited, faults>>

-----------------------------------------------------------------------------
(* How one update ends.                                                    *)

NoFault == UNCHANGED faults
Fault   == faults < MaxFaults /\ faults' = faults + 1

\* process_update returned: lines 55-58, then the next update of the batch.
Finish(i) ==
    /\ lastUpdateId' = IF i >= lastUpdateId THEN i ELSE lastUpdateId
    /\ batch' = Tail(batch)
    /\ pc' = IF Tail(batch) = <<>> THEN "poll" ELSE "work"

\* Mutants of Throw: the position advances over the failed update; the failed
\* update goes to the end of the batch.
ThrowAdvancing ==
    /\ Fault
    /\ pc' = "pause" /\ batch' = <<>>
    /\ lastUpdateId' = IF Head(batch) >= lastUpdateId THEN Head(batch) ELSE lastUpdateId
ThrowRequeueing ==
    /\ Fault
    /\ batch' = Append(Tail(batch), Head(batch))
    /\ UNCHANGED <<pc, lastUpdateId>>

\* Something under process_update threw: the catch block drops the rest of
\* the batch and sleeps; last_update_id_ keeps its value.
Throw ==
    /\ Fault
    /\ pc' = "pause" /\ batch' = <<>>
    /\ UNCHANGED lastUpdateId

\* A path that ends in send_message: whether the message arrived is ignored,
\* an answer of Telegram without "ok" throws.
Return(i) == (NoFault /\ Finish(i)) \/ Throw

\* The same after a Redis error that RedisBus logs and swallows.
ReturnLogged(i) == (Fault /\ Finish(i)) \/ Throw

-----------------------------------------------------------------------------
(* The poll loop.                                                          *)

Larger(a, b) == IF a > b THEN a ELSE b
Smaller(a, b) == IF a < b THEN a ELSE b

\* Mutant of Confirm: get_updates without the + 1.
ConfirmAllButLast == Larger(confirmed, lastUpdateId - 1)

\* get_updates(last_update_id_ + 1): Telegram forgets the updates below the
\* offset.
Confirm == Larger(confirmed, lastUpdateId)

\* Mutant of GetUpdates: the answer is confirmed when it is received.
GetUpdatesConfirming ==
    /\ pc = "poll" /\ running
    /\ confirmed' = Confirm + Smaller(MaxBatch, Len(sent) - Confirm)
    /\ batch' = [k \in 1 .. Smaller(MaxBatch, Len(sent) - Confirm) |-> Confirm + k]
    /\ pc' = IF Len(sent) > Confirm THEN "work" ELSE "poll"
    /\ UNCHANGED <<sent, running, lastUpdateId, charges, access, requests, limited,
                   faults, run>>

GetUpdates ==
    /\ pc = "poll" /\ running
    /\ confirmed' = Confirm
    /\ batch' = [k \in 1 .. Smaller(MaxBatch, Len(sent) - Confirm) |-> Confirm + k]
    /\ pc' = IF Len(sent) > Confirm THEN "work" ELSE "poll"
    /\ UNCHANGED <<sent, running, lastUpdateId, charges, access, requests, limited,
                   faults, run>>

\* The call fails on its way there or on its way back.
GetUpdatesFails ==
    /\ pc = "poll" /\ running
    /\ Fault
    /\ confirmed' \in {confirmed, Confirm}
    /\ pc' = "pause"
    /\ UNCHANGED <<sent, running, lastUpdateId, batch, charges, access, requests,
                   limited, run>>

WakeUp ==
    /\ pc = "pause"
    /\ pc' = "poll"
    /\ UNCHANGED <<telegram, running, lastUpdateId, batch, charges, access, requests,
                   limited, faults, run>>

\* The loop condition is tested between batches, never inside one.
LoopExits ==
    /\ pc = "poll" /\ ~running
    /\ pc' = "down"
    /\ UNCHANGED <<telegram, running, lastUpdateId, batch, charges, access, requests,
                   limited, faults, run>>

-----------------------------------------------------------------------------
(* process_update and handle_message, one action per path, for update      *)
(* i = Head(batch).                                                        *)

IgnoreUpdate(i) ==
    /\ sent[i].cmd = NoText
    /\ NoFault /\ Finish(i)
    /\ UNCHANGED <<charges, access, requests, limited>>

\* Mutant of RefuseRate: the refused update is not finished but fetched again.
RefuseRateForNow(i) ==
    /\ sent[i].cmd # NoText
    /\ charges[sent[i].user] >= RateLimit
    /\ NoFault /\ pc' = "poll" /\ batch' = <<>>
    /\ limited' = limited \cup {i}
    /\ UNCHANGED <<lastUpdateId, charges, access, requests>>

RefuseRate(i) ==
    /\ sent[i].cmd # NoText
    /\ charges[sent[i].user] >= RateLimit
    /\ \/ NoFault /\ Finish(i) /\ limited' = limited \cup {i}
       \/ Throw /\ UNCHANGED limited
    /\ UNCHANGED <<charges, access, requests>>

\* Mutant of Admit: the charge is recorded but not checked.
AdmitUnchecked(i) ==
    /\ sent[i].cmd # NoText
    /\ charges' = [charges EXCEPT ![sent[i].user] = @ + 1]

\* check_and_record: every attempt at an update is charged, retries too.
Admit(i) ==
    /\ sent[i].cmd # NoText
    /\ charges[sent[i].user] < RateLimit
    /\ charges' = [charges EXCEPT ![sent[i].user] = @ + 1]

RefuseParse(i) ==
    /\ Admit(i) /\ sent[i].cmd = Unparsed
    /\ Return(i)
    /\ UNCHANGED <<access, requests, limited>>

\* handle_start_command with nothing to grant: the owner, no PIN, a PIN that
\* is not in Redis, or a Redis error read as "no such PIN".
StartNoGrant(i) ==
    /\ Admit(i) /\ sent[i].cmd = "start"
    /\ \/ (sent[i].user = Owner \/ sent[i].arg \notin pins) /\ Return(i)
       \/ sent[i].user # Owner /\ sent[i].arg \in pins /\ ReturnLogged(i)
    /\ UNCHANGED <<access, requests, limited>>

\* A valid PIN: it stays valid, and a failing SETEX of the session is logged
\* only.
StartGrant(i) ==
    /\ Admit(i) /\ sent[i].cmd = "start"
    /\ sent[i].user # Owner /\ sent[i].arg \in pins
    /\ \/ /\ sessions' = sessions \cup {sent[i].user} /\ Return(i)
          /\ Note("opened", sent[i].user, i)
       \/ ReturnLogged(i) /\ UNCHANGED <<sessions, trail>>
    /\ UNCHANGED <<pins, requests, limited>>

\* Mutant of IsGuest: no session is asked for.
IsGuestUnchecked(i) == sent[i].user # Owner

\* authenticate, then the guest session of anyone but the owner.
IsOwner(i) == sent[i].user = Owner
IsGuest(i) == sent[i].user # Owner /\ sent[i].user \in sessions
Allowed(i) == IsOwner(i) \/ (IsGuest(i) /\ sent[i].cmd \notin OwnerOnly)

\* No access, or not to this command; a Redis error reads as no session.
Deny(i) ==
    /\ Admit(i) /\ sent[i].cmd \in Forwarded \cup {"help", "guest"}
    /\ \/ ~Allowed(i) /\ Return(i)
       \/ IsGuest(i) /\ ReturnLogged(i)
    /\ UNCHANGED <<access, requests, limited>>

Help(i) ==
    /\ Admit(i) /\ sent[i].cmd = "help" /\ Allowed(i)
    /\ Return(i)
    /\ UNCHANGED <<access, requests, limited>>

\* handle_guest_command: a failing SETEX of the PIN is logged only.
GuestPin(i) ==
    /\ Admit(i) /\ sent[i].cmd = "guest" /\ Allowed(i)
    /\ \/ \E p \in Pins : /\ pins' = pins \cup {p} /\ Return(i)
                          /\ Note("stored", p, i)
       \/ ReturnLogged(i) /\ UNCHANGED <<pins, trail>>
    /\ UNCHANGED <<sessions, requests, limited>>

\* publish_request, then "Processing...".  An XADD that fails, or whose
\* answer is lost, throws, and so may the message after it.
Publish(i) ==
    /\ Admit(i) /\ sent[i].cmd \in Forwarded /\ Allowed(i)
    /\ LET added == Append(requests, Request(i, IF IsOwner(i) THEN "owner" ELSE "guest"))
       IN  \/ /\ requests' = added /\ Return(i)
              /\ IF IsOwner(i) THEN UNCHANGED trail
                 ELSE Note("asked", sent[i].user, Len(added))
           \/ UNCHANGED <<requests, trail>> /\ Throw
    /\ UNCHANGED <<sessions, pins, limited>>

HandleMessage(i) ==
    \/ RefuseRate(i) \/ RefuseParse(i) \/ StartNoGrant(i) \/ StartGrant(i)
    \/ Deny(i) \/ Help(i) \/ GuestPin(i) \/ Publish(i)

ProcessUpdate ==
    /\ pc = "work"
    /\ IgnoreUpdate(Head(batch)) \/ HandleMessage(Head(batch))
    /\ UNCHANGED <<telegram, running, run>>

-----------------------------------------------------------------------------
PollLoop == GetUpdates \/ GetUpdatesFails \/ WakeUp \/ LoopExits \/ ProcessUpdate

Environment ==
    \/ \E m \in Messages : Send(m)
    \/ \E u \in Users : ChargeExpires(u)
    \/ KeyExpires \/ Stop \/ Crash

Next == PollLoop \/ Restart \/ Environment

Spec == Init /\ [][Next]_vars

\* The poll thread is scheduled, and a stopped process is started again
\* (docker-compose: restart: unless-stopped).
Fairness == WF_vars(PollLoop) /\ WF_vars(Restart)
FairSpec == Spec /\ Fairness

-----------------------------------------------------------------------------
(* Properties.                                                             *)

Published(i) == \E k \in DOMAIN requests : requests[k].id = i

\* Every variable has its type, and the positions stay inside what Telegram
\* holds (poller.hpp's members, the Redis keys).
TypeOK ==
    /\ sent \in Seq(Messages)
    /\ confirmed \in 0 .. Len(sent) /\ lastUpdateId \in 0 .. Len(sent)
    /\ pc \in {"poll", "work", "pause", "down"} /\ running \in BOOLEAN
    /\ batch \in Seq(Nat) /\ (pc = "work" <=> batch # <<>>)
    /\ charges \in [Users -> 0 .. RateLimit]
    /\ sessions \subseteq Users /\ pins \subseteq Pins
    /\ requests \in Seq(RequestType) /\ trail \in Seq(EventType)
    /\ limited \subseteq 1 .. Len(sent)
    /\ faults \in Nat /\ run \in Nat

\* No owner's command is lost on the way to Redis: once Telegram will not
\* deliver the update again, its request is in the stream or the rate limiter
\* refused it, whatever calls failed and whenever the process went down
\* (the offset of poller.cpp:43 against the order of 53 and 57).
OwnerCommandsKept ==
    \A i \in 1 .. confirmed :
        (sent[i].user = Owner /\ sent[i].cmd \in Forwarded)
            => Published(i) \/ i \in limited

\* While nothing fails and the process is not restarted, an update is
\* published at most once (the +1 of poller.cpp:43 and the loop's advance).
OnceWithoutFaults ==
    faults = 0 /\ run = 0 =>
        \A j, k \in DOMAIN requests : requests[j].id = requests[k].id => j = k

\* Retrying after an exception never reorders commands: within one run of the
\* process, requests are published in the order the users sent them.  Only a
\* restart goes back (poller.cpp:61-64 gives up the rest of the batch).
RetriesKeepOrder ==
    \A j, k \in DOMAIN requests :
        j < k /\ requests[j].run = requests[k].run => requests[j].id <= requests[k].id

\* What event g set, nothing has taken away by event n.
Lasts(g, n, gone) ==
    \A e \in g .. n : ~ (trail[e].what = gone /\ trail[e].key = trail[g].key)

\* Event g stored p for a /guest of the owner; event o opened a session for a
\* /start of u whose PIN was one so stored, and had not expired.
Issued(g, p) ==
    /\ trail[g].what = "stored" /\ trail[g].key = p
    /\ sent[trail[g].by].user = Owner /\ sent[trail[g].by].cmd = "guest"
Opened(o, u) ==
    /\ trail[o].what = "opened" /\ trail[o].key = u
    /\ sent[trail[o].by].user = u /\ sent[trail[o].by].cmd = "start"
    /\ \E g \in 1 .. o - 1 : Issued(g, sent[trail[o].by].arg) /\ Lasts(g, o, "expired")

\* Behind every guest's request there is a chain of events in this order: the
\* owner's /guest stored a PIN, the guest's own /start gave that very PIN before
\* it expired, and the session so opened had not ended when the request was
\* published; over replays, retries and restarts (poller.cpp:110-128, 154-185).
GuestChain ==
    \A k \in DOMAIN requests : requests[k].role = "guest" =>
        /\ requests[k].cmd \notin OwnerOnly
        /\ \E n \in DOMAIN trail :
              /\ trail[n] = Event("asked", requests[k].user, k)
              /\ \E o \in 1 .. n - 1 : Opened(o, requests[k].user) /\ Lasts(o, n, "ended")

\* README.md:178 of the gateway calls guest PINs single-use: between the
\* sessions of two users with one PIN, the PIN was stored again.
PinsSingleUse ==
    \A m, n \in DOMAIN trail :
        /\ m < n /\ trail[m].what = "opened" /\ trail[n].what = "opened"
        /\ trail[m].key # trail[n].key
        /\ sent[trail[m].by].arg = sent[trail[n].by].arg
        => \E g \in m .. n : trail[g].what = "stored" /\ trail[g].key = sent[trail[n].by].arg

\* What Telegram was told is done is never executed again: a step that
\* publishes, publishes an update above every offset ever confirmed, also
\* after a restart (last_update_id_ = 0 asks for offset 1).
ReplayAboveConfirmed ==
    [][requests' # requests => requests'[Len(requests')].id > confirmed]_vars

\* Every update is handled in the end: no failing update blocks the ones
\* behind it forever, provided calls fail and processes go down finitely often.
AllConfirmed ==
    \A i \in 1 .. MaxUpdates : Len(sent) >= i ~> confirmed >= i
=============================================================================
