------------------------------- MODULE Gateway -------------------------------
(***************************************************************************)
(* The threads of the Telegram gateway ( tg_gateway/src/main.cpp) and what *)
(* they share: the reply and alert consumers, the poll thread, the HTTP    *)
(* server, main, which starts and joins them, and the one CURL handle of   *)
(* TelegramClient, which all but the reply consumer use without a lock.    *)
(*                                                                         *)
(* What handle_message does with an update is the subject of Poller; here  *)
(* it is one step, and a call of send_message for the updates in Noticed.  *)
(*                                                                         *)
(* A scope bounds a behaviour: its mode, what is published, the updates,   *)
(* the POSTs of HTTP clients, the failing calls and the restarts.          *)
(***************************************************************************)
EXTENDS Integers, Sequences, FiniteSets

CONSTANTS
    Noticed,      \* updates that are answered with a message to the user
    MaxRead,      \* count of read_replies and read_alerts
    Scopes        \* the bounds considered

Loops   == {"reply", "alert"}               \* the two consumer threads
Callers == {"main", "alert", "poll", "http"} \* the threads that call Telegram
Threads == Loops \cup Callers

\* An entry: "plain" (an alert to the owner, a reply); "other" (an alert to
\* somebody else or without text); "odd" (no JSON object: read_replies leaves
\* it out or value() throws, and either way it is skipped and stays pending).
Kinds == {"plain", "other", "odd"}

ASSUME ReadAssumption == MaxRead \in Nat \ {0}
ASSUME ScopesAssumption ==
    \A s \in Scopes :
        /\ s.mode \in {"poll", "webhook"} /\ s.script \in [Loops -> Seq(Kinds)]
        /\ {s.updates, s.posts, s.faults, s.downs} \subseteq Nat

VARIABLES
    scope,       \* the bounds of this behaviour, its gateway_mode among them
    stream,      \* Redis: the entries of both streams
    groupStart,  \* Redis: where a group was created, NoGroup without one
    delivered,   \* Redis: the last position delivered to the group
    pending,     \* Redis: delivered positions not acknowledged
    updates,     \* Telegram: updates so far
    confirmed,   \* Telegram: the updates it will not return again
    received,    \* Telegram: alerts that arrived, by position
    requests,    \* Redis: commands of HTTP clients published
    at,          \* the threads' next step
    call,        \* the threads' calls of make_request
    url, out,    \* the handle: CURLOPT_URL, and whose string is WRITEDATA
    busy,        \* the handle is inside curl_easy_perform
    todo,        \* the batches of the two consumers
    batch,       \* the updates in the poll thread's hands
    offset,      \* last_update_id_
    server,      \* the HTTP server's thread
    signalled,   \* shutdown_requested
    polling, consuming,   \* running_ of the poller, consumers_running
    handled,     \* history: updates whose process_update returned
    tried,       \* history: alerts that send_message was called for
    troubled,    \* history: alerts whose call failed or met another call
    killed,      \* history: a process crashed or aborted
    ended,       \* how the process ended, "no" while it runs
    posts, faults, downs

redis   == <<stream, groupStart, delivered, pending>>
telegram == <<updates, confirmed, received>>
handle  == <<url, out, busy>>
poller  == <<batch, offset, handled>>
flags   == <<signalled, polling, consuming>>
ends    == <<killed, ended, downs>>
vars == <<scope, redis, telegram, requests, at, call, handle, todo, poller, server,
          flags, tried, troubled, ends, posts, faults>>

mode == scope.mode

NoGroup   == -1
NoRequest == [m |-> "none", n |-> 0]
Idle == [step |-> "idle", req |-> NoRequest, wire |-> NoRequest, got |-> <<>>,
         bad |-> FALSE, troubled |-> FALSE]

Positions(s) == {s[k] : k \in DOMAIN s}
NoFault == UNCHANGED faults
Fault   == faults < scope.faults /\ faults' = faults + 1

\* The threads of a process as main finds it.
Unspawned == [t \in Threads |-> IF t = "main" THEN "spawn" ELSE "off"]
NoCalls   == [c \in Callers |-> Idle]
NoBatches == [l \in Loops |-> <<>>]

Init ==
    /\ scope \in Scopes
    /\ stream = [l \in Loops |-> <<>>] /\ groupStart = [l \in Loops |-> NoGroup]
    /\ delivered = [l \in Loops |-> 0] /\ pending = [l \in Loops |-> {}]
    /\ updates = 0 /\ confirmed = 0 /\ received = <<>> /\ requests = 0
    /\ at = Unspawned /\ call = NoCalls /\ url = NoRequest /\ out = "main" /\ busy = FALSE
    /\ todo = NoBatches /\ batch = <<>> /\ offset = 0
    /\ server = "none" /\ signalled = FALSE /\ polling = FALSE /\ consuming = FALSE
    /\ handled = {} /\ tried = <<>> /\ troubled = {}
    /\ killed = FALSE /\ ended = "no" /\ posts = 0 /\ faults = 0 /\ downs = 0

Goto(t, label) == at' = [at EXCEPT ![t] = label]

-----------------------------------------------------------------------------
(* make_request on the shared handle.                                      *)

Active(c) == call[c].step \in {"perform", "wait"}
Overlapped(c) == [call[c] EXCEPT !.troubled = @ \/ Active(c)]

\* A thread enters make_request and sets the URL; from here on its call meets
\* all others.
Begin(c, m, n) ==
    /\ url' = [m |-> m, n |-> n]
    /\ call' = [d \in Callers |->
          IF d # c THEN Overlapped(d)
          ELSE [Idle EXCEPT !.step = "perform", !.req = [m |-> m, n |-> n],
                            !.troubled = \E e \in Callers : Active(e)]]
NoCall == UNCHANGED <<url, call>>
Return(c) == call' = [call EXCEPT ![c] = Idle] /\ UNCHANGED url

\* Mutant of Perform: the library performs a handle twice at once.
PerformTwice(c) ==
    /\ call[c].step = "perform"
    /\ out' = c /\ busy' = TRUE
    /\ call' = [call EXCEPT ![c].step = "wait", ![c].wire = url]
    /\ UNCHANGED <<url, telegram, faults>>

\* WRITEDATA and curl_easy_perform, which takes the URL of the last thread that
\* set one, and fails at once on a handle that is being performed.
Perform(c) ==
    /\ call[c].step = "perform"
    /\ out' = c
    /\ IF busy
       THEN call' = [call EXCEPT ![c].step = "done", ![c].bad = TRUE] /\ UNCHANGED busy
       ELSE call' = [call EXCEPT ![c].step = "wait", ![c].wire = url] /\ busy' = TRUE
    /\ UNCHANGED <<url, telegram, faults>>

\* Mutant of Confirms: an update counts as confirmed once it is asked for.
ConfirmsAsked(w) == IF w.m = "updates" /\ w.n > confirmed THEN w.n ELSE confirmed

\* getUpdates with an offset confirms the updates below it.
Confirms(w) == IF w.m = "updates" /\ w.n > confirmed + 1 THEN w.n - 1 ELSE confirmed

\* What Telegram answers: "updates" with those not confirmed, or "other",
\* which has "ok" but no list of updates.
AnswerTo(w) ==
    [m |-> IF w.m = "updates" THEN "updates" ELSE "other",
     from |-> Confirms(w) + 1, to |-> IF w.m = "updates" THEN updates ELSE Confirms(w)]
Odd == [m |-> "odd", from |-> 0, to |-> 0]   \* an answer without "ok"

TakesEffect(w) ==
    /\ confirmed' = Confirms(w)
    /\ received' = IF w.m = "alert" THEN Append(received, w.n) ELSE received
NoEffect == UNCHANGED <<confirmed, received>>

\* The answer goes to the string set last, if its call still runs.
Answer(c) ==
    /\ call[c].step = "wait"
    /\ LET w == call[c].wire
           Written(a) == IF Active(out) THEN [call EXCEPT ![out].got = Append(@, a)] ELSE call
           Done(k)    == [k EXCEPT ![c].step = "done"]
           Failed(k)  == [Done(k) EXCEPT ![c].troubled = TRUE]
       IN  \/ NoFault /\ TakesEffect(w) /\ call' = Done(Written(AnswerTo(w)))
           \/ /\ Fault /\ (TakesEffect(w) \/ NoEffect)
              /\ \/ call' = Failed([call EXCEPT ![c].bad = TRUE])
                 \/ call' = Failed(Written(Odd))
    /\ busy' = FALSE
    /\ UNCHANGED <<url, out, updates>>

\* What make_request returns: "odd" makes its callers throw.
Result(c) == IF call[c].bad \/ Len(call[c].got) # 1 THEN "bad" ELSE call[c].got[1].m

CallStep(c) ==
    /\ ended = "no" /\ (Perform(c) \/ Answer(c))
    /\ UNCHANGED <<scope, redis, requests, at, todo, poller, server, flags, tried,
                   troubled, ends, posts>>

\* The alerts in trouble, that of the running call included.
Troubled == troubled \cup (IF call["alert"].troubled THEN {call["alert"].req.n} ELSE {})

-----------------------------------------------------------------------------
(* The consumer loops (main.cpp:44-129).                                   *)

Kind(l) == stream[l][Head(todo[l])]

\* Mutant of CreateGroup: a start makes the group anew at the first entry.
CreateGroupAtZero(l) ==
    /\ groupStart' = [groupStart EXCEPT ![l] = 0]
    /\ delivered' = [delivered EXCEPT ![l] = 0]

\* XGROUP CREATE at "$"; that the group exists is an error like any other.
CreateGroup(l) ==
    IF groupStart[l] # NoGroup THEN UNCHANGED <<groupStart, delivered>>
    ELSE /\ groupStart' = [groupStart EXCEPT ![l] = Len(stream[l])]
         /\ delivered' = [delivered EXCEPT ![l] = Len(stream[l])]

LoopStarts(l) ==
    /\ at[l] = "start"
    /\ \/ NoFault /\ CreateGroup(l)
       \/ Fault /\ (CreateGroup(l) \/ UNCHANGED <<groupStart, delivered>>)
    /\ Goto(l, "read")
    /\ NoCall /\ UNCHANGED <<pending, todo, tried, troubled>>

\* The new positions that XREADGROUP ">" hands out.
NewPositions(l) ==
    LET n == Len(stream[l]) - delivered[l]
    IN  [k \in 1 .. (IF n < MaxRead THEN n ELSE MaxRead) |-> delivered[l] + k]

\* An answer that is lost on the way leaves its entries pending.
LoopReads(l) ==
    /\ at[l] = "read" /\ consuming
    /\ groupStart[l] # NoGroup /\ Len(stream[l]) > delivered[l]
    /\ delivered' = [delivered EXCEPT ![l] = @ + Len(NewPositions(l))]
    /\ pending' = [pending EXCEPT ![l] = @ \cup Positions(NewPositions(l))]
    /\ \/ NoFault /\ todo' = [todo EXCEPT ![l] = NewPositions(l)] /\ Goto(l, "entry")
       \/ Fault /\ UNCHANGED <<todo, at>>
    /\ NoCall /\ UNCHANGED <<groupStart, tried, troubled>>

\* Mutant of LoopEnds: the flag is looked at before each entry.
LoopEndsAnywhere(l) ==
    /\ at[l] \in {"read", "entry"} /\ ~consuming
    /\ Goto(l, "ended")
    /\ NoCall /\ UNCHANGED <<groupStart, delivered, pending, todo, tried, troubled, faults>>

\* The flag is looked at between batches.
LoopEnds(l) ==
    /\ at[l] = "read" /\ ~consuming
    /\ Goto(l, "ended")
    /\ NoCall /\ UNCHANGED <<groupStart, delivered, pending, todo, tried, troubled, faults>>

\* The loop goes on to the next entry of the batch.
NextEntry(l) ==
    /\ todo' = [todo EXCEPT ![l] = Tail(@)]
    /\ Goto(l, IF Tail(todo[l]) = <<>> THEN "read" ELSE "entry")

\* Mutant of LoopEntry: alerts are acknowledged before they are sent.
LoopEntryAckFirst(l) ==
    /\ at[l] = "entry"
    /\ IF l = "alert" /\ Kind(l) = "plain"
       THEN /\ Begin("alert", "alert", Head(todo[l])) /\ Goto(l, "send")
            /\ tried' = Append(tried, Head(todo[l]))
            /\ pending' = [pending EXCEPT ![l] = @ \ {Head(todo[l])}] /\ UNCHANGED todo
       ELSE Goto(l, "ack") /\ NoCall /\ UNCHANGED <<todo, tried, pending>>
    /\ UNCHANGED <<groupStart, delivered, troubled, faults>>

\* What is no object stays pending.  Alerts to the owner are sent; all else,
\* replies above all, is only acknowledged.
LoopEntry(l) ==
    /\ at[l] = "entry"
    /\ \/ Kind(l) = "odd" /\ NextEntry(l) /\ NoCall /\ UNCHANGED tried
       \/ /\ l = "alert" /\ Kind(l) = "plain"
          /\ Begin("alert", "alert", Head(todo[l])) /\ Goto(l, "send")
          /\ tried' = Append(tried, Head(todo[l])) /\ UNCHANGED todo
       \/ /\ Kind(l) # "odd" /\ ~(l = "alert" /\ Kind(l) = "plain")
          /\ Goto(l, "ack") /\ NoCall /\ UNCHANGED <<todo, tried>>
    /\ UNCHANGED <<groupStart, delivered, pending, troubled, faults>>

\* send_message's result is ignored; only an answer without "ok" throws.
AlertSent ==
    /\ at["alert"] = "send" /\ call["alert"].step = "done"
    /\ IF Result("alert") = "odd" THEN NextEntry("alert")
       ELSE Goto("alert", "ack") /\ UNCHANGED todo
    /\ Return("alert") /\ troubled' = Troubled
    /\ UNCHANGED <<groupStart, delivered, pending, tried, faults>>

\* ack_message logs its failure only.
LoopAcks(l) ==
    /\ at[l] = "ack"
    /\ LET acked == [pending EXCEPT ![l] = @ \ {Head(todo[l])}]
       IN  \/ NoFault /\ pending' = acked
           \/ Fault /\ pending' \in {pending, acked}
    /\ NextEntry(l)
    /\ NoCall /\ UNCHANGED <<groupStart, delivered, tried, troubled>>

LoopStep(l) ==
    /\ ended = "no"
    /\ \/ LoopStarts(l) \/ LoopReads(l) \/ LoopEnds(l) \/ LoopEntry(l) \/ LoopAcks(l)
       \/ l = "alert" /\ AlertSent
    /\ UNCHANGED <<scope, stream, telegram, requests, out, busy, poller, server, flags, ends, posts>>

-----------------------------------------------------------------------------
(* The poll thread (poller.cpp:40-66).                                     *)

PollAsks ==
    /\ at["poll"] = "ask" /\ polling
    /\ Begin("poll", "updates", offset + 1) /\ Goto("poll", "asked")
    /\ UNCHANGED <<poller, faults>>

PollEnds ==
    /\ at["poll"] = "ask" /\ ~polling
    /\ Goto("poll", "ended")
    /\ NoCall /\ UNCHANGED <<poller, faults>>

\* Without a list of updates the loop sleeps, or throws, and asks again.  (An
\* object in "result", which is another call's message, is read beyond its end:
\* if the process survives that, it throws too.)
PollAnswered ==
    /\ at["poll"] = "asked" /\ call["poll"].step = "done"
    /\ IF Result("poll") = "updates"
       THEN LET a == call["poll"].got[1]
            IN  batch' = [k \in 1 .. a.to - a.from + 1 |-> a.from + k - 1]
       ELSE batch' = <<>>
    /\ Goto("poll", IF batch' = <<>> THEN "ask" ELSE "update")
    /\ Return("poll")
    /\ UNCHANGED <<offset, handled, faults>>

\* process_update returned: the position moves on.
Advance ==
    /\ handled' = handled \cup {Head(batch)}
    /\ offset' = IF Head(batch) >= offset THEN Head(batch) ELSE offset
    /\ batch' = Tail(batch)
    /\ Goto("poll", IF Tail(batch) = <<>> THEN "ask" ELSE "update")

\* An exception: the rest of the batch is dropped.
GiveUp == batch' = <<>> /\ Goto("poll", "ask") /\ UNCHANGED <<offset, handled>>

PollUpdate ==
    /\ at["poll"] = "update"
    /\ \/ /\ Head(batch) \in Noticed
          /\ Begin("poll", "notice", Head(batch)) /\ Goto("poll", "notice")
          /\ UNCHANGED <<poller, faults>>
       \/ /\ Head(batch) \notin Noticed /\ NoCall
          /\ \/ NoFault /\ Advance
             \/ Fault /\ GiveUp

PollNoticed ==
    /\ at["poll"] = "notice" /\ call["poll"].step = "done"
    /\ IF Result("poll") = "odd" THEN GiveUp ELSE Advance
    /\ Return("poll") /\ UNCHANGED faults

PollStep ==
    /\ ended = "no" /\ (PollAsks \/ PollEnds \/ PollAnswered \/ PollUpdate \/ PollNoticed)
    /\ UNCHANGED <<scope, redis, telegram, requests, out, busy, todo, server, flags, tried,
                   troubled, ends, posts>>

-----------------------------------------------------------------------------
(* The HTTP server (webhook_server.cpp): it runs in both modes.            *)

ServerListens ==
    /\ server = "spawned" /\ server' = "listening" /\ Goto("http", "idle")
    /\ NoCall /\ UNCHANGED <<requests, posts, faults>>

\* listen() returns when the server was stopped and its handlers are done.
ServerEnds ==
    /\ server = "stopping" /\ at["http"] = "idle"
    /\ server' = "ended"
    /\ NoCall /\ UNCHANGED <<requests, at, posts, faults>>

\* A POST that is answered with a message (no rate left, not authorised).
HttpRefuses ==
    /\ server = "listening" /\ at["http"] = "idle" /\ posts < scope.posts
    /\ posts' = posts + 1
    /\ Begin("http", "notice", 0) /\ Goto("http", "notice")
    /\ UNCHANGED <<requests, server, faults>>

HttpRefused ==
    /\ at["http"] = "notice" /\ call["http"].step = "done"
    /\ Return("http") /\ Goto("http", "idle")
    /\ UNCHANGED <<requests, server, posts, faults>>

\* A POST whose command is published; an exception is answered with 500.
HttpPublishes ==
    /\ server = "listening" /\ at["http"] = "idle" /\ posts < scope.posts
    /\ posts' = posts + 1
    /\ \/ NoFault /\ requests' = requests + 1
       \/ Fault /\ requests' \in {requests, requests + 1}
    /\ NoCall /\ UNCHANGED <<at, server>>

ServerStep ==
    /\ ended = "no"
    /\ ServerListens \/ ServerEnds \/ HttpRefuses \/ HttpRefused \/ HttpPublishes
    /\ UNCHANGED <<scope, redis, telegram, out, busy, todo, poller, flags, tried, troubled,
                   ends>>

-----------------------------------------------------------------------------
(* main (main.cpp:131-235).                                                *)

MainSpawns ==
    /\ at["main"] = "spawn"
    /\ consuming' = TRUE
    /\ at' = [at EXCEPT !["reply"] = "start", !["alert"] = "start", !["main"] = "hook"]
    /\ NoCall /\ UNCHANGED <<server, signalled, polling, ends>>

\* delete_webhook in poll mode, set_webhook in webhook mode.
MainHooks ==
    /\ at["main"] = "hook"
    /\ Begin("main", "hook", 0) /\ Goto("main", "hooked")
    /\ UNCHANGED <<server, flags, ends>>

\* Mutant of HookFails: poll mode too insists on the answer.
HookFailsStrictly == Result("main") \in {"odd", "bad"}

\* Poll mode ignores the answer, unless reading it throws.
HookFails ==
    \/ Result("main") = "odd"
    \/ mode = "webhook" /\ Result("main") = "bad"

\* The exception leaves the block of two joinable threads: std::terminate.
MainAborts ==
    /\ at["main"] = "hooked" /\ call["main"].step = "done" /\ HookFails
    /\ ended' = "abort" /\ killed' = TRUE /\ Goto("main", "down")
    /\ NoCall /\ UNCHANGED <<server, flags, downs>>

MainServes ==
    /\ at["main"] = "hooked" /\ call["main"].step = "done" /\ ~HookFails
    /\ Return("main") /\ server' = "spawned" /\ polling' = (mode = "poll")
    /\ at' = [at EXCEPT !["main"] = "serve", !["poll"] = IF mode = "poll" THEN "ask" ELSE @]
    /\ UNCHANGED <<signalled, consuming, ends>>

\* Mutant of MainStops: the poller is told to stop and not waited for.
MainStopsDetaching ==
    /\ at["main"] = "serve" /\ signalled
    /\ polling' = FALSE /\ Goto("main", "stopServer")
    /\ NoCall /\ UNCHANGED <<server, signalled, consuming, ends>>

MainStops ==
    /\ at["main"] = "serve" /\ signalled
    /\ polling' = FALSE /\ Goto("main", IF mode = "poll" THEN "joinPoll" ELSE "stopServer")
    /\ NoCall /\ UNCHANGED <<server, signalled, consuming, ends>>

MainJoinsPoller ==
    /\ at["main"] = "joinPoll" /\ at["poll"] = "ended"
    /\ Goto("main", "stopServer")
    /\ NoCall /\ UNCHANGED <<server, flags, ends>>

\* stop() of an httplib server that does not listen yet does nothing.
MainStopsServer ==
    /\ at["main"] = "stopServer"
    /\ server' = IF server = "listening" THEN "stopping" ELSE server
    /\ Goto("main", "joinServer")
    /\ NoCall /\ UNCHANGED <<flags, ends>>

\* Mutant of MainStopsConsumers: the threads are joined, then told to stop.
MainForgetsConsumers ==
    /\ at["main"] = "joinServer" /\ server = "ended"
    /\ Goto("main", "join")
    /\ NoCall /\ UNCHANGED <<server, flags, ends>>

MainStopsConsumers ==
    /\ at["main"] = "joinServer" /\ server = "ended"
    /\ consuming' = FALSE /\ Goto("main", "join")
    /\ NoCall /\ UNCHANGED <<server, signalled, polling, ends>>

MainExits ==
    /\ at["main"] = "join" /\ \A l \in Loops : at[l] = "ended"
    /\ ended' = "exit" /\ Goto("main", "down")
    /\ NoCall /\ UNCHANGED <<server, flags, killed, downs>>

MainStep ==
    /\ ended = "no"
    /\ \/ MainSpawns \/ MainHooks \/ MainAborts \/ MainServes \/ MainStops
       \/ MainJoinsPoller \/ MainStopsServer \/ MainStopsConsumers \/ MainExits
    /\ UNCHANGED <<scope, redis, telegram, requests, out, busy, todo, poller, tried, troubled,
                   posts, faults>>

-----------------------------------------------------------------------------
(* The environment.                                                        *)

\* Analytics, the notifier and the portfolio service publish.
Publish(l) ==
    /\ Len(stream[l]) < Len(scope.script[l])
    /\ stream' = [stream EXCEPT ![l] = Append(@, scope.script[l][Len(@) + 1])]
    /\ UNCHANGED <<scope, groupStart, delivered, pending, telegram, requests, at, call, handle,
                   todo, poller, server, flags, tried, troubled, ends, posts, faults>>

\* With a webhook Telegram delivers by POST instead.
Update ==
    /\ mode = "poll" /\ updates < scope.updates /\ updates' = updates + 1
    /\ UNCHANGED <<scope, redis, confirmed, received, requests, at, call, handle, todo,
                   poller, server, flags, tried, troubled, ends, posts, faults>>

\* SIGTERM or SIGINT after the handlers are installed.
Signal ==
    /\ ended = "no" /\ ~signalled /\ downs < scope.downs
    /\ signalled' = TRUE
    /\ UNCHANGED <<scope, redis, telegram, requests, at, call, handle, todo, poller, server,
                   polling, consuming, tried, troubled, ends, posts, faults>>

\* A new process, after a crash or after the last one ended.
Restart ==
    /\ downs < scope.downs /\ downs' = downs + 1
    /\ \/ ended # "no" /\ UNCHANGED killed
       \/ ended = "no" /\ at["main"] # "spawn" /\ killed' = TRUE
    /\ ended' = "no" /\ troubled' = Troubled
    /\ at' = Unspawned /\ call' = NoCalls /\ url' = NoRequest /\ out' = "main" /\ busy' = FALSE
    /\ todo' = NoBatches /\ batch' = <<>> /\ offset' = 0
    /\ server' = "none" /\ signalled' = FALSE /\ polling' = FALSE /\ consuming' = FALSE
    /\ UNCHANGED <<scope, redis, telegram, requests, handled, tried, posts, faults>>

Environment == (\E l \in Loops : Publish(l)) \/ Update \/ Signal

Next ==
    \/ \E c \in Callers : CallStep(c)
    \/ \E l \in Loops : LoopStep(l)
    \/ PollStep \/ ServerStep \/ MainStep \/ Environment \/ Restart

Spec == Init /\ [][Next]_vars

\* Every thread is scheduled, and a call of the CURL library ends (its timeout
\* is 30 s).  No client need ever write.
Fairness ==
    /\ \A c \in Callers : WF_vars(CallStep(c))
    /\ \A l \in Loops : WF_vars(LoopStep(l))
    /\ WF_vars(PollStep) /\ WF_vars(MainStep)
    /\ WF_vars(ServerStep /\ posts' = posts)
FairSpec == Spec /\ Fairness

-----------------------------------------------------------------------------
(* Properties.                                                             *)

Times(k) == Cardinality({j \in DOMAIN received : received[j] = k})
Handed(l, k) == groupStart[l] # NoGroup /\ groupStart[l] < k /\ k <= delivered[l]

\* Every variable has its type, and only one call is inside the handle.
TypeOK ==
    /\ scope \in Scopes
    /\ \A l \in Loops :
          /\ stream[l] \in Seq(Kinds)
          /\ groupStart[l] \in {NoGroup} \cup 0 .. Len(stream[l])
          /\ delivered[l] \in 0 .. Len(stream[l])
          /\ pending[l] \subseteq 1 .. delivered[l]
          /\ Positions(todo[l]) \subseteq pending[l]
    /\ updates \in Nat /\ confirmed \in 0 .. updates /\ requests \in 0 .. posts
    /\ Positions(received) \cup Positions(tried) \cup troubled \subseteq 1 .. delivered["alert"]
    /\ Cardinality({c \in Callers : call[c].step = "wait"}) = IF busy THEN 1 ELSE 0
    /\ \A c \in Callers : Len(call[c].got) <= Cardinality(Callers)
    /\ offset \in 0 .. updates /\ handled \subseteq 1 .. updates
    /\ server \in {"none", "spawned", "listening", "stopping", "ended"}
    /\ ended \in {"no", "exit", "abort"}

\* An alert to the owner whose call neither failed nor met another call on the
\* handle arrives at most once, and once it is acknowledged it has arrived
\* (main.cpp:109-115, telegram_client.cpp:57-60).
AlertsAccounted ==
    \A k \in DOMAIN stream["alert"] :
        (stream["alert"][k] = "plain" /\ k \notin Troubled) =>
            /\ Times(k) <= 1
            /\ Handed("alert", k) /\ k \notin pending["alert"] => Times(k) = 1

\* Whatever the threads do to the handle, Telegram forgets an update only after
\* the poll thread has handled it (poller.cpp:43, 56).
UpdatesSurvive == 1 .. confirmed \subseteq handled

\* A process that exits has joined all its threads, no call is under way, and
\* while nothing failed it owes the groups nothing but what is no object
\* (main.cpp:199-230).
CleanEnd ==
    ended = "exit" =>
        /\ at["poll"] \in {"off", "ended"} /\ server = "ended"
        /\ \A c \in Callers : ~Active(c)
        /\ (faults = 0 /\ ~killed) =>
              \A l \in Loops : \A k \in pending[l] : stream[l][k] = "odd"

\* main dies with its threads unjoined only if the call about the webhook
\* failed or met an alert on the handle; in poll mode it must have failed
\* (main.cpp:178, 206-208).
AbortHasCause ==
    ended = "abort" => call["main"].troubled /\ (mode = "poll" => faults > 0)

\* The alert consumer implements AtMostOnce: its effect is the attempt to send,
\* which no failure or restart makes it repeat (main.cpp:100-120).
Log == INSTANCE AtMostOnce WITH
    published <- Len(stream["alert"]), handed <- delivered["alert"],
    held <- Positions(todo["alert"]), effects <- tried
AlertsAtMostOnce == Log!Spec

\* The server was told to stop before it listened: nobody tells it again.
StopLost == at["main"] = "joinServer" /\ server \in {"spawned", "listening"}

\* A signal ends the process, unless the server's stop was lost (main.cpp:188,
\* 199-227).
ShutdownEnds == signalled ~> (~signalled \/ ended # "no" \/ StopLost)
=============================================================================
