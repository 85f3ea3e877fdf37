------------------------------ MODULE Portfolio ------------------------------
(***************************************************************************)
(* The portfolio service's command consumer (portfolio/src/main.cpp): one  *)
(* thread reads commands from the request stream with a consumer group,    *)
(* runs a handler, which writes to Postgres and to Redis in several        *)
(* transactions, and acknowledges the command whatever the handler did.    *)
(*                                                                         *)
(* One action is one call that leaves the process: a transaction, an XADD, *)
(* an XREADGROUP, an XACK.  Each may fail without effect, or take effect   *)
(* and fail on its way back; MaxFaults bounds these failures, MaxRestarts  *)
(* how often the process goes down, MaxRequests the commands published.    *)
(***************************************************************************)
EXTENDS Integers, Sequences, FiniteSets

CONSTANTS
    Users,        \* Telegram users
    Requests,     \* what the gateway may publish: [user, role, cmd, arg]
    Addresses,    \* the arguments is_valid_solana_address accepts
    NoArg,        \* the argument of a command given without one
    MaxRead,      \* COUNT of read_commands
    MaxRequests, MaxFaults, MaxRestarts

ASSUME RequestsAssumption ==
    \A r \in Requests : r.user \in Users /\ r.role \in {"owner", "guest"}
ASSUME ArgsAssumption == NoArg \notin Addresses
ASSUME LimitsAssumption ==
    /\ MaxRead \in Nat \ {0}
    /\ MaxRequests \in Nat /\ MaxFaults \in Nat /\ MaxRestarts \in Nat

NoRow == "norow"   \* a user who has no row in the users table

VARIABLES
    requests,    \* Redis: the request stream
    hasGroup,    \* Redis: the group "portfolio" exists
    delivered,   \* Redis: the group's last delivered position
    pending,     \* Redis: delivered positions not acknowledged
    replies,     \* Redis: the reply stream, [pos, ok]
    audits,      \* Redis: positions with an audit event
    users,       \* Postgres: users, the role of each user's row
    wallets,     \* Postgres: wallets, address -> [id, owner, active]
    nextId,      \* Postgres: the next value of the sequence of wallets.id
    snapshots,   \* Postgres: portfolio_snapshots with their holding_values
    pc,          \* the consumer thread's next call, "down" without a process
    running,     \* consumer_running
    todo,        \* positions read and not yet handled, the current one first
    ok,          \* the "ok" of the reply the handler is about to publish
    found,       \* wallets: what get_active_wallets returned
    applied,     \* history: positions whose wallet change was committed
    done,        \* history: positions whose handler returned and loop went on
    burned,      \* history: ids drawn for a row that was rolled back
    faults,      \* failed calls so far
    hurt,        \* history: positions in hand when a call failed
    downs        \* how often the process went down

group    == <<hasGroup, delivered, pending>>
ids      == <<nextId, burned>>
database == <<users, wallets, ids, snapshots>>
handler  == <<ok, found>>
failures == <<faults, hurt>>
vars     == <<requests, group, replies, audits, database, pc, running, todo, handler,
              applied, done, failures, downs>>

Positions(s) == {s[k] : k \in DOMAIN s}

Init ==
    /\ requests = <<>> /\ hasGroup = FALSE /\ delivered = 0 /\ pending = {}
    /\ replies = <<>> /\ audits = {}
    /\ users = [u \in Users |-> NoRow]
    /\ wallets = <<>> /\ nextId = 1 /\ snapshots = <<>>
    /\ pc = "start" /\ running = TRUE /\ todo = <<>>
    /\ ok = FALSE /\ found = {} /\ burned = {}
    /\ applied = <<>> /\ done = {} /\ faults = 0 /\ hurt = {} /\ downs = 0

\* The command in hand.
request == requests[Head(todo)]

NoFault == UNCHANGED failures
Fault   == /\ faults < MaxFaults /\ faults' = faults + 1
           /\ hurt' = hurt \cup (IF todo = <<>> THEN {} ELSE {Head(todo)})

\* What a rolled back transaction drew from the sequence is gone.
Burn == burned' = burned \cup (nextId .. nextId' - 1)

-----------------------------------------------------------------------------
(* Outside the consumer thread.                                            *)

\* The gateway publishes a command (external).
Request(r) ==
    /\ Len(requests) < MaxRequests
    /\ requests' = Append(requests, r)
    /\ UNCHANGED <<group, replies, audits, database, pc, running, todo, handler,
                   applied, done, failures, downs>>

\* SIGTERM: main clears consumer_running and joins the thread.
Stop ==
    /\ pc # "down" /\ running /\ downs < MaxRestarts
    /\ running' = FALSE
    /\ UNCHANGED <<requests, group, replies, audits, database, pc, todo, handler,
                   applied, done, failures, downs>>

\* A crash inside an insert rolls the row back, but not the id it drew.
Crash ==
    /\ pc # "down" /\ downs < MaxRestarts
    /\ \/ UNCHANGED nextId
       \/ pc = "change" /\ request.cmd = "add_wallet" /\ nextId' = nextId + 1
    /\ Burn
    /\ pc' = "down" /\ todo' = <<>> /\ downs' = downs + 1
    /\ ok' = FALSE /\ found' = {}
    /\ UNCHANGED <<requests, group, replies, audits, users, wallets, snapshots, running,
                   applied, done, failures>>

Restart ==
    /\ pc = "down"
    /\ pc' = "start" /\ running' = TRUE
    /\ UNCHANGED <<requests, group, replies, audits, database, todo, handler,
                   applied, done, failures, downs>>

-----------------------------------------------------------------------------
(* The consumer loop.                                                      *)

\* Mutants of CreateGroup: the group starts one past the end; every start
\* makes the group anew from the head of the stream.
CreateGroupPastEnd ==
    hasGroup' = TRUE /\ delivered' = IF hasGroup THEN delivered ELSE Len(requests) + 1
CreateGroupAtZero == hasGroup' = TRUE /\ delivered' = 0

\* XGROUP CREATE at "$": what is in the stream already is not for the group.
CreateGroup ==
    hasGroup' = TRUE /\ delivered' = IF hasGroup THEN delivered ELSE Len(requests)

\* Mutant of Start: "group exists" is taken for a failure and tried again.
StartRetrying ==
    /\ pc = "start"
    /\ NoFault /\ CreateGroup
    /\ pc' = IF hasGroup THEN "start" ELSE "read"
    /\ UNCHANGED <<requests, pending, replies, audits, database, running, todo,
                   handler, applied, done, downs>>

\* create_consumer_group swallows every error; it is not tried again.
Start ==
    /\ pc = "start"
    /\ \/ NoFault /\ CreateGroup
       \/ Fault /\ CreateGroup
       \/ Fault /\ UNCHANGED <<hasGroup, delivered>>
    /\ pc' = "read"
    /\ UNCHANGED <<requests, pending, replies, audits, database, running, todo,
                   handler, applied, done, downs>>

\* The positions XREADGROUP ">" hands out: only new ones, never the pending.
NewPositions ==
    LET n == IF Len(requests) - delivered < MaxRead
             THEN Len(requests) - delivered ELSE MaxRead
    IN  [k \in 1 .. n |-> delivered + k]

\* An answer that is lost leaves its commands delivered, and with nobody.
ReadCommands ==
    /\ pc = "read" /\ running /\ hasGroup /\ Len(requests) > delivered
    /\ delivered' = delivered + Len(NewPositions)
    /\ pending' = pending \cup Positions(NewPositions)
    /\ \/ NoFault /\ todo' = NewPositions /\ pc' = "dispatch"
       \/ Fault /\ UNCHANGED <<todo, pc>>
    /\ UNCHANGED <<requests, hasGroup, replies, audits, database, running, handler,
                   applied, done, downs>>

\* BLOCK runs out, or there is no group: read_commands returns an empty vector.
ReadNothing ==
    /\ pc = "read" /\ running /\ ~(hasGroup /\ Len(requests) > delivered)
    /\ UNCHANGED vars

\* The loop condition is tested between batches, never inside one.
LoopExits ==
    /\ pc = "read" /\ ~running
    /\ pc' = "down" /\ downs' = downs + 1
    /\ UNCHANGED <<requests, group, replies, audits, database, running, todo, handler,
                   applied, done, failures>>

\* Mutants of Ack: only the last command of a batch is acknowledged; an
\* acknowledgement covers all earlier positions; a command that could not be
\* acknowledged is handled again.
AckLastOnly ==
    /\ pc = "ack" /\ NoFault
    /\ pending' = IF Len(todo) = 1 THEN pending \ {Head(todo)} ELSE pending
    /\ todo' = Tail(todo) /\ done' = done \cup {Head(todo)}
    /\ pc' = IF Tail(todo) = <<>> THEN "read" ELSE "dispatch"
    /\ ok' = FALSE /\ found' = {}
    /\ UNCHANGED <<requests, hasGroup, delivered, replies, audits, database, running,
                   applied, downs>>
AckUpTo ==
    /\ pc = "ack" /\ NoFault
    /\ pending' = pending \ (1 .. Head(todo))
    /\ todo' = Tail(todo) /\ done' = done \cup {Head(todo)}
    /\ pc' = IF Tail(todo) = <<>> THEN "read" ELSE "dispatch"
    /\ ok' = FALSE /\ found' = {}
    /\ UNCHANGED <<requests, hasGroup, delivered, replies, audits, database, running,
                   applied, downs>>

AckOrRetry ==
    /\ pc = "ack"
    /\ \/ NoFault /\ pending' = pending \ {Head(todo)}
          /\ todo' = Tail(todo) /\ done' = done \cup {Head(todo)}
          /\ pc' = IF Tail(todo) = <<>> THEN "read" ELSE "dispatch"
       \/ Fault /\ pc' = "dispatch" /\ UNCHANGED <<pending, todo, done>>
    /\ ok' = FALSE /\ found' = {}
    /\ UNCHANGED <<requests, hasGroup, delivered, replies, audits, database, running,
                   applied, downs>>

\* xack, whose failure is logged only; then the next command of the batch.
Ack ==
    /\ pc = "ack"
    /\ \/ NoFault /\ pending' = pending \ {Head(todo)}
       \/ Fault /\ pending' \in {pending, pending \ {Head(todo)}}
    /\ todo' = Tail(todo) /\ done' = done \cup {Head(todo)}
    /\ pc' = IF Tail(todo) = <<>> THEN "read" ELSE "dispatch"
    /\ ok' = FALSE /\ found' = {}
    /\ UNCHANGED <<requests, hasGroup, delivered, replies, audits, database, running,
                   applied, downs>>

-----------------------------------------------------------------------------
(* The handlers.                                                           *)

Goto(label) == pc' = label

\* The catch block of every handler: no reply, and on to the XACK.
Caught == Fault /\ Goto("ack")

\* Dispatch on cmd and the checks that need no call: role, argument, address.
Refused(r) ==
    \/ r.cmd \in {"add_wallet", "remove_wallet"} /\ (r.role # "owner" \/ r.arg = NoArg)
    \/ r.cmd = "add_wallet" /\ r.arg \notin Addresses

\* Mutant of Dispatch: a refused command is dropped without a reply.
DispatchSilently ==
    /\ pc = "dispatch"
    /\ Goto(CASE request.cmd \notin {"balance", "holdings", "add_wallet", "remove_wallet"} -> "ack"
              [] Refused(request)              -> "ack"
              [] request.cmd = "remove_wallet" -> "change"
              [] OTHER                         -> "user")
    /\ UNCHANGED <<requests, group, replies, audits, database, running, todo, handler,
                   applied, done, failures, downs>>

Dispatch ==
    /\ pc = "dispatch"
    /\ Goto(CASE request.cmd \notin {"balance", "holdings", "add_wallet", "remove_wallet"} -> "ack"
              [] Refused(request)              -> "reply"
              [] request.cmd = "remove_wallet" -> "change"
              [] OTHER                         -> "user")
    /\ UNCHANGED <<requests, group, replies, audits, database, running, todo, handler,
                   applied, done, failures, downs>>

\* create_or_get_user: the role of an existing row is overwritten.
GetUser ==
    /\ pc = "user"
    /\ LET stored == [users EXCEPT ![request.user] = request.role]
       IN  \/ /\ NoFault /\ users' = stored
              /\ Goto(IF request.cmd = "add_wallet" THEN "change" ELSE "collect")
           \/ Caught /\ users' \in {users, stored}
    /\ UNCHANGED <<requests, group, replies, audits, wallets, ids, snapshots,
                   running, todo, handler, applied, done, downs>>

Active(u) == {a \in DOMAIN wallets : wallets[a].active /\ wallets[a].owner = u}

\* get_active_wallets reads errors as "none"; then the token accounts of each
\* wallet and their prices.  Every mint is called UNKNOWN, which CoinGecko does
\* not list, and the DEX clients find nothing: no holding is priced and the
\* summary lists none.  An answer of CoinGecko whose price is no number throws.
Collect ==
    /\ pc = "collect"
    /\ \/ /\ \/ NoFault /\ found' = Active(request.user)
             \/ Fault /\ found' = {}
          /\ ok' = (found' # {})
          /\ Goto(IF found' # {} /\ request.cmd = "balance" THEN "snapshot" ELSE "reply")
       \/ /\ Caught /\ found' = Active(request.user) /\ found' # {}
          /\ UNCHANGED ok
    /\ UNCHANGED <<requests, group, replies, audits, database, running, todo, applied, done, downs>>

\* save_snapshot for wallet 1, a transaction of its own.  Without a wallet of
\* that id the foreign key refuses it, and the handler gives up.
SnapshotWallet == 1
HasId(id) == \E a \in DOMAIN wallets : wallets[a].id = id

SaveSnapshot ==
    /\ pc = "snapshot"
    /\ LET saved == Append(snapshots, [pos |-> Head(todo), wallet |-> SnapshotWallet,
                                       of |-> found, rows |-> FALSE])
       IN  \/ HasId(SnapshotWallet) /\ NoFault /\ snapshots' = saved /\ Goto("holdings")
           \/ HasId(SnapshotWallet) /\ Caught /\ snapshots' \in {snapshots, saved}
           \/ ~HasId(SnapshotWallet) /\ NoFault /\ UNCHANGED snapshots /\ Goto("ack")
    /\ UNCHANGED <<requests, group, replies, audits, users, wallets, ids, running,
                   todo, handler, applied, done, downs>>

\* save_holdings, a second transaction: no holding, so no row.
SaveHoldings ==
    /\ pc = "holdings"
    /\ LET saved == [snapshots EXCEPT ![Len(snapshots)].rows = TRUE]
       IN  \/ NoFault /\ snapshots' = saved /\ Goto("reply")
           \/ Caught /\ snapshots' \in {snapshots, saved}
    /\ UNCHANGED <<requests, group, replies, audits, users, wallets, ids, running,
                   todo, handler, applied, done, downs>>

-----------------------------------------------------------------------------
(* Adding and removing wallets.                                            *)

\* Mutant of Inserted: ON CONFLICT DO NOTHING.
InsertedOrKept(a, u) ==
    [b \in DOMAIN wallets \cup {a} |->
        IF b \in DOMAIN wallets THEN wallets[b]
        ELSE [id |-> nextId, owner |-> u, active |-> TRUE]]

\* INSERT ... ON CONFLICT (address) DO UPDATE SET is_active = TRUE: a row that
\* exists keeps its id and its owner.
Inserted(a, u) ==
    [b \in DOMAIN wallets \cup {a} |->
        IF b # a THEN wallets[b]
        ELSE IF a \in DOMAIN wallets THEN [wallets[a] EXCEPT !.active = TRUE]
        ELSE [id |-> nextId, owner |-> u, active |-> TRUE]]

\* Mutant of Deactivated: DELETE instead of UPDATE.
Deleted(a) == [b \in DOMAIN wallets \ {a} |-> wallets[b]]

\* UPDATE ... SET is_active = FALSE WHERE address = a, whoever owns it.
Deactivated(a) ==
    [b \in DOMAIN wallets |-> [wallets[b] EXCEPT !.active = (@ /\ b # a)]]

Change(r) == IF r.cmd = "add_wallet" THEN Inserted(r.arg, r.user) ELSE Deactivated(r.arg)

\* add_wallet or remove_wallet.  A transaction that fails may still have
\* drawn an id: a sequence is not rolled back.
ChangeWallet ==
    /\ pc = "change"
    /\ LET drawn == nextId + (IF request.cmd = "add_wallet" THEN 1 ELSE 0)
       IN  \/ /\ NoFault /\ wallets' = Change(request) /\ nextId' = drawn
              /\ applied' = Append(applied, Head(todo))
              /\ ok' = TRUE /\ Goto("audit")
              /\ UNCHANGED burned
           \/ /\ Caught /\ wallets' = Change(request) /\ nextId' = drawn
              /\ applied' = Append(applied, Head(todo))
              /\ UNCHANGED <<burned, ok>>
           \/ /\ Caught /\ nextId' \in {nextId, drawn} /\ Burn
              /\ UNCHANGED <<wallets, applied, ok>>
    /\ UNCHANGED <<requests, group, replies, audits, users, snapshots, running, todo,
                   found, done, downs>>

\* publish_audit logs and swallows its errors.
Audit ==
    /\ pc = "audit"
    /\ \/ NoFault /\ audits' = audits \cup {Head(todo)}
       \/ Fault /\ audits' \in {audits, audits \cup {Head(todo)}}
    /\ Goto("reply")
    /\ UNCHANGED <<requests, group, replies, database, running, todo, handler, applied, done, downs>>

\* publish_reply throws into the handler's catch block.
Reply ==
    /\ pc = "reply"
    /\ LET added == Append(replies, [pos |-> Head(todo), ok |-> ok])
       IN  \/ NoFault /\ replies' = added
           \/ Fault /\ replies' \in {replies, added}
    /\ Goto("ack")
    /\ UNCHANGED <<requests, group, audits, database, running, todo, handler, applied, done, downs>>

-----------------------------------------------------------------------------
Handler == Dispatch \/ GetUser \/ Collect \/ SaveSnapshot \/ SaveHoldings
              \/ ChangeWallet \/ Audit \/ Reply
Consumer == Start \/ ReadCommands \/ ReadNothing \/ LoopExits \/ Ack \/ Handler
Environment == (\E r \in Requests : Request(r)) \/ Stop \/ Crash

Next == Consumer \/ Restart \/ Environment

Spec == Init /\ [][Next]_vars

\* The consumer thread is scheduled, and a stopped process is started again
\* (docker-compose: restart: unless-stopped).
Fairness == WF_vars(Consumer) /\ WF_vars(Restart)
FairSpec == Spec /\ Fairness

-----------------------------------------------------------------------------
(* Properties.                                                             *)

Handled == {"balance", "holdings", "add_wallet", "remove_wallet"}
Calm    == faults = 0 /\ downs = 0
Answered(k) == \E j \in DOMAIN replies : replies[j].pos = k

\* Every variable has its type; a batch in hand is a run of delivered positions.
TypeOK ==
    /\ requests \in Seq(Requests)
    /\ hasGroup \in BOOLEAN /\ delivered \in 0 .. Len(requests)
    /\ pending \subseteq 1 .. delivered /\ Positions(todo) \subseteq pending
    /\ replies \in Seq([pos : 1 .. delivered, ok : BOOLEAN])
    /\ audits \subseteq 1 .. delivered /\ done \subseteq 1 .. delivered
    /\ users \in [Users -> {"owner", "guest", NoRow}]
    /\ \A a \in DOMAIN wallets :
          /\ a \in Addresses
          /\ wallets[a] \in [id : 1 .. nextId - 1, owner : Users, active : BOOLEAN]
    /\ burned \subseteq 1 .. nextId - 1 /\ hurt \subseteq 1 .. delivered
    /\ \A j \in DOMAIN snapshots : snapshots[j] \in
          [pos : 1 .. delivered, wallet : {SnapshotWallet}, of : SUBSET Addresses, rows : BOOLEAN]
    /\ pc \in {"start", "read", "dispatch", "user", "collect", "snapshot", "holdings",
               "change", "audit", "reply", "ack", "down"}
    /\ running \in BOOLEAN /\ ok \in BOOLEAN
    /\ (todo = <<>>) = (pc \in {"start", "read", "down"})

\* Wallet changes are committed in the order of the stream, each at most once,
\* across failures, lost answers and restarts (main.cpp:365 reads only ">").
ChangesInOrder == \A j, k \in DOMAIN applied : j < k => applied[j] < applied[k]

\* The consumer implements AtMostOnce: its effect is the wallet change, and no
\* failure or restart makes it act twice or out of turn (main.cpp:365-389).
Log == INSTANCE AtMostOnce WITH
    published <- Len(requests), handed <- delivered,
    held <- Positions(todo), effects <- applied
ActsAtMostOnce == Log!Spec

\* As long as nothing fails, the group owes nobody: what is pending is what
\* the thread has in hand (main.cpp:368-389 acknowledges the whole batch).
NothingStranded == Calm => pending = Positions(todo)

\* A command that was delivered and is in nobody's hands stays so: no restart
\* picks it up again (main.cpp:365, redis_bus.cpp:31-35).
StrandedForever ==
    [][pending \ Positions(todo) \subseteq pending' \ Positions(todo')]_vars

\* A command that was handled without an answer has a cause of its own: a call
\* failed while it was in hand, or it is a /balance and the id that main.cpp:100
\* takes for the wallet went to an insert that was rolled back.  Failures and
\* restarts around other commands leave no command unanswered (main.cpp:45-346).
SilenceHasCause ==
    \A k \in done : requests[k].cmd \in Handled =>
        \/ Answered(k)
        \/ k \in hurt
        \/ requests[k].cmd = "balance" /\ SnapshotWallet \in burned

\* A reply "ok" is true when it is sent: the wallet is tracked, or is not any
\* more, or the snapshot and its holdings are stored (main.cpp:101-102, 130,
\* 268, 286, 326, 344).
RepliesTrue ==
    [][replies' # replies =>
         LET r == replies'[Len(replies')]
             q == requests[r.pos]
         IN  r.ok =>
               CASE q.cmd = "add_wallet"    -> q.arg \in Active(wallets[q.arg].owner)
                 [] q.cmd = "remove_wallet" -> \A u \in Users : q.arg \notin Active(u)
                 [] q.cmd = "balance"       -> \E j \in DOMAIN snapshots :
                                                 snapshots[j].pos = r.pos /\ snapshots[j].rows
                 [] OTHER                   -> TRUE]_vars

\* Once there is any wallet, the fixed wallet_id of main.cpp:100 meets its
\* foreign key exactly if no insert that drew this id was rolled back, whatever
\* else failed and however often the process was restarted.
WalletOneExists ==
    DOMAIN wallets # {} => (HasId(SnapshotWallet) <=> SnapshotWallet \notin burned)

\* The thread never stays with a command: what is published once the group
\* exists is delivered and leaves the thread's hands.
AllTaken ==
    \A k \in 1 .. MaxRequests :
        (hasGroup /\ Len(requests) >= k) ~> (delivered >= k /\ k \notin Positions(todo))

\* main.cpp:97 "use first wallet for now": a snapshot belongs to one of the
\* wallets it values.
SnapshotOfItsWallet ==
    \A j \in DOMAIN snapshots : \E a \in snapshots[j].of : wallets[a].id = snapshots[j].wallet
=============================================================================
