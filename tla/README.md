# SoulScout: specifications, checks and proofs

SoulScout is five C++ services around one Redis and one Postgres: a Telegram
gateway, a portfolio service, a market ingestor, an analytics engine and a
notifier. This directory holds TLA+ modules for the parts whose correctness
depends on order, failure and restart, the TLC configurations that check them,
and TLAPS proofs. `PROJECT.json` says which definition models which lines.

Run a check with `tlc -config Poller.cfg MCPoller`, a proof with
`tlapm PollerProofs.tla`.

## 1. The system

```
Telegram --getUpdates--> gateway --soul.cmd.requests--> portfolio, analytics
    ^                       ^  ^---soul.cmd.replies-----------'
    |                       '------soul.alerts------ analytics, notifier
    '---sendMessage---------'
DEX APIs --> ingestor --soul.market.updates--> analytics     (both: Postgres)
```

| Component | State it keeps | Operations | What makes it correct |
|---|---|---|---|
| gateway poller (`poller.cpp`) | position `last_update_id_` in memory, PINs and sessions in Redis | poll, handle one update, stop | no owner command lost, none executed after it was confirmed, order kept, guests only with a PIN |
| rate limiter (header not in the repository) | messages of each user in the last minute | check_and_record | refuses only who sent too much |
| gateway consumers (`main.cpp`) | consumer group positions | read replies, read alerts, forward, acknowledge | an alert is sent once at most; acknowledged means sent, unless its call failed |
| webhook server | none | the same commands by HTTP | stops when told to; harms no other thread's calls |
| gateway main (`main.cpp`) | the threads and their flags | start, webhook call, wait, stop, join | a signal ends the process, with every thread joined |
| Telegram client (`telegram_client.cpp`) | one CURL handle | make_request | each caller gets the answer to its own request (it does not: section 3) |
| portfolio consumer (`main.cpp`, `postgres_store.cpp`) | consumer group, wallets, snapshots | balance, holdings, add and remove wallet | changes in stream order, at most once; a true reply for each command |
| portfolio valuation | none | price, value, sort | totals are those of the listed holdings (at this commit no mint is priced: section 2) |
| ingestor (`main.cpp`, `bar_synth.cpp`) | ticks of the open bars, two tables | tick, complete bars, save | every tick in exactly one bar per table |
| analytics loop (`main.cpp`) | market state, consumer groups | update, score, publish, answer /signals | one decision per update, none lost quietly (it does lose some: section 3); every alert earned |
| analytics throttles (`throttles.cpp`) | histories of alerts and stops | check, record, clean up | verdicts as if nothing were forgotten |
| analytics signals, scoring, regime, entry and exit | none | pure arithmetic | ranges, caps, monotonicity |
| notifier mute, dedup, throttle | keys with a time to live | check and set | an alert passes once per window |

The services interact through Redis streams only, with consumer groups that
always ask for new entries (`>`), never for their pending ones; the ingestor and
the analytics engine also share Postgres. Inside the gateway up to five threads
run side by side (main, the two consumers, the HTTP server and, in poll mode, the
poller), and all but the reply consumer share one Telegram client, which holds one
CURL handle.

What is hard here: an update or command is handled in several external calls,
any of which may fail, with or without effect; the acknowledgement (the next
offset, the XACK) comes after them and is lost by a crash; a failure in one
handler is swallowed in another layer; clocks are the system clock. The list of
hazards, each with its line and the properties that watch it, is in
`PROJECT.json`.

## 2. Modules

| Module | Models | Composition |
|---|---|---|
| `Poller` | the gateway in poll mode, with Telegram, the rate limiter and Redis as its environment | `MCPoller` gives it users and messages |
| `PollerProofs` | theorems about `Poller` | extends `Poller` |
| `Portfolio` | the portfolio command consumer with its consumer group and its tables | `MCPortfolio` |
| `PortfolioProofs` | theorems about `Portfolio`: order, what is stranded, refinement | extends `Portfolio` |
| `PortfolioAnswerProofs` | theorems about `Portfolio`: types, stored rows, replies | extends `PortfolioProofs` |
| `AtMostOnce` | abstract: what a consumer of a stream promises | implemented by `Portfolio` and by the alert consumer of `Gateway` |
| `Gateway` | the gateway's threads, both modes: consumers, poll thread, HTTP server, main, and their one CURL handle | `MCGateway`; the paths of one update are `Poller`'s subject |
| `GatewayProofs` | theorems about `Gateway`: updates, refinement | extends `Gateway` |
| `GatewayCallProofs` | theorems about `Gateway`: calls that meet, start and end, alerts, types | extends `GatewayProofs` |
| `Scoring` | signals of the latest data, confidence, band, size | |
| `Market` | signals with a history, confirmation, net edge, regime | extends `Scoring` |
| `Analytics` | the analytics decision loop with its streams, memory and throttles | extends `Market`; `MCAnalytics` |
| `AnalyticsProofs` | theorems about `Analytics`, and about the arithmetic of `Scoring` and `Market` | extends `Analytics` |
| `Throttles` | ThrottleManager | `MCThrottles` |
| `ThrottlesProofs` | theorems about `Throttles` | extends `Throttles` |
| `BarSynth` | one pool's two bar synthesizers, the ingest loop around them and their tables | `MCBarSynth` |
| `BarSynthProofs` | theorems about `BarSynth` | extends `BarSynth` |

Operators whose comment calls them a mutant are faulty variants of the
definition below them. No specification uses them: they serve to show that each
checked property notices a plausible mistake in the code.

### Poller

Telegram is the sequence `sent` and the number `confirmed`; update k is
`sent[k]`. One pass of `poll_loop` is `GetUpdates` (or `GetUpdatesFails`),
one `ProcessUpdate` for each update of `batch`, and again `GetUpdates`.
`process_update` and `handle_message` are one action per path: `IgnoreUpdate`,
`RefuseRate`, `RefuseParse`, `StartNoGrant`, `StartGrant`, `Deny`, `Help`,
`GuestPin`, `Publish`. A path is one atomic step with all its effects. No other
thread of the gateway reads or writes what a path touches, but for the CURL
handle, which is `Gateway`'s subject, so the only thing lost is a crash inside a path: a crash after the XADD and before the message is
the same as a crash right after the path, because the position is stored later.

How a path ends is `Finish` (the position advances), `Throw` (an exception: the
rest of the batch is dropped, five seconds of sleep, the position stays), or the
choice of the two, `Return`; `ReturnLogged` is the same after an error that
`RedisBus` logs and swallows. `send_message` returns false on a failed request
and its result is ignored, so a lost message is no fault here; it throws only
when Telegram's answer has no `ok`.

`charges` counts attempts, as `check_and_record` does, so a retry is charged like a
first attempt; the limiter is external and its window is the action
`ChargeExpires`. (The retries of one thread with its pauses are about 12 a minute,
below the default limit of 20, which they share with the user's other messages.)
PINs and sessions live in Redis and survive a restart; `KeyExpires` is their time
to live. `trail` is a history variable, for the properties only: which PIN or
session came and went, by which update, and which guest's request was published
when. `verify_guest_pin` only reads the key, so a PIN that was used stays valid.

### Portfolio

`pc` is the consumer thread's next external call. One action is one transaction,
XADD, XREADGROUP or XACK, so every other thread, failure and crash can come
between any two of them. A call may succeed, fail without effect, or take effect
and fail on its way back. `Caught` is the catch block that every handler has: no
reply, and on to the XACK. `Start` is `create_consumer_group`, at `$`, whose
errors are swallowed and which is never tried again.

`Collect` stands for the wallet query, the RPC calls and pricing. At this commit
`metadata_cache.cpp:36` calls every mint UNKNOWN, which CoinGecko does not list, and
the DEX clients are stubs that find no price (`jupiter_client.hpp:66`), so no holding
is priced: `/balance` and `/holdings` answer with none, `save_holdings` inserts no
row, and its transaction can only fail as a call. An answer of CoinGecko whose price
is no number throws (`cg_client.cpp:63`), the second path of `Collect`.
`SaveSnapshot` keeps the constraint of the schema that matters, the foreign key to
wallets; `nextId` is the sequence behind `wallets.id`, which a rolled back insert
does not give back. Two history variables serve the properties: `burned` holds the
ids so lost, `hurt` the commands in whose hands a call failed.

### AtMostOnce

What the two consumers promise on the level of stream positions: positions are
handed out in order and never again, and the consumer acts only on what it has in
hand, each position once, in order. It does not promise to act. `Portfolio`
implements it with the changes of wallets as its effect (`ActsAtMostOnce`),
`Gateway` with the alert consumer's calls of `send_message` (`AlertsAtMostOnce`):
`held` is the batch in hand, `handed` the group's last delivered position.

### Gateway

`at` is each thread's next step, `call` each thread's call of `make_request`, and
`url`, `out` and `busy` are the shared handle. A call takes three steps, with
every other thread in between: `Begin` (CURLOPT_URL), `Perform` (CURLOPT_WRITEDATA
and the start of curl_easy_perform) and `Answer`. So a call may send the request
of the thread that set its URL last, and its answer may land in another call's
string. `curl_easy_perform` on a handle that is being performed fails at once, as
libcurl does; hence, while the poll thread waits up to 30 s for updates, an alert
fails, and the consumer acknowledges it all the same. `Result` is what the caller
makes of its string: bytes of two answers do not parse, an answer without `ok`
makes it throw. An object in place of the list of updates is read beyond its end
(undefined behaviour); the model takes the outcomes that let the process survive,
`Restart` stands for the others.

`LoopStep` is the two consumers: `LoopStarts` (XGROUP CREATE at `$`), `LoopReads`,
`LoopEntry`, `AlertSent`, `LoopAcks`, `LoopEnds`. Replies are only logged and
acknowledged: nothing in the repository sends them to Telegram. `PollStep` is the
poll thread (with `process_update` in one step, plus a message to the user for the
updates in `Noticed`), `ServerStep` the HTTP server with one handler at a time,
`MainStep` main's start and shutdown: spawn, (un)set the webhook, serve, and on a
signal stop and join. `MainAborts` is the exception that leaves two joinable
threads behind, which is `std::terminate`. `stop()` of an httplib server that does
not listen yet does nothing (`MainStopsServer`), and main then joins it for ever.

### Scoring, Market and Analytics

`Scoring` and `Market` are the engine's arithmetic over integers, in units that
make the code's constants whole. Comparisons of prices are exact. The confidence is
a sum of doubles in the code, so `BandsOf` tries a confidence one unit (1/10000 of
a point) lower as well: a bound that the exact sum meets exactly may be missed. The
window sizes (a day of 1440 updates, an hour of 60, and so on) are constants of
`Market`; `Window` keeps the wrap-around of the unsigned `size() - 20` in the
higher low (`signals.cpp:102`).

`Analytics` is `main`'s loop. main.cpp calls its components by names that the
repository declares nowhere (`MarketState`, `compute_confidence`,
`consume_stream`); each is read as the component that is there for it. The engine's
main creates no consumer group; the model takes that the groups exist. A round is
`ReadUpdates` or `ReadNothing`, one `Decide` or `Drop` for each update,
`ReadRequests`, one `Answer` for each request. `Parsed` is `read_market_updates`: an
entry without data is skipped, and one that does not parse ends the batch, of which
all entries were delivered. `Drop` is an update without a symbol (`Nameless`), as
this repository's ingestor publishes them: `main.cpp:117` reads a key of a const
object that is not there, which is an exception caught in line 189 or, as undefined
behaviour of a build without assertions, possibly the end of the process; both
outcomes are in the model. `Decide` updates the
memory first, then scores, asks the throttles (which record what they let through
before it is published; they are nondeterministic here, `Throttles` has the detail),
and publishes. `Crash` and `Stop` lose the memory, as there is no restore.
`taken` (the positions that this process took into the memory of each token),
`decided` and `reads` (where the batches ended) are history variables, for the
properties only. `Returns` puts the day's
returns in an ascending order; which of equal ones comes first is left open, as by
`std::sort`.

### Throttles

Each method holds the mutex throughout, so each call is one action, with any
thread calling anything: the method that the analytics loop calls,
`check_and_update`, is not declared in the repository, and no order of calls is
assumed. The verdicts are operators; only `check_global_limit` also changes
state. The clock may be set back, since it is the system clock.

### BarSynth

One pass adds the same tick to both synthesizers and then, short bars first,
takes and saves the completed bars. A bar is the set of its ticks. The clock can
move between the tick and the question whether a bar is complete. A failing save
is swallowed (`store_pg.cpp`), with or without effect. The request for the route of a
short bar (`main.cpp:112`, its client is not in the repository) may throw: `Thrown`
loses that bar and the later ones and ends the pass before the long synthesizer's
turn.

## 3. Runs

| Run | Question | Bounds | States |
|---|---|---|---|
| `poller_safety` | loss, repetition, order, access | 3 updates of 8 kinds, batches of 2, 1 failing call, 1 restart, rate limit 2 | 1.8 million |
| `poller_liveness` | is every update confirmed in the end | 3 updates of 2 kinds, 2 failing calls, 1 restart | 0.1 million |
| `poller_pins` | is a PIN used once; a violation | 3 updates, 2 guests, 1 PIN, no failure | |
| `portfolio_safety` | order, stranding, truth of replies, causes of silence, is every command taken | 3 commands of 7 kinds, reads of 2, 1 failing call, 1 restart | 1.0 million |
| `portfolio_snapshot` | a comment on the snapshot's wallet; a violation | 4 commands, no failure | |
| `throttles_verdicts` | do pruned records show | 3 records, 6 moments, 2 symbols, 2 bands, 1 step back | 0.7 million |
| `throttles_prefix` | a comment on is_duplicate; a violation | the same with SOL and SOLX | |
| `gateway` | what the threads do to one handle; start and shutdown; alerts at most once | 5 scopes: poll or webhook mode with 2 updates or 2 entries of each stream, 1 POST, 1 failing call, 1 restart or signal | 0.2 million |
| `analytics` | are updates lost, are alerts earned, what the regime means | 495 scopes with scripts of 1 to 6 entries, batches of 3, 1 request, 1 failing call, 1 stop or crash | 0.4 million |
| `analytics_gates` | do the documented hard gates hold; a violation | the same | |
| `analytics_symbols` | are the ingestor's updates decided on; a violation | the same | |
| `bars` | are ticks lost or counted twice | 5 ticks, 9 moments, bars of 2 and 4, one each of step back, failing save or exception, restart | 2.3 million |

Why the bounds are enough. In the poller three updates make two answers, of
which the first has two: a failure can hit the first or the last of a batch or
an update behind a failed one, and a fault plus a restart gives each repetition
twice. RateLimit 2 is reached by two messages or by one and its retry; it is far
below the default of 20, so that the refusal happens at all. In the
portfolio three commands allow add, remove, add of the same wallet and a /balance
of two wallets; a batch of 2 has a command that is read and not yet begun. In
the throttles the windows (2, 3, 3) are shorter than the clock (0 to 5) and
MaxAge equals the longest window, the tightest value the assumption allows. Two
short bars make a long one and nine moments hold two long bars.

In the gateway the five scopes share out what makes threads meet: an alert
against the poll thread, with a failing call or a restart; two updates, one of
them answered, against an HTTP client; an alert, a client, a failing call and a
restart in webhook mode; and entries of every kind. Three threads that call at once
are every overlap there is: a request or an answer in a third thread's hands is in
as wrong a place as it would be in a fourth's, and only main is left, which calls
before the others but the alert thread do. In the analytics engine the windows are
small (a day of 5 updates, an hour of 4), so that a script of six leaves them; the
scripts are families chosen for a part of the decision: prices near the day's high
with profiles that miss one gate each, rises of 13 % with and without a retest, two
and three tokens for the regime, and entries that do not parse, have no data or no
symbol in every place of a batch of three.

Fairness. The liveness runs assume weak fairness of the one thread and of
`Restart`. The thread is a loop that blocks only in calls with a timeout
(getUpdates 30 s, XREADGROUP 1 s) and in sleeps; `docker-compose.yml` restarts a
process that ended (`restart: unless-stopped`). Nothing else is fair: no user need
write, no key or charge need expire, nothing need fail. In `Gateway` each thread is
weakly fair by itself, and so is the end of a call (CURLOPT_TIMEOUT is 30 s); no
client need post and no signal need come. That calls fail and processes
go down finitely often is a hypothesis, expressed by the bounds: an update that fails
for ever does block the ones behind it.

What the runs show. The poller loses no owner command and executes none below a
confirmed offset; it does repeat commands after a restart, and within a run only
after a failure. The portfolio applies changes in order and at most once,
because it never rereads: the price is that a command in hand at a crash is
gone (`StrandedForever`), and whatever fails in a handler leaves the user without
a reply. A command is left without a reply only by a failure of its own, or, for
`/balance`, by the loss of the id 1 to an insert that was rolled back, after which
no `/balance` with a wallet to value is answered any more (`SilenceHasCause`,
`WalletOneExists`). The throttles' pruning never shows while the clock runs forward. The
ingestor loses ticks only to restarts, failed saves, exceptions and a clock set
back; what is lost there stays lost.

The gateway's shared handle mixes up requests and answers freely, and what
survives of it is what `gateway` shows. An alert whose call failed or met another
call may be lost, sent for another thread, or arrive twice; any other arrives once
if it is acknowledged (`AlertsAccounted`). Telegram still never forgets an update
that was not handled (`UpdatesSurvive`). The process aborts at its start only if the
webhook call failed or met an alert (`AbortHasCause`), and a signal ends it, with
every thread joined, unless it came before the server listened (`ShutdownEnds`,
`CleanEnd`).

The analytics engine decides on every update of a token it was handed except those
behind an entry that does not parse, in the same batch; what they hold is never seen
(`UpdatesDecided`). An update without a symbol is never decided on
(`analytics_symbols`), and all of the ingestor's are such. Its alerts to act never
come at the day's high and never on the first update after a start; high conviction
takes the gates of execution cost and the lowest floors, 25k of liquidity and 50k of
volume (`AlertsEarned`), although no single line of the code demands it. These are
not the documented hard gates (150k, 500k, a route of 3 hops at most), of which no
band asks as such (`analytics_gates`). In `RegimeMeaning` half of the tokens decide,
not more than half.

Findings (details in `PROJECT.json`):
- a guest PIN documented as single-use opens sessions for several users (`poller_pins`);
- a snapshot can belong to a wallet it does not value (`portfolio_snapshot`);
- a longer symbol's alerts count as duplicates of a shorter one's (`throttles_prefix`);
- an alert to act may miss a documented hard gate (`analytics_gates`);
- the ingestor's updates have no symbol, and the analytics engine decides on none of
  them (`analytics_symbols`).

Met while modelling, where the code and the documentation differ without a run
of its own: replies to commands are consumed and never sent (`tg_gateway/README.md:10`);
line 208 there calls the shared state mutex-protected, the CURL handle is not;
risk-off is documented as two negative signals, the code takes no positive one;
the age of 24 h is documented for alerts to act, the code holds only high conviction
to it; the schema's constraint on two equal mints of a snapshot would refuse the
holdings of two wallets with a common token, once tokens are priced;
`determine_band` and `main.cpp` band a degraded update differently; the environment variables that adjust the threshold are not read; the
cap on rug risk, for S7 below 0.3, cannot be reached (`RugValues`).

## 4. Proofs

Every safety invariant and action property that a passing run checks, and both
refinements, are also theorems: a run shows them on a small instance, the theorem
for every value of the constants that the named assumptions allow. The
assumptions are evaluated by TLC in the runs. The proofs of one component share an
inductive invariant, because what a property says of its own variables is seldom
enough to carry it over a step.

**`PollerProofs`**: for any users, messages, PINs and bounds, from the
assumptions in `Poller` (the owner is a user, messages have a known kind, the
limits are numbers).

- `TypeCorrect` (`TypeOK`), `CommandsKept` (`OwnerCommandsKept`), `OrderKept`
  (`RetriesKeepOrder`), `PublishedOnce` (`OnceWithoutFaults`),
  `NoReplayOfConfirmed` (`ReplayAboveConfirmed`), `GuestsHavePins` (`GuestChain`).

The invariant `IInv` (theorem `Inductive`) is needed because these say nothing of
the batch in hand. Its parts are `TypeOK`; `BatchContinues` (the batch is the
gapless run of updates right above `Confirm`, the larger of Telegram's and the
poller's position); every owner command up to `Confirm` is settled;
`RequestsBehind` (requests of this run lie at most one above `Confirm`, and none
above it while nothing failed); `RetriesKeepOrder` and `OnceWithoutFaults`. The
proof first reduces the paths of `process_update` to two outcomes (`PathOutcome`,
`PathRequestOutcome`): the position advances by one, or it stays and the batch is
given up. A second invariant, `AccessInv`, carries `GuestsHavePins`: a PIN in Redis
was stored by an event of the trail that nothing has undone since (`PinHeld`), and so
a session (`SessionHeld`); events stay where they are (`PastStays`, `ChainStays`), and
a step adds one at most.

**`PortfolioProofs`**: for any commands, wallets, batch size and bounds, from
`LimitsAssumption` alone (a read takes at least one command).

- `InOrder` (`ChangesInOrder`), `CalmOwesNobody` (`NothingStranded`),
  `StrandedStays` (`StrandedForever`), `Refines` (`ActsAtMostOnce`: `Portfolio`
  implements `AtMostOnce`).

`ChangesInOrder` says nothing of the commands in hand, so its invariant `IInv`
adds `PositionsTyped`, `InHand` (positions in hand increase and are all pending)
and `AppliedBehind` (nothing applied lies beyond the command in hand, nor is
that one applied before `ChangeWallet`). The proof reduces the handler's steps to
`Onward`, a move to a later label, so that only `ChangeWallet`, `ReadCommands`,
`Ack` and `Start` need an argument of their own.

**`PortfolioAnswerProofs`**: from `LimitsAssumption` and `RequestsAssumption`
(a request has a user and a role), on top of the above.

- `TypeCorrect` (`TypeOK`), `RepliesAreTrue` (`RepliesTrue`), `SilenceIsCaused`
  (`SilenceHasCause`), `FirstWalletIsOne` (`WalletOneExists`).

That a reply tells the truth is a statement about one step; what makes it hold is
that `ok` is set only once the tables say so, and that nothing undoes this before
the reply: `OkMeans`. `HInv` adds the tables (`Rows`, `Streams`, `InSnapshot`), what
leads to each label (`AtCommand`), where the first id went (`FirstId`: a row has it, or
a rolled back insert burned it), and that the command about to be acknowledged, like
those that are done, was answered or has its cause (`AllServed`).

**`GatewayProofs`**: for any scopes, batch sizes and noticed updates, from
`ReadAssumption` and `ScopesAssumption`.

- `NoUpdateLost` (`UpdatesSurvive`), `AlertsRefine` (`AlertsAtMostOnce`, the alert
  consumer implements `AtMostOnce`).

`UpdatesSurvive` says nothing of the requests and answers on their way, and a
thread does not know what its call carries. The invariant `UInv` therefore speaks of
the handle, not of its users: whatever URL is set or on the wire in any call asks for
updates only above handled ones (`SafeWire`), whatever answer is in any string starts
at most one above what is handled (`SafeAnswer`), and the poll thread's batch is the
gapless run of updates right above something handled (`BatchInv`). `handled` only
grows, so no mix-up can break this (`CarriesMore`); only `PollAsks` writes a request
for updates, from an offset below which all is handled. For the refinement `AInv`
adds that the positions in hand rise, and that what was tried lies below the entry
in hand until that one is tried; `NextRefines` and `ConsumerRefines` map each step of
the consumer to `Hand`, `Act` or a stutter, and every other thread's step is a stutter
(`OthersRefine`) or a `Publish`.

**`GatewayCallProofs`**: from the same assumptions, what the threads' calls do to
each other.

- `AlertsArrive` (`AlertsAccounted`), `EndsClean` (`CleanEnd`), `AbortsHaveCause`
  (`AbortHasCause`), `TypeCorrect` (`TypeOK`).

`CInv` is about any two calls: two that are under way at once are in trouble, both
(`Meet`); one waits (`OneWaits`); so a call out of trouble has its own request on the
wire and its own answer, one of them (`Clean`), and an answer without `ok` that it got
was a failure (`OddHasCause`). `TwoAtMost` bounds a string: one answer that is not
its own, at most, and its own. `NInv` adds that a thread has a call only
where its code makes one (`Resting`) and what main's progress says of the others
(`Life`); abort and the clean end follow. `HandInv` is what a consumer has in hand and
owes. For the alerts, `AlertInv` says that the consumer's call is about the entry at
hand (`HeadCalled`), that only what was tried is on a wire or arrived (`TriedOnly`),
and that no call but its own carries an alert out of trouble, which arrives with that
call's answer (`Owns`), hence once, and before it is acknowledged.

**`AnalyticsProofs`**: from `ScopesAssumption` (the scripts hold market data of
known tokens, which are finitely many, or entries that do not parse) and
`WindowAssumption` (the windows are positive, an hour is no longer than a day).

- About operators, for every history of market data: `ConfidenceInRange` (0 to 93.7
  points; the clamp at 100 and the rug cap never bind), `ConvictionNeedsFloors` (85
  points take the execution gates and the lowest floors), `YoungStaysLow` (71.5 points at most for a token of less than
  a day), `BandMonotone`, and `SizeWithinCaps`.
- About the loop: `DecidedAll` (`UpdatesDecided`), `AlertsAreEarned`
  (`AlertsEarned`), `RegimeMeans` (`RegimeMeaning`), `TypeCorrect` (`TypeOK`).

Each signal's range is a lemma of its own; the confidence is then linear arithmetic
over ten bounded numbers. For `DecidedAll` the invariant `IInv` adds what the loop
holds at each of its steps while nothing failed (`Tidy`: a batch only between its read
and its last update, requests only while they are answered), without which a read
could overwrite a batch, or a crash take something unnoticed. `BatchSplits` is about
`read_market_updates`: a position of a batch is in what was parsed or behind an
entry that was not.

`AlertsEarned` speaks of alerts that were published, which outlive the memory that
earned them. `EInv` therefore ties the memory to the script: a token's history is the
tail of what the process took of it, a day at most (`Recalls`, kept by `Update`:
`UpdateRecalls`), so a statement about the history of a verdict (`EdgeIsBelow`,
`SpikeFell`, `ConvictionNeedsFloors`) is one about the updates seen
(`AlertIsEarned`), and those never change. `RegimeMeaning` takes that finitely many
returns can be sorted (`OrderExists`), that comparing quotients crosswise is an order
(`ChangesOrdered`), and counting from the first positive one (`MiddlePositive`).

**`ThrottlesProofs`**: for any symbols, windows up to `MaxAge`, and clocks.

- `TypeCorrect` (`TypeOK`), `CooldownIsExact` (`CooldownExact`), `GlobalIsExact`
  (`GlobalExact`), `GuardIsExact` (`GuardExact`), `DuplicateIsExactApart`
  (`DuplicateExact`), `DuplicatesByName`, `RefusalsAreCaused` (`RefusalsHaveCause`),
  `CleanupIsInvisible` (`CleanupInvisible`).

The verdicts compare pruned records with everything that was ever recorded. `IInv`
says of any clock that what is remembered did happen (`Happened`), and of one that ran
forward that nothing is ahead of it (`NotAhead`), that records are in order
(`InOrder`), without which pruning from the front could stop early, and that what is
gone is older than any window (`AlertsKept`, `StopsKept`, `HourKept`).
`DuplicateExact` is false in general (the run `throttles_prefix`): the theorem has
the hypothesis `Apart`, that no symbol's name begins another's; `DuplicatesByName`
is what holds without it.

**`BarSynthProofs`**: for any two interval lengths, one a multiple of the other.

- `TypeCorrect` (`TypeOK`), `BarsAreWhole` (`BarsWhole`), `TicksAreKept`
  (`TicksKept`), `BarsDoAgree` (`BarsAgree`), `OneBarIsOpen` (`OneOpenBar`),
  `RowsAreFinal` (`RowsFinal`).

`IInv` has four tiers: what holds always (`RowsInside`, `OneBar`); while the clock
ran forward (`InOrder`, `RowsClosed`: a saved bar has ended and no tick of it waits);
while no process was restarted either (`WaitingWhole`, `GoneEnded`, `LatestWaits`,
`ShortFirst`, `RowsWhole`); and while no save failed (`Everywhere`). The step that
takes completed bars needs the third tier: a bar that is taken has ended, so nothing
falls into it later.

Only model-checked: liveness (`AllConfirmed`, `AllTaken`, `ShutdownEnds`; fairness
and ENABLED are outside the proof system's reach here). Where a proof needs an
induction over data, the library's induction theorems, which take an operator, cannot
be used: it is done as an argument about a least counterexample (`LeastExists`).
What the sums over a history compute (the folds in `Market`) is not
proved: the proofs use only the range of a signal, whatever the sums are. That
the four violated statements are violated is TLC's counterexample, and no theorem.

## 5. Not modelled

- The notifier: its main program is not in the repository, so neither the order
  in which mute, deduplication and throttle are asked nor what follows is known;
  each alone is a Redis key with a time to live.
- Two handlers of the HTTP server at the same time; a second one adds a further
  user of the CURL handle, of which the model has four.
- The ingestor's normalisation and impact, pure arithmetic on one record, and the
  portfolio's totals.
- Orca's pools, which the ingest loop fetches and does not use; the market
  update, which carries constants for most of its fields.
- `check_and_update`, the rate limiter's source, the notifier's main program
  and several configuration files are not in the repository.
- Health pages, formatting, logging, HTTP clients, deployment.

## 6. Plan

In this order:

1. `CommandPath`: `Poller` and `Portfolio` joined by the request stream
   (P == INSTANCE Poller, S == INSTANCE Portfolio). Abstract specification: a
   set of tracked wallets changed by commands, each taking effect zero, one or
   more times; question: after a replay, does the last command win.
2. The sums over a history in `Market` (S6, S9, the volume-weighted average):
   lemmas on the fold, and with them the meaning of `AboveVwapMajority`.
3. The ingestor's normalisation and impact as pure operators with ranges proved.
