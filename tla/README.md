# crypto-ai-platform: a TLA+ verification project

The platform is a FastAPI process (`backend/main.py`) with background workers
(`workers/`), one SQL database and two brokers. It analyses markets, asks AI
providers for opinions, shows dashboards, and places real orders at Binance
(and FX orders at OANDA). Everything runs as asyncio tasks of one uvicorn
process, so a step of the models is the code between two `await`s; the
database, the exchange and the clock go on in between.

The project starts where a mistake costs money: an order leaving for the
exchange, what is known of it afterwards, the position it creates, the worker
that sells it, and the gate that lets it through. Around it stand the testnet
service, the account's second factor and FX orders, the realtime feed, and the
advice: models, council, scanners.

## Parts of the system

| Part | State it keeps | Operations | Hard behaviour | Status |
|---|---|---|---|---|
| Trade submission and reconciliation (`api/real_routes.py`, `database/repository.py`, `workers/order_reconciliation.py`, `security/reconciliation.py`) | `trades` rows, unique per user and `client_request_id` | claim, mark SUBMITTED, send, record answer or UNKNOWN, reconcile (worker, operator) | retries racing for a row, lost answers, stale write-backs, crash at any await | modelled, proved |
| Live order route (`api/real_routes.py`) | handler locals, `positions`, OCO lists, kill switch | BUY: send, cancel the rest, protect, open position, flatten, freeze. SELL: read position, send, reduce or close | each call may fail after taking effect; data read before an await and used after it | modelled, proved |
| Position monitor (`workers/position_monitor`) | one tick's list; `protective_exit_position_N` rows | read OCO, reconcile, cancel OCO, claim, sell, freeze | races with the exchange, the route, restarts, its own earlier ticks | live branch modelled, proved |
| Binance client (`exchanges/binance/client.py`) | none | place, cancel, query, OCO | an exception says nothing about the effect | its effects, in SpotExchange |
| Kill switch (`security/kill_switch.py`) | one row per user | read, set | read once at the start of a handler | modelled |
| Risk engine, portfolio state (`trading/risk_manager`, `portfolio`) | `daily_equity_snapshots` | read account, read or write baseline, decide | races for the first row of a day, midnight, count read before the order | gate modelled, proved |
| Testnet trade service (`trading/testnet_service.py`) | a client shared by all requests; `trades`, `positions` | execute, protective close | the shared client is replaced between awaits; partial SELL closes all | modelled, proved |
| OANDA execution (`execution/fx_oanda.py`) | `trades` | claim, place, record | no broker-side uniqueness; reconciled against the wrong broker | modelled, proved |
| Realtime intelligence (`monitoring/realtime.py`, `news/engine.py`) | subscribers' queues, last news per symbol | start, stream, collect, publish, subscribe | full queues, clients that vanish, feeds that fail between two stores | modelled, proved |
| AI providers, council, orchestrator (`ai/`) | none kept | ask, vote, judge, challenge | providers failing in any combination, votes of sources that are missing | modelled, proved |
| Scanners (`workers/*_scanner`) | `latest`, a round of the walk | read a symbol, evaluate, queue | a dictionary that grows under the walk, one symbol's failure | market and opportunity scanner modelled |
| Notifications (`workers/notification_worker`, `notifications`) | queue, last priority per topic | enqueue, filter, deliver | escalation that never de-escalates | queue and filter modelled |
| Auth, TOTP, rate limit (`auth`, `core/rate_limit.py`, `api/security_routes.py`) | `security_settings`, windows | set up, enable, disable 2FA; login; count | overlapping 2FA requests over one row | 2FA modelled, proved |
| ML predictor (`ai/ml`) | predictions due and resolved | predict, resolve | a table that stays empty (below) | its answer and vote modelled |
| Memory, knowledge, news engines | tables of texts | collect, score, store | feeds down, dates that do not compare | collection, impact and knowledge gate modelled |
| Health (`monitoring/health.py`, `workers/health_monitor`) | registry of dependencies | probe, record, report | none beyond one write and one read | not modelled |
| Profit rotation (`strategies/profit_rotation.py`) | none (pure) | decide | none | not modelled |
| Backtesting, certification, purged validation | none | batch runs | none | not modelled |
| Paper trading | one dictionary | buy, sell | none | not modelled |
| Voice, web client (`voice`, `apps/web`) | none on the server | parse a sentence | none | not modelled |
| ClawTrade proxy, dashboards | none | forward, read | none | not modelled |

How they interact: routes and workers call the repositories, which commit after
every statement; `expire_on_commit=False`, so a row object keeps what it held
when it was read. Routes and workers share `trades`, `positions`, the kill
switch and the broker account, and nothing else; there are no locks. Advice
reaches the trading part only through a person: nothing in the repository turns
a council's answer into an order, and the answers themselves call no trade
ready (`AdviceNeverActs`).

## Modules

| Module | Models |
|---|---|
| `SubmitOnce` | what the ledger of orders promises: an id is claimed once, only its claimant sends, once, and everyone else is told of the duplicate |
| `TradeSubmission` | the rows, the handlers, the exchange's view of each order, the worker and the operator |
| `SpotExchange` | the account as `BinanceClient` changes it, the positions table and the kill switch |
| `LiveOrderRoute` | `binance_order` after its row is claimed |
| `PositionMonitor` | `PositionMonitorWorker`, live branch |
| `LiveTrading` | the last three composed, with the kill switch's user and restarts |
| `RiskGate` | `_binance_server_risk`, `snapshot_and_risk_state` and the risk engine |
| `TestnetTrade` | `TestnetTradeService`, with the monitor's testnet branch |
| `Account` | `security_settings`: 2FA routes, kill switch, the gate; `fx_order` behind it |
| `RealtimeIntelligence` | stream, news loop and `NewsEngine`, subscribers, WebSocket clients |
| `AiProviders` | `FallbackProviderChain` and `ChiefOperator`, as functions of the models' answers |
| `Council` | every agent's vote, the tally, the judge, the challenge, `build_council`, the ranking |
| `Advice` | who asks for the last two: routes, scanners, the notification worker |
| `MC...` | constants and symmetry for TLC |
| `...Proofs` | theorems, one module per component |

Operators named in a comment as *a slip* are not part of any specification.
They are plausible mistakes (a dropped guard, a constraint not relied on, an
off-by-one); with one of them in place of the operator below it, a property of
the runs fails, which shows that the property says something about the code.

### TradeSubmission

`status`, `tradeId` and `orderId` are the row of each `client_request_id`
(`Trade` in `database/models.py`); `pc` and `reply` a handler's place and the
answer it holds; `order` the exchange's view, which runs ahead of the answer;
`scan` and `seen` what each reconciler has read and not written back yet.

- `Lookup` and `Insert` are the two halves of `create_idempotent`: a SELECT that
  trusts nothing and an INSERT that the unique constraint lets through once.
- `MarkSubmitted`, `Send`, `Answer`, `RecordAnswer` and `CancelResidual` are the
  happy path, one await each; `SendFails` and `RecordUnknown` the other.
- `Accept`, `Lose` and `Execute` are the network and the matching engine
  (external).
- `WorkerSelect`, `OperatorSelect`, `QueryOrder`, `QueryFails` and `WriteBack`
  are reconciliation: the write comes after an await and does not look again.
- `WorkerDies` is an exception in the worker's own queries: `run_forever` has
  no handler for it. `HandlerAborts` is one nobody catches in a handler.

A handler that an operator's retry repeats is another member of `Requests` with
the same key. CANCELED, REJECTED and the like are folded into EXPIRED: the code
treats them alike. `Working` holds the statuses an order can still leave.

### SpotExchange, LiveOrderRoute, PositionMonitor, LiveTrading

One user and one symbol; a position is named by the BUY that created it. A call
takes effect and is heard, takes effect and is not heard, or does not take
effect. An order never arrives after its caller has given up: the client signs
with `recvWindow` 5000 and waits 10 s (`client.py:27-28`), so a late order is
refused by the exchange. An OCO reserves the quantity it protects, which is
why cancelling it matters, and a market SELL needs its quantity free.
Quantities are small numbers in the market's finest step, `Step` the lot step
of protective orders, so that rounding down to a whole step, to nothing, or
with a remainder all happen.

In `PositionMonitor`, `exitTrade` is the answer the monitor recorded in the row
`protective_exit_position_N`; what reconciliation makes of that row later is
`TradeSubmission`'s subject. The code reads the children of `get_order_list`
for a `status`; the model takes it that the exchange sends one (external), and
so it does of the answers to the route's orders. An answer to the monitor's
exit may come without: it is stored as UNKNOWN and nothing is frozen. Setting
the kill switch may fail: in the monitor the tick goes on (`MonFreeze`), in the
route the request ends in `raised` (`Freeze`).
`beyond` is the set of positions whose price is past a stored threshold; it
moves freely.

### RiskGate

`account` is what the exchange reports (`cash`, `coins` free, `locked` in OCOs)
with the open rows of `positions`; `baseline` the table of the day's starting
equity; `seen`, `since` and `base` what a handler has read so far. Live orders
add up free balances only (`LiveEquity`), checks free and locked (`Equity`);
both feed one baseline. A handler reads one price, and the price may be another
at every reading and every fill. Percentages are compared without division. What an
allowed order does is one action, `Fill`, whose detail is `LiveTrading`. What a
handler has read is dropped after its verdict, except by a refusal for the day's
loss, which `LossIsReal` is about. `peak` is a history variable: the most BUYs ever past the gate at one time. `seen`
keeps the locked coins the live route does not look at, so that a property can
speak of what the account was worth.

### TestnetTrade

A request names a quantity (`ask`) and an amount in USDT (`amount`), which the
route takes as independent parameters: the one is ordered, the other goes into
the key. `exchange` is `self.exchange` of the one service object of `v06_routes`; every
request replaces it in `Arrive` and signs with it after several awaits. `owner`
and `row` are the claim of `create_idempotent` and the row's status; `at` and
`done` where the market order went and what it executed; `pos`, `posQty`,
`posAge` the positions table. A key is the client's id, or else
a digest of side and amount, without the quantity, as in `request_key`. The filters of `exchanges/binance/filters.py` are
`FiltersPass` and `FloorToStep`. A SELL closes the user's oldest position whole,
whatever it executed. The worker has a service object of its own (`Tick` to
`CloseExit`), looks at prices only (`Judge`), and puts nothing off because an OCO
cannot be cancelled (`Unprotect`). Users without credentials share the environment's account when
`SINGLE_OPERATOR_MODE` is on.

### Account

`row` is the user's `security_settings`, `seen` what a handler has read of it
(`expire_on_commit` is off), and a write changes only the attributes the handler
itself changed: `Setup` turns 2FA off only where it has read it on. The row is
made by whoever first misses it, and another's INSERT fails on the unique
constraint. `fx_order` passes the gate (`RequireLive`), claims, marks, sends and
records; an order that was killed at OANDA keeps SUBMITTED; reconcilers ask
Binance about it in vain, so no action of theirs changes anything. `barred`,
`overlap` and `proved` are history variables. The broker decides an order in
flight at any later time, also after its caller has given up.

### RealtimeIntelligence

Events are numbers in a circle longer than a queue, so that "the newest" and
"the next" keep their meaning without counting for ever. `Publish` appends to
every subscriber's queue, which first loses its oldest event when it is full.
`NewsCollect`, `NewsFails` and `NewsStore` are one symbol's turn of the news
loop: the feeds that are up are chosen freely, zoned and zoneless dates in one
list raise (`Sortable`), the key of the five newest items (`KeyLen`) is stored
and an alert published in one step. `Subscribe` takes the snapshot and the queue
with no await between. `heard`, `lost` and `told` are history variables. A
client that has left is noticed at its next event, as in `realtime_routes.py`.

### AiProviders, Council, Advice

Pure operators over records of what the sources say, with no recursion.
Numbers are per cent and per mille, because only their order and the code's
thresholds matter; falsy zeros are kept (`Conviction`, `MlVote`), and so are the
ties of `max(votes, key=votes.get)`; an empty answer of a provider is not counted
(`Counted`). `technical_analysis` raises on fewer than twenty candles, which is
`EvidenceFails` or a failed request, so a reading has at least twenty.
`AutoOpportunity` is the setting `auto_opportunity_enabled`, off by default: the
walk of the opportunity scanner starts only where it is on. `Advice` chooses a reading of all sources
when an analysis is asked for and evaluates it when it ends (`Outcome`). A
reading holds candles, slope, volatility, momentum, headlines, the model's
probability, the order book, Gemini's answer; what a source does not contain
is not made up. The walk of the opportunity scanner is over the dictionary
itself (`Torn`).

## Runs

`CHECK_DEADLOCK FALSE` stands in every run whose system may go quiet: all
requests answered, no position open, bounds used up.

| Run | What it asks | Bounds |
|---|---|---|
| `submission_safety` | no double order, no order without a row, no invented outcome, refinement of `SubmitOnce` | three requests, two of them retries of one id; worker that may die; one restart |
| `submission_live` | orders not yet final stay in the worker's SELECT; every finished order's row becomes final and stays so | two retries of one id, worker, operator, one restart |
| `live_one` | closed means sold, one exit per position, tracked means protected, what SELLs that overlap leave in the table is what some of them have sold | one BUY of 3 with step 2, two SELLs, a coin outside, a use of the kill switch |
| `live_reserved` | one exit however often the monitor starts over, an OCO survives its position only over coins its handler never heard of; an executed OCO closes its position | one BUY of 4 with step 2, one SELL, no coins outside, a restart |
| `live_race` | the exit does not race the OCO: **violated** | one BUY, one SELL, no restart needed |
| `risk_gate` | one baseline per day, every verdict measured by it, position limit overrun only by overlap | two BUYs, a SELL, a check; two days, two prices; limit of one position |
| `risk_loss` | a loss that refuses an order is a loss: **violated** | two BUYs, one price, one day |
| `testnet` | equal requests send once, one exit per position, closed means sold | two BUYs and a SELL without ids, two amounts, the monitor, prices that move, a restart |
| `testnet_account` | an order is in the account of who ordered it: **violated** | two users with credentials, one BUY each |
| `account` | the kill switch stands, only proved secrets, FX orders implement `SubmitOnce` | two set-ups, enable, disable, set, clear, two orders of one id, a restart |
| `realtime` | a queue is the newest events, no hole, no queue for the dead, severe news told in the end | two symbols, two feeds, two stories of which one zoneless, a client with a queue of two, a restart |
| `advice` | no answer calls a trade ready, ungrounded claims ignored, decisions backed by answers, critical news never queued, the scanner's silence, no symbol starved | two symbols, three providers in both modes, one of which may answer nothing, readings at the corners of every vote, a queue of two, the scanner's setting on |

Why these bounds are enough: the row of an id is contended by at most the two
halves of an insert, so a third request is a retry of a retry; reconcilers
interfere through one stale value each, and a restart empties all of them at
once, so a second one adds nothing but length. A BUY of 3 with step 2 has a
fill that rounds to nothing, one that rounds to itself and one that leaves a
remainder, each with and without a rest still working. The position limit of
one is reached by one BUY and overrun by two that overlap. Two SELLs are enough
for an update to be lost: each sells a part of what both have read. The
testnet's two BUYs collide on one key or, with another amount, make two
positions, and a SELL may meet either. Two users take the shared client from each other in one step. The settings row has a
writer of every kind and two of the one that draws a secret. A queue of two
overflows, drops and still has an order; a story of each date kind for one
symbol makes a list that does not compare, and a feed that is down makes one
that does. For the votes a reading per side of every threshold is enough, as the
operators compare and add. The theorems below hold without any of these bounds.

The properties are stated in the component's module, each with the behaviour it
is about. Nothing says that the account is frozen where an exit or a flatten is
in doubt, because it need not be: a crash between storing UNKNOWN and setting
the switch, a switch that cannot be set and an answer without a status all leave
it open. Some properties are narrower than their names: `NoOrphanedProtection` is
about one BUY and no other coins, because with a second position's coins in the
account a SELL can close the oldest one while its OCO cannot be cancelled, and
about a BUY that executed no more than its handler heard: when the rest of a
partially filled BUY executes after the answer, a SELL can sell those coins and
close the position over its active OCO (a BUY of 4 with step 2, as in the run,
reaches this); `OnlyProvedSecrets` leaves out 2FA requests that overlap, and
`BackedByAnswers` decisions of confidence zero, for the reasons below;
`SevereIsTold` is about stories among the newest of a symbol whose dates
compare. `AdviceNeverActs` is about what the orchestrator and `build_council`
answer and no more; that no order follows from an answer is the shape of the
program. `TableCountsSales` allows for a forgotten sale, because the table is
written back from a stale read, and for SELLs that expire partly sold where
`ExpiresPartly` says that they may. `SilentScanner` shows what the disagreement
about regime names (below) costs.

### Fairness

`TradeSubmission!Fairness` says that the worker's loop goes on (it sleeps and
runs again; `run_forever` has no way out but an exception, which the live run
excludes with `SelectCanFail = FALSE`), and that an order the exchange holds is
found if its row is asked about again and again (strong fairness of
`QueryOrder` per key: a query may fail any number of times, not forever).
Nothing is assumed of handlers, operators, the network or the engine.
`LiveTrading!MonitorFairness` says the same of the monitor: its loop goes on
(`run_forever` catches everything), and `get_order_list` is answered in the
end. Where an order of the exchange never finishes, nothing is promised.
`RealtimeIntelligence!FairSpec`: tasks run, the stream reconnects, the market
moves again and again, and a symbol whose turn comes for ever is once read
with all feeds up and stored. `Advice!Fairness`: the scanner's loop, where its
setting is on, goes on and every await of an analysis returns or raises. The
scanner's fairness is strong only because the model's one desk is shared with the routes; in the program an
analysis waits for none.

## Disagreements found

Three runs show one each; their source lines and the sentences they contradict
are in `PROJECT.json`.

1. `live_race`: the monitor cancels the OCO "so a worker-triggered emergency
   exit cannot race" it, but goes on when the cancel fails because the OCO has
   executed. With other coins in the account it sells twice.
2. `risk_loss`: the live equity leaves out what is locked in OCOs, so a
   protected BUY of 5% of the account looks like the day's loss limit.
3. `testnet_account`: the shared client is replaced between two awaits, and one
   user's order goes to the other's account.

The rest were met while modelling. The models behave as the code does, and no
run is spent on them (paths under `src/`):

- `workers/position_monitor/__init__.py:53`: an exit is sent as `ai_exit_N`, its
  row says `protective_exit_position_N`; reconciliation looks up by the row's id,
  so an exit whose answer was lost stays UNKNOWN.
- `workers/position_monitor/__init__.py:49`: an exit answered EXPIRED or
  PARTIALLY_FILLED leaves its row; every later tick finds it and returns, with
  the OCO already cancelled.
- `backend/api/real_routes.py:120`: an emergency flatten answered without selling
  counts as flattened, and the account is not frozen.
- `backend/api/real_routes.py:227`: an order that EXPIRED after a partial fill is
  taken for one that bought nothing; its coins have neither position nor OCO.
- `backend/api/real_routes.py:193`: two SELLs may read the position before either
  has sold, and together sell more than it held, out of other coins of the
  account, against "Live SELL is reduce-only against a tracked application
  position" (`FINAL_REAL_MONEY_AUDIT.md:37`). `TableCountsSales` says what the
  table then holds.
- `backend/trading/testnet_service.py:73`: the key for "the exact same order" is
  made of `amount_usdt` and not of the quantity that is ordered, so another
  quantity of the same amount is answered duplicate and never sent.
- `backend/trading/testnet_service.py:131`: a PARTIALLY_FILLED testnet SELL
  closes the whole of the oldest position.
- `workers/position_monitor/__init__.py:59`: an exit answered without a status is
  stored as UNKNOWN like a lost one, but nothing is frozen; nor is anything where
  `set_kill_switch` at line 56 raises, which line 113 swallows.
- `backend/ai/providers/fallback_provider.py:88`: an ensemble of answers with
  confidence zero decides BUY (the first key of `votes`), which the docstring at
  lines 13-14 ("always NO_TRADE") does not expect. A single answer is not
  outvoted either; both have confidence 0, which `BackedByAnswers` allows for.
- `backend/news/engine.py:110` with `backend/monitoring/realtime.py:93`: an item
  without a date is dated now at every reading, so its key changes and its
  alert comes again each round, against "only on genuinely new" news.
- `backend/monitoring/realtime.py:121`: "drop the oldest queued tick" drops the
  oldest event, which may be an alert. A severe story that enters a list below
  the five newest never changes the key, and nothing is told.
- `backend/api/security_routes.py:24`: a set-up that has read 2FA off writes
  nothing to the column, so a concurrent enable leaves it on for a secret that
  nobody has proved, though the answer says `'enabled': False`.
- `backend/main.py:102`: `/health` compares with "error"; the registry says "ok"
  or "degraded", so a dead dependency never shows.
- `ml_routes.predict` gives a text to a column of times: its insert raises, the
  predictions table stays empty, and `resolve_due_predictions` has nothing to do.
- `backend/ai/council.py:90` looks for BULL and BEAR in regime names that
  `detect_regime` never gives (`Named`), so the regime agent never votes for a
  direction; `SilentScanner` shows what is left of the scanner's threshold. The
  research conflict that `council_service` looks for cannot arise.
- The opportunity scanner and the notification worker are written and not
  started by `main.py`; `Advice` models them as they run when started.

## Proofs

Eight modules of theorems, checked by TLAPS for every value of the constants
that satisfies the modules' named assumptions. The shape is the same in all:
`Init => IInv`, a lemma per action (or group of actions) that a step keeps
`IInv`, `IInv =>` the property, and a last temporal step.

**TradeSubmissionProofs** (`TypeCorrect`, `NoDoubleOrder`, `OrdersAreRecorded`,
`FinalIsTrue`, `DoubtIsReconciled`, `Refinement`). `AtMostOneOrder` is not inductive: one must know
that a handler past its insert owns its row, that only an owner has an order,
and that the row stays its own. `HonestFinal` needs more: whatever a handler
holds in `reply` or a reconciler in `seen`, if it is final, is the state of the
order the row stands for, and final states are never left. It rests on
`KeysAssumption`: an id sent to the exchange is the row's own, or no row's.
`DoubtIsReconciled` follows from the same invariant where no answer says NEW:
the worker's SELECT does not ask for rows that are NEW, so it is told as a
hypothesis, and the orders of this program, all market orders
(`backend/exchanges/binance/client.py:96`), satisfy it.
`Refinement` maps a row's maker to the claim and an order's existence to the
send; every other step stutters.

**LiveTradingProofs** (`OneExit`, `ClosedIsSold`). Two orders can sell a BUY
off: the route's flatten and the monitor's exit. `IInv` says why only one ever
does: a BUY has a position only if its handler ended in `opened`, from which
`flatten` is not reachable, and the monitor's sell step is reached only with a
row it has just claimed and no exit sent. For `ClosedMeansSold` it relates each
writer of CLOSED to its reason: the monitor reconciles a position whose OCO has
executed (and it stays executed), closes one whose exit was FILLED, and a SELL
closes what it read before (`held`), having sold that much.

**LiveSafetyProofs** (`TypeCorrect`, `Tracked`, `NoOrphan`) goes
on from there. `BoughtInv` follows a quantity from the execution to the table: an order
never executes more than was asked, a handler never believes in more than was
executed, an OCO stands before the row, and a SELL's stale read is no more than
was bought, because `FloorStep` grows with its argument and executions only
grow. Types are proved together with it: that no balance goes negative needs
the bound on what executes.
`NoOrphan` needs `KInv`: while the OCO holds the coins of a BUY that executed
what its handler heard, the table's quantity, every stale read of it by a SELL
and every item of the monitor is more than all the coins outside the OCO. That
is so at first because what the OCO leaves is less than a lot step and the OCO
is at least one (`FloorRest`); it stays so because what a SELL frees or takes it
had reserved. The coins that working SELLs reserve are a sum over requests; it
is written as the size of a set of pairs, and the facts about sums become facts
about finite sets. Its hypothesis `OneBuyOnly` is the property's own scope.

**RiskGateProofs** (`TypeCorrect`, `BaselineIsFixed`, `OneYardstick`,
`OverlapBound`). A verdict is measured by a baseline that is in the table,
where nothing moves it. The bound on positions needs that the overlap counted
so far is at least the present one: when a BUY passes it has just seen fewer
than the limit, and all that can be added to that is waiting with it.

**TestnetTradeProofs** (`TypeCorrect`, `OneOrder`, `OneExit`, `ClosedIsSold`). `RowInv`: a row and the claim of its key go together and
nothing is sent without; `SameKey` shows that requests for the same order have
one key, so one claim is one order. The converse does not hold (see the disagreements). `ExitInv` and `MonInv`: a
position excludes a flatten, an exit order has a row, and the monitor's sell
step has just made it. `SellInv`: a SELL closes what it found, having sold.

**AccountProofs** (`TypeCorrect`, `KillSwitchStands`, `SecretsAreProved`,
`Refinement`). `SeenInv`: the row is never deleted nor its secret cleared, so
what a handler has read is still there. `KillInv`: while an order is barred the
switch is on, and the order, once it has read, has seen it on. `SecretInv`:
without overlap the one 2FA request has seen the row as it is. `OrderInv`: a
row and a place at the broker come after the claim; the ledger then maps to
`SubmitOnce`.

**RealtimeProofs** (`TypeCorrect`, `NewestStay`, `NothingMissed`). The two
properties are inductive with the types, given arithmetic on a circle longer
than a queue (`Wraps`, `OneMore`): appending the next number keeps "n-th from
the end", dropping the head keeps it too.

**AdviceProofs** (`TypeCorrect`, `AdviceIsInert`, `CriticalIsHeld`,
`UngroundedMovesNothing`, `DecisionsAreBacked`, `ScannerIsSilent`,
`ConfidenceIsPercent`). Little of it is about interleaving: what an analysis
returns is a function of what it read, and `DeskInv` says that what is on the
desk was read from the sources, whose ranges are `SourcesAssumption`. The risk
agent's stub is always objected to, the status `build_council` reports never
passes, and critical news always vetoes. A decision is backed because a
confidence above zero needs somebody who agrees and `Normalize` invents no
direction; no sum is needed for that. The scanner's silence needs sums:
`SumIsBulk` shows, by least counterexample over the subsets of a finite set,
that the library's `SumFunctionOnSet` is the number of units of weight its
members hold, whatever order it adds them in. The regime agent's WAIT weighs at
least 70 and the other seven agents at most 670 together, so no direction gets
more than 90 per cent, and at 90 per cent `Rank` needs a surge of more than 20
to come to 70, the worker's default threshold
(`workers/opportunity_scanner/__init__.py:28`; nothing else sets it). Likewise
the three sums of a tally are the weight of all votes, so its quotient is
defined and a per cent.

Every invariant and every action property of a passing run is stated by a
theorem, but for `TableCountsSales`, which is about sums over sets of SELLs. Only
model-checked besides: liveness (`ResolvedForGood`, `OcoFillReconciled`,
`GoneIsForgotten`, `SevereIsTold`, `EverySymbolIsSeen`), which
needs ENABLED and is beyond the prover, and the three runs that show a violation.

## Not modelled

Signing, HTTP and credentials; prices as numbers, except in `RiskGate`; audit
records and telemetry (no behaviour depends on them); several symbols in one
account, except as coins outside; several processes (the deployment starts one;
the workers are its tasks). TradeSubmission and LiveTrading are not composed:
the one treats what a handler does after its answer as nothing, the other takes
the claim of the row as done. Then, part by part:

- Health: one write and one read of a registry. Dashboards and the ClawTrade
  proxy: views and forwarding without state.
- Profit rotation: arithmetic over one list of prices; no statement of the
  repository says more of it than its own thresholds.
- Backtesting, certification, purged validation: batch computations over data.
  Paper trading: a few lines over one dictionary.
- Registration, login, tokens, the limiter's windows: they share no state with
  what is modelled, and each is one step between two awaits.
- Voice: the server parses a sentence and keeps nothing; the confirmation is a
  screen of the web client.
- Training and features: numeric code out of TLC's reach. Word lists and
  similarity search of memory and knowledge: scoring of texts.
- `news_monitor` logs a count; the dispatcher and alert deliveries are HTTP
  calls without state.

## What is left

TradeSubmission and LiveTrading composed, with the position that a crash between
the OCO and the insert leaves out; several symbols in one account;
`NoOrphanedProtection` for several BUYs that cannot meet; a proof of
`TableCountsSales`; the mean of the
ensemble against the answers it is made of.
