# VPP Italia: verification project

VPP Italia aggregates batteries, plans their charge and discharge a day ahead against the
Italian electricity prices, and sends set-points to the plants through Huawei FusionSolar
(or its simulator). This directory holds a TLA+ model of the parts of it whose
correctness depends on the order of events, the TLC runs that check the model on small
instances, and the theorems TLAPS proves for every instance.

`PROJECT.json` ties everything to the code: `map` gives, for each definition, the lines it
models; `runs` the TLC runs; `mutants` a plausible bug each property detects; `hazards` what
is hard to test here and which property watches it.

## 1. Inventory

Each process runs one asyncio event loop, so code between two `await`s is atomic and every
`await` is a point where anything else may happen. `Dockerfile:32` starts two worker
processes, each with its own applier, poller and price scheduler (`api/main.py`). They share the
PostgreSQL database and the plants; nothing else.

| Component | State | Operations | Hard behaviour | What makes it correct | Modelled in |
|---|---|---|---|---|---|
| Dispatch applier, `core/dispatch_applier.py` | `_applied`, the markers of slots pushed; the task | `start`, `stop`, a cycle every 60 s: read the rows of the current quarter-hour, set the mode, send charge, discharge or stop, mark | a cycle spans many awaits; lost answers; restarts lose the markers; wall-clock names; one applier per process, with markers of its own, on the same rows and plants | per process: pushed until acknowledged, then not again that day, and never an older slot after a newer one; of all of them: what stays due gets pushed | DispatchApplier, SetpointLedger |
| Dispatch plan routes, `api/routes/dispatch.py` | rows of `dispatch_plans` | apply a day to a site (wipe, insert), create a row | concurrent transactions, unique keys, rows locked one by one | each request is one atomic replacement or nothing; every request ends, if need be rolled back out of a deadlock | ApplyRequests, PlanStore |
| Battery and aggregate routes, `api/routes/batteries.py`, `admin_aggregates.py` | rows of `batteries`, `battery_readings`, `aggregates`; plants of the simulator | create, import, update, activate, deactivate, delete, command; create and delete an aggregate, assign | a plant and a row are two stores; rows loaded before an await and written after it; foreign and unique keys | what an operator did stays done; readings go with their battery; imports are all or nothing | Fleet |
| Battery poller, `core/battery_polling.py` | rows of `battery_readings`, `state` of `batteries` | poll every active battery, persist, mark offline | a reading from before an await is stored after it; one poller per process; plants refuse reads that come too close together | no old state is shown for ever: it gives way to what the plant does or to offline | Fleet |
| Huawei client, `connectors/huawei/client.py` | `_pending_tasks`, `_last_realtime_call` | charge, discharge, stop, status, `wait_for_task`, real-time data | state is checked before an await and written after it | one caller at a time sends no second command to a plant at work; asking again and again about a pending task unlocks its plant; a client alone is not refused for its rate | DispatchTasks, PlantSim |
| Token cache, `connectors/huawei/auth.py` | `_cache`, the lock | `get_token`, `refresh_token`, `invalidate` | many coroutines, an unlocked `invalidate`, expiry counted from arrival | tokens arrive before they expire; one fetch serves all | TokenCache |
| FusionSolar simulator, `connectors/huawei/simulator.py`, `sim_server.py` | plants with mode, power, charge, tasks, rate limits; tokens | dispatch, stop, read, tasks, faults, add and delete a plant | energy is accounted for lazily; two interfaces to one state | switch and power agree; charge moves as the ratings allow; no mode, pending task or server limit of a deleted plant stays | PlantSim |
| Real-time dispatch scheduler, `core/dispatch/scheduler.py` | schedules, tasks of its loops | price loop, hourly commands, watchdog of the state of charge, re-plan, forced schedules | three loops share mutable schedules; tasks are never polled | a battery taken in hand does not keep its old command; plans feasible; no failure ends a loop | DispatchScheduler |
| Greedy optimizer, `core/dispatch/optimizer.py` | none | fill prices, classify hours, schedule a battery | losses and bounds over the steps of a day | every step within rating and bounds | DayAheadOptimizer |
| Price service, `core/market/mgp_*.py`, `gme_client.py`, `scripts/backfill_mgp_prices.py` | rows of `mgp_prices`; caches of a client | fetch at 12:05, backfill, parse, fall back, upsert | failed fetches; two workers and a script write the same rows; long days | nothing invented; a curve shown never changes; nothing ends a fetcher | PriceFeed |
| Users and sessions, `api/routes/auth.py`, `admin_users.py` | rows of `users`, refresh tokens, links | login, refresh, logout, invite, reset, update, delete | counts and columns read before writes; handlers that end half-way | an administrator remains; the lock matches the count; tokens used once | Accounts |
| Backtester, executor, `core/scheduler.py`, `core/optimizer.py`, `core/optimization/`, offers, read-only routes, Modbus, OCPP, scripts, frontend, deployment | - | - | - | - | not modelled, see section 6 |

How they meet. The plan routes write `dispatch_plans`; the applier reads it joined with the active
batteries and commands the plants through a client made for each push. The manual route commands
the same plants through a client of its own. The activation and deletion routes change what the
applier may send and the poller may read. The poller reads the plants and writes the rows. The
real-time scheduler is a library component that `api/main.py` does not start; it keeps one
long-lived client.

That last point matters for what the client models say. The routes, the applier and the poller
make a new `HuaweiBatteryClient` for each use, so its token cache, pending tasks and rate limit
start empty each time. They protect a client that is kept, as the scheduler's is.

## 2. Modules

```
SetpointLedger <- implements - DispatchApplier - EXTENDS -> PlanStore <- implements - ApplyRequests
DispatchScheduler - EXTENDS -> DayAheadOptimizer
TokenCache     DispatchTasks     PlantSim     PriceFeed     Fleet     Accounts
```

A module `...Proofs` extends the module whose theorems it proves; HuaweiClientProofs extends
TokenCache and DispatchTasks, the two halves of a client.
`MC...` modules give the constants their values for TLC. Definitions named `Bug...` are wrong
versions of the definition that follows them. They are used for mutation testing only: no
specification refers to them, and replacing the right definition by the wrong one makes the
property named in `PROJECT.json` fail.

The abstract specifications are `PlanStore`, which ApplyRequests implements, and
`SetpointLedger`, which DispatchApplier implements. PlanStore is at the same time the part of
the applier's environment that writes plans: what the concurrent transactions were shown to
implement is what the worker is composed with.

**PlanStore.** `plans` maps a (battery, date, quarter-hour) slot to a power or to no row (the
unique key of `DispatchPlan`); `status` is the life of the battery's row (absent, portfolio =
inactive, active, deleted). One action per operation of the routes; `ReplaceDay` is
`POST /dispatch/apply` as its caller sees it. Time is an index of instants and `Calendar` names
what the wall clock of Europe/Rome shows, so midnight is a choice of a constant.

**ApplyRequests.** The same route as the database sees it: begin (read the active batteries,
take the date, divide the power), delete (snapshot, then row by row, waiting for rows others have
deleted), insert row by row (quarter-hours in the order of the client's schedule, batteries in any
order, as the SELECT has no ORDER BY; a row waits for an unfinished holder of its key and fails on
a committed one), commit in `get_db`, roll back. So a request holds some of its keys while it
waits for others; when requests wait for each other in a ring, PostgreSQL rolls one of them back
(`BreakRing`). Creating a row and deleting a battery wait for the same slots. `origin` is a
history variable: whose row a slot holds. The refinement mapping is the identity on the tables,
because a transaction changes them only when it commits.

**DispatchApplier.** One worker in each process (`Workers`), each with its own task `pc` and
markers, on the same rows and plants. A cycle is `BeginCycle` (takes the quarter-hour,
forgets markers of other days), `ReadPlans`, then for each row `NextRow`, `SetMode`,
`Accept`/`Refuse`, `RowDone`, and `EndCycle`. Each stands for the code between two awaits. The
rows are read once (`queue`) and the command is built from the row in hand (`cur`), so the clock,
the plans, the flags, the plants and what the other workers sent may all have moved when it is
sent. `Accept(w, b, FALSE)` is a
command the plant follows and whose answer is lost. `Crash` is a restart or `stop()`: only the
markers and the place in the cycle are lost. `lastPush` records what a plant last took from each
worker, `latest` what it last took from any; no worker reads them.

**SetpointLedger.** What the workers promise together, each with a ledger of its own: slots are
pushed until acknowledged, a slot acknowledged to a worker is not pushed by it again until its
ledger is cleared by a new day or a restart, only
slots the clock has shown are pushed, and only what was pushed last is acknowledged. The
refinement maps the ledgers to `_applied` and the last slots to `lastPush` without its power.

**TokenCache.** Coroutines that share a `HuaweiAuthClient`, the lock, the cache, and the token
registry of the server. `Acquire` is the check inside the lock; `AuthServe` and `AuthReceive` are
the two ends of the fetch, which happens with the lock held; `Verify` is the arrival of the
request at the server; `Rejected` is `invalidate()`, which does not take the lock.
`SessionsLost` is a restart of the server.

**DispatchTasks.** Coroutines that share a `HuaweiBatteryClient`, its `_pending_tasks`, and the
plants. A call is `Command`, `Stop` or `Ask` (everything before the await), `Serve` (the plant),
and `Ordered` or `Told` (everything after it). The rigid variable `careful` separates the
behaviours in which callers take turns, no message is lost, late or refused, and nobody asks about
a task known to have ended. `wait_for_task` is a caller that asks until it is told the end of the
task, until its timeout, or until a question fails; the model lets a caller stop at any time. The
plant takes a new command at any time and follows it instead
of the old one, as the real interface may; the simulator's own guard is left out on purpose, since
the question is whether the client's guard is enough.

**DayAheadOptimizer.** The optimizer as functions on whole numbers (energy in Wh, efficiency as
a fraction): `FullPrices` fills missing hours with the mean, `Classified` splits the hours at the
mean and its margins, `Step` is one hour of one battery, `DayOf` the recursive function over the
hours, `OptimizeDay` the plan of the fleet.

**DispatchScheduler.** The three loops over these functions. Schedules are mutable objects shared
by the loops: a loop that waits for a battery holds the object it took, also when another one has
taken its place in the dictionary (`Held`, `old`), while a re-plan patches the object in place
(`Patched`). `HourBegin`, `Answer` and `FailSafe` are the hourly loop, `WatchBegin`, `WatchAnswer`
and `WatchFails` the watchdog, `Fetch`, `PricesArrive` and `FetchFails` the price loop,
`Trigger`, `ForceSchedule`, `Start` and `Stop` what others call. The clients' pending tasks are a
set of batteries, because nobody ever asks for the end of one.

**PlantSim.** The simulated plants behind both of their interfaces: the methods that mirror the
client (`Order`, `Halt`, `WaitForTask`, ...) and the HTTP server (`Dispatch`, `GetDevRealKpi`,
`AddBattery`, `DeleteBattery`, ...). A call sleeps first and then runs without an await, so it is
one step; `Advanced` is the lazy account of energy. Beside them, the limit by which a client spaces
its own real-time calls: `CheckRateLimit` (before the await), `Arrive` (the server), `RecordCall`
(after it), `Lose`. The rigid variable `use` says who is served: anybody by both interfaces,
clients over HTTP, or one client alone with one call at a time.

**PriceFeed.** Each worker process, and the backfill script, is a record in `proc`: waiting for a
day, fetching zone by zone (`FetchZone`), reading the keys that exist (`SelectKeys`), committing
the rest (`CommitRows`), which the unique constraint refuses as a whole (`Clash`). `Answers` is
what a client makes of a call: the parsed feed (`Parsed`, with the chain of keys of an entry and
the hour modulo the day), or the flat estimate. A commit may do its work and be reported as failed.

**Fleet.** The rows of batteries, the plants' switches, the pollers of the worker processes
(`BeginCycle`, `Ask`, `Load`, `Store`) and the requests, split at every await (`Send`, `ReadBack`,
`StoreState`; `Remove`, `Wipe`, `EndDelete`; `Push`, `Insert`; `Commit`). A session writes the
columns whose value it changed, compared with what it had loaded, over whatever the row holds by
now (`Written`). A transaction that a foreign key is going to refuse is `doomed`. Calls of plants
may fail or be refused at any time, as often as they like: each poll makes a client that knows of
no earlier read, so nothing keeps it to the limit of the platform (`failCode 407`).

**Accounts.** Users, refresh tokens, links, and handlers that load a row, await, and commit the
columns they changed (`Write`). A handler may end between two commits (`Abort`). The rigid variable
`careful` separates the behaviours in which requests come one at a time.

## 3. Runs

| Run | Instance | What it shows |
|---|---|---|
| `apply_races` | 2 requests, 1 site of 2 batteries, 2 quarter-hours, rows deleted and inserted one by one in any order of batteries, rows created by hand, fairness | Every history of requests, activations, deletions and roll-backs is one of atomic replacements (`ImplementsStore`). If one row of a battery's day comes from a request, all do (`OneRequestPerDay`). Every request ends, committed or rolled back (`RequestsEnd`). |
| `apply_site_day` | the same | violation, see findings |
| `applier_safety` | 2 workers, 1 battery, 3 quarter-hours, two of one day and one of the next, all faults | For each worker `OneDayOfMarkers`, `RowInHandIsNew` and `SlotsInOrder`; together the workers implement the ledger (`ImplementsLedger`). |
| `applier_live` | 2 workers, 1 battery, 2 days of one quarter-hour, 2 schedules and a row by hand, one power the plant refuses, fairness | A battery that stays due ends with the set-point of the current quarter-hour (`DueGetsPushed`). |
| `tokens` | 2 callers (one of `refresh_token`), 3 tokens, life 3, margin 2, latency 1, time to 4, fairness | `ArrivesUnexpired`, `FetchesOnlyWhenNeeded`; once sessions are no longer lost every caller with requests is served again and again (`ServedAgain`). |
| `tasks` | 2 callers, 1 plant, 2 request ids, careful and not, fairness | Careful callers send no command to a plant at work (`InProgressRefused`); a plant whose pending task is asked about again and again is unlocked (`AskingUnlocks`). |
| `scheduler` | 2 batteries, days of 3 hours from the last hour of day 0, one market, 2 schedules built by hand, 1 call, lost answers and failed stops, fairness | A battery the hourly loop has had in hand follows the command of the hour or stands still, unless its stop failed (`TurnEndsOldCommand`); `PlansFeasible`, `ReplansFromReading`, `LoopsGoOn`. |
| `scheduler_sends` | 2 slow batteries, 2 cheap hours in a row, no fault | violation, see findings |
| `sim` | 1 plant, 2 commands, powers 1 and 4 at a rating of 2, charge 1..5, rate limit 2, time to 4, 2 callers of a client | `SwitchTellsPower`, `SocWithinRating`, a plant that is not there has no mode, pending task or server limit (`AbsentPlantIsClear`), and a client that has the plants to itself is not refused for its rate (`ClientKeepsLimit`). |
| `prices` | 2 workers and the script, 2 days and 2 days of backfill, 1 zone and the national price, 2 hours (3 on a long day), 1 restart, fairness | `NothingInvented`, `CurveIsFinal`, `BackfillRepairs`, `FetchersGoOn`. |
| `fleet` | 2 requests of any kind about 2 batteries and 1 aggregate, 2 pollers, reads refused, calls failing and processes restarting at will, fairness | `FleetIsOperators`, `HistoryGoesWithBattery`; once operators and restarts rest, what is shown is the state of the plant or offline, and the former if reads are refused no more (`OldStateGoes`). |
| `accounts` | 2 users, the second an admin, invited or not there yet, 3 calls of 2 handlers, a lock after 2 failures | While requests do not overlap an administrator remains (`AdminRemains`), the lock agrees with the count (`LockMatchesCount`) and tokens are used once (`UsedOnce`); the failure that reaches the limit locks the account even if they do. |

Every run but the two violations also checks the type invariant of its module, except
`applier_live`, whose module `applier_safety` checks.

### Why the bounds are enough

* *Requests, applier.* Requests for different sites touch different rows, so one site and two
  requests are the interesting contention; two batteries give each transaction two rows per
  quarter-hour to meet on. The request run stays on one date: a request names its rows by the date
  it took, so a change of date separates requests rather than making them meet. Two rows to insert
  are what it takes for two requests to hold each other's next key. The appliers meet
  at a plant, so two of them and one battery are the contention there. A second row of a cycle would
  only make a row wait longer; the row of the one battery already waits at every await, while
  clock, plans and the other worker move on. The proofs are for any number of both. Three instants give a change of quarter-hour within a day and one over
  midnight. The liveness run has one quarter-hour a day: for `DueGetsPushed` it only matters that
  the slot of one cycle differs from that of the next.
* *Client.* In `tokens` a token can be obtained, expire at the server, be refreshed and expire in
  the cache. In `tasks` one id is pending while another is at work or in an answer.
* *Scheduler.* Three hours are the least that have a cheap, a middle and a dear one. The clock
  starts at the fetch hour and runs through the day planned, so the loops meet the plan of the
  optimizer, a forced one that lacks a battery in one hour, and one that lacks an hour. One
  battery starts in the middle and one at a bound, so that charge and discharge are both cut.
* *Simulator.* The powers lie below and above the rating, the charges at, below and within the
  bounds, and time is enough to fill or empty the battery and for two reads a limit apart.
* *Prices.* The feed has a price of zero, missing national prices, a missing hour and a long day.
  Two writers are enough for every clash, the script is the third.
* *Fleet, accounts.* Conflicts are between two actors: two requests, or a request and a late poll;
  two pollers store for one battery out of order. Three calls are a login that fails twice and one
  that succeeds, or two demotions and a deletion.

Symmetry is used for the callers of the client and for the handlers, in runs without liveness.
`CHECK_DEADLOCK FALSE` is set where everything may really come to rest: all requests over, the
clock at its bound.

### Findings

* `apply_site_day`: the wipe looks only at batteries active now. A battery that was active at the
  first application and inactive at the second keeps its share of the first plan and follows it
  when activated again, though the route documents that applying again replaces the previous
  plan of the site.
* `scheduler_sends`: the hourly loop awaits the answer to a command and never asks for the end of
  the task, so the client (and the simulator) takes the task to be pending and refuses the next
  charge or discharge; the fail-safe then stops the battery. Of two hours of charging in a row the
  second is not charged. What does hold is `TurnEndsOldCommand`.

More disagreements between code and documentation were met, and no run is spent on them:

* All rows of an application get today's date, though `core/dispatch_applier.py:15` promises the
  set-points of the next 24 hours: a plan applied during the day ends at midnight.
* Slots are named by the wall clock, so in the hour repeated at the end of summer time the markers
  of the first pass suppress every push.
* The pending task is checked before an await and recorded after it: two coroutines that share a
  client can both command a plant, though the docstrings say the second raises. Hence `careful` in
  `InProgressRefused`. The pending task is also forgotten when any task of the plant is reported as
  ended (`client.py:354`), and before a stop that then fails (`:290`).
* The markers are kept "so we don't re-issue the same command every minute"
  (`core/dispatch_applier.py:46`). That is true of one process: the applier of the other process has
  markers of its own and pushes each slot, too. A slow cycle of one of them can even give a plant
  the power of an earlier quarter-hour after the other gave it that of the next; the worker's next
  cycle puts it right, as `DueGetsPushed` says. `SlotsInOrder` therefore speaks of each worker.
* An hour a schedule lacks sends nothing (`tests/unit/test_dispatch_scheduler.py:281-292` asserts it), and
  so do a battery its hour lacks, a day without a schedule (`core/dispatch/scheduler.py:142-144`) and
  what a cut of the round leaves (`:158`): these batteries keep the command of the hour before.
  `TurnEndsOldCommand` therefore speaks of the battery in hand.
* The platform allows one read of a plant in five minutes and the client keeps to it
  (`connectors/huawei/client.py:6-8`), but the poller makes a new client for each poll, every 10 s in
  each of two processes. A plant that keeps the limit strictly refuses nearly all of these reads
  (407), and the poller then shows the battery as offline (`core/battery_polling.py:101-108`) though
  its plant works. The simulator as deployed has a limit of 1 s, which only reads close together
  break. `OldStateGoes` says what holds however many reads are refused.
* A plant removed from the simulator leaves the records of its tasks and the limit of the mirror
  interface (`sim_server.py:215-223`), which a new plant of the same code takes over.
* `wait_for_task` stops asking at its timeout or at the first question that fails, and the plant stays
  locked in the client until somebody asks again. `AskingUnlocks` says that asking helps, and not
  that anybody asks.
* Positive power charges in the applier (`core/dispatch_applier.py:133`); the column is documented
  as "+ discharge, - charge" (`data/models.py`).
* A marker does not say which plan was pushed: a plan replaced within a quarter-hour already
  pushed takes effect in the next one.
* `mgp_scheduler.py:4` says a failed fetch is retried every 30 minutes; it is not retried at all.
  A failed call of a zone yields 24 prices of 80 EUR/MWh that are stored like real ones and never
  replaced. A price of zero is taken for a missing one and the national price stands in. The
  national price is the mean of the prices of one zone. On the day with 25 hours the last
  overwrites the first.
* The simulator calls itself a drop-in replacement of the client (`simulator.py:130`), but its
  `get_task_status` does not free the plant, the client's does. The server takes a plant never
  read to have been read when the host booted, and refuses the first reads after a boot.
* A command to a simulated plant does not settle the energy account first, so the time since the
  last look counts at the new power. `SocWithinRating` says what remains true.
* The estimated profit of a schedule is not updated by a re-plan.
* Two overlapping requests can refresh one session twice or use a link twice, and two
  administrators can demote each other at the same time; hence `careful` in `AdminRemains` and
  `UsedOnce`.
* A deletion that a late reading makes fail has already removed the plant; a creation that fails
  leaves one.

## 4. Fairness

* **Workers** (`DispatchApplier`), each of them: weak fairness of `Work`, because the event loop
  resumes a task that can run and the loop catches every exception; strong fairness of a read, a
  mode change and an accepted command, because the worker retries every minute and a database or
  plant that is asked again and again is assumed to answer at last. Nothing is assumed of operators,
  clock, crashes or plans: `DueGetsPushed` speaks of batteries that stay due, which excludes workers
  that die for ever.
* **Requests** (`ApplyRequests`): weak fairness of each handler's steps. `Begin` (a client calls)
  and `Abort` (a failure) are not fair: a request ends by its own steps, or because PostgreSQL,
  which looks for rings of waiting transactions after `deadlock_timeout`, rolls it back.
* **TokenCache**: callers with requests come back (the loops that keep a client do), callers of
  `refresh_token` need not; `asyncio.Lock` is first
  come first served, hence strong fairness of `Acquire`; the server answers at last.
* **DispatchTasks**: tasks end (the simulator completes or times them out), and a request that is
  sent again and again is served and answered at last. Nobody has to ask, to command or to stop:
  `AskingUnlocks` has the asking as its hypothesis.
* **DispatchScheduler**: weak fairness of the steps of the hourly loop and of the watchdog once
  they have begun: every request has a timeout. Answers may fail for ever.
* **PriceFeed**: weak fairness of the clock, of publication, and of each process; a call of the
  library answers or fails. Nobody has to start the script, and no call has to succeed.
* **Fleet**: weak fairness of each poller, which has a timeout on every call. Requests are not
  fair. Calls may fail and reads be refused for ever. `OldStateGoes` has as its hypothesis that
  from some time on no process restarts, and its second half also that reads of the plant are no
  longer refused. A process that has just started is told from one that sleeps between two cycles
  (`Fresh`), so that no step of a poll looks like a restart.

PlantSim and Accounts have no liveness property: every call there ends by itself.

## 5. Proofs

All theorems are about `Spec` (of the token cache, `CacheSpec`), for every value of the constants
that satisfies the module's named assumption. `PROJECT.json` lists them; each `...Proofs` module
states the inductive invariant it uses, `IInv`, before its lemmas, and shows with one lemma per
group of actions that every step preserves it.

* **DispatchApplierProofs.** `IInv` is the type invariant and, for each worker, `Sound`:
  `OneDayOfMarkers`, `RowInHandIsNew`, and two facts those need: while a row
  is being sent there is a row (`RowTyped`; without it
  `Marker` means nothing), and the slot of the cycle has been shown by the clock
  (`TickShown`; the ledger accepts no other). A worker writes nothing of the others but the
  plants, so they stay sound (`OthersUntouched`, `UntouchedStaysSound`). The operations of PlanStore
  are handled once, in `StoreStepTyped`. For `ApplierImplementsLedger`,
  Init maps to the ledger's Init and each step to a step or a stutter: `Accept` to `Push`, which
  needs `RowInHandIsNew` and `TickShown`; `RowDone` after an answer to `Acknowledge`, which needs
  the second half of `RowInHandIsNew`; `BeginCycle` to `Forget`; manual commands to `Override`.
  `WorkerNeverGoesBack` needs `OrderInv` besides: the slot a worker last pushed to a plant was shown
  by the clock, and no later than the slot of the worker's cycle. A cycle may outlast its
  quarter-hour, so the comparison is with the slot the cycle took and not with the clock. It is a
  theorem about each worker; of two workers together it would be false.
* **ApplyRequestsProofs.** `IInv` says which rows an open transaction may have written. Each row is
  checked when it is inserted, and stays admissible until the commit (`StaysAdmissible`, the theorem
  `CommitsWhatItChecked`), however long the transaction waits for its other rows: that is what the
  unique index and the foreign key do. Two transactions never hold the same slot (`Apart`), though
  each may hold what the other waits for. `OneRequestPerDay` then needs no more, and each
  commit is one `ReplaceDay` of PlanStore (`RequestsImplementStore`): the batteries exist, and all
  rows of the day that were there are among those deleted.
* **HuaweiClientProofs.** Of the token cache, `CacheIInv` follows a token: an answer on its way
  was issued no earlier than it was sent (`GrantedAge`), so the cached expiry is at most Latency
  later than the server's (`CachedAge`), so a request sent while `Valid` held has Latency left
  (`PostedAge`), which is as long as it may travel (`OnTheWay`). `LockHeld` says that the holder
  is the one who fetches. Assumption: `2 * Latency <= Margin` and `2 * Latency <= TTL`; the proof
  fails without it. In the code the margin is 60 s and the HTTP timeout 30 s, exactly the
  boundary; that timeout is per phase of a request (connect, read, write), so the assumption holds
  when a message takes at most 30 s over all phases. `OneFetchForAll` needs the lock and the check
  inside it, and holds whatever `invalidate()` does. Of the pending tasks, `CarefulIsGuarded`
  states when the client's guard is enough: one caller at a time, no faults, no question about a
  task known to have ended. `IInv` says that a plant at work is at work on the pending task, on
  one the caller is about to be told of, or about to be stopped (`WorkIsKnown`); that a question
  is about the pending task (`AskedPending`); and that answers are still true when they are
  handled (`AnswerIsCurrent`). `TypeCorrect` asks nothing of the callers: with lost, late and
  refused messages too, what the client takes to be pending is a charge or discharge of that
  plant.
* **PlantSimProofs.** `IInv` describes a battery as every operation leaves it: charge in its
  bounds, power within the rating, the switch telling the sign of the power, and never dated later
  than now. It yields `SwitchTellsPower`, `AbsentPlantIsClear` and the types. `ChargeWithinRating`
  is about one step, and rests on `GainMonotone`: the energy of a power is monotone through the
  efficiency and the rounding, so the bound at the rating is a bound for every power.
  `ClientNeverRefused` has an invariant of its own, `ClientInv`, for a client alone with its
  plants: calls come one by one, one under way left at least the limit after the last recorded
  (`Waited`), and what the server has counted the client has recorded, no earlier, or is about to
  (`Counted`).
* **FleetProofs.** The invariant is `TypeOK` itself, which relates the tables: history belongs to
  a row, an aggregate of a row exists, a store has a row it loaded. The lemmas `WrittenState`,
  `WrittenActive` and `WrittenAgg` say what a session writes of a row it loaded long ago: only the
  column it changed. `FleetIsOperators` and `HistoryGoesWithBattery` are then checked action by
  action.
* **PriceFeedProofs.** `IInv` is the type invariant, what each process holds between
  two awaits (`JobsOK`), and `NothingInvented`. The index of a day is a sum over a
  finite set, which the library defines by recursion over sets; that such a sum exists and is a
  number is proved by taking a least counterexample, with the library's theorem that the strict
  subsets of a finite set are well founded (`SumIsNatural`). `PricesStay` says that every commit
  only grows the table: the rows it inserts are absent from it, or the unique constraint refuses
  them all. `BackfillFills` has a hypothesis, `Complete`: GME has a price for every zone, or a
  national one, on every day. A feed without any leaves an empty day by design.
* **AccountsProofs.** `TypeInv` holds whatever overlaps; with it the second half of
  `LockMatchesCount`, since the same commit writes the count and the lock. `AloneInv` speaks of
  requests one at a time: what the handler loaded is still in the row when it commits (`AsSeen`,
  but for a lock that may run out), an update that takes an administrator away has seen another,
  and only the last session of a chain is live (`LiveAreLast`).
  Looking for this invariant showed that an earlier form of `LockMatchesCount`, without `careful`
  in its first half, is false: with four calls a successful login that overlaps a failing one
  clears one column and not the other. A run of three calls does not get there.
* **DispatchSchedulerProofs.** `IInv` says what each loop holds while it waits: the hourly loop
  (`HourlyOK`) a schedule, the one it took, with the hour it is at work on, an index of the fleet
  and an action of that hour; the watchdog (`WatchOK`) a schedule and an index. The other loops
  cannot spoil it: a schedule in the dictionary only goes on to one with the same hours or more
  (`Follows`), and one that is displaced is kept (`Stores`). `TurnsEndOldCommands` follows with
  `OnlyHourlyLeaves`: nobody but the loop itself goes on from its battery. `PlansStayFeasible`
  rests on `StepFeasible`, the arithmetic of one hour of one battery; on `DayFeasible`, where the
  recursion over the hours is followed by a least counterexample; and on `Reschedules`: a step
  changes at most one schedule, to one that is as feasible as the one before.
  `ReplanStartsAtReading` needs that the hours already over move no energy. `FilledIsNeutral`
  shows it: filled with the mean of the others, they lie at the mean of the day. It takes lemmas
  about sums (`SumWithout`, `SumOfSame`, `SumWithConstant`), all by a least counterexample among
  the subsets of a finite set. Assumptions: the one-way efficiency is at least a tenth (the round
  trip of a battery of the code has 92 % by default), so that the least energy worth a command
  still has a power in whole numbers. The theorems have two hypotheses about data: `HandMade`,
  schedules built by hand are feasible, since `force_schedule` checks nothing; and `ExactMeans`,
  means of prices are whole numbers, as prices are whole in this model and floats in the code. TLC
  evaluates both on the instance of the runs (`MCData`).

Every invariant and every action property of the passing runs, and both refinements, are stated
by a theorem. Only model-checked are the seven liveness properties (`RequestsEnd`,
`DueGetsPushed`, `ServedAgain`, `AskingUnlocks`, `LoopsGoOn`, `FetchersGoOn`, `OldStateGoes`),
because the prover has no rules for fairness and ENABLED.

## 6. What the models leave out

* A command that is still on its way when the applier process dies and reaches the plant after
  the restart. A command whose answer is lost is modelled, a delayed one is not.
* The time a read is refused for: in Fleet a plant may refuse any read. PlantSim has the limit
  itself.
* The database calls of the poller that fail; a poll that ends there stores nothing, as after a
  restart.
* Ties in the division of a site's power, where binary floats may round either way; rounding of
  energies and prices in general. DayAheadOptimizer works with whole numbers.
* Questions about the id of a stop: `_send_dispatch` records none, and no caller keeps one.
* Token values and request ids that nobody holds are used again, to keep the instances finite.
  A fresh value differs from every value somebody holds, which is all the code relies on.
* `change_password` replaces one hash by another, and `update_aggregate` changes columns that no
  other code reads; `set_soc` of the simulator is for tests; mails, hashing and signing.
* The ramp rate of a battery, which the optimizer never reads, and the profit, which nothing reads
  back.
* Market offers: each route is one call of the market and one commit and shares nothing with the
  other parts. An offer whose insert fails is at the market without a row; two cancellations may
  both pass the check of its status.
* Components without state of their own: the mixed-integer and linear programs over reals, the
  backtester, the dashboard. Components nothing constructs or whose jobs are placeholders: the
  dispatch executor, the jobs of `core/scheduler.py`, `POST /dispatch/optimize`. Thin wrappers of
  protocols, scripts run once, frontend and deployment.

## 7. Plan

What is left:

* prices as fractions in DayAheadOptimizer, which would make the hypothesis `ExactMeans`
  unnecessary;
* the lemmas about sums, which PriceFeedProofs and DispatchSchedulerProofs both need, in one
  module;
* the market offers, once a plan sends them, and the dispatch executor, once something
  constructs it.
