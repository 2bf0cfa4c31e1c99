# A verification project for moltbaby-releases

TLA+ models, TLC runs and TLAPS proofs for the parts of this repository whose
correctness depends on the order in which things happen. Every definition is
translated from the source; section 5 says where the source promises something the
code does not do.

## 1. The system

The repository is a monorepo of products that build on one another.

| product | what it is |
| --- | --- |
| `workerpool-lib` | a process manager in the style of pm2 with a background daemon; a pool of workers and tasks; an engine over stores; file locks |
| `quant-lab` | runs trading strategies: order state, cancels, retries, circuit breakers, position reduction, hot reload, bar cache |
| `quant-lib` | market data providers, routing, indicators |
| `ndtsdb`, `ndtsdb-bun` | a time-series database: write-ahead log, append files, partitions, SQL, indexes |
| `ndtsdb-lib`, `ndtsdb-cli` | the same storage in C, and a command line with an embedded JavaScript engine |

### Components

Per component: its state, its operations, how it interacts, what is hard, and what
makes it correct. (M) marks what is modelled so far.

**Process manager** (M), `workerpool-lib/src/process/ProcessManager.ts`.
State: a Map from name to `ProcessInstance` (status, pid, restart count, back-off
timer, monitor timer, two flags), the child processes, and one saved record per
name. Operations: `start`, `stop`, `delete`, `restart`, `stopAll`; events: exit and
error of a child, the one-second startup window, the back-off timer, the resource
monitor. Called by the daemon for each request. Hard: `await`s split `start` and
`restart`; the exit event of a stopped child comes after its name has a new
instance; timers outlive the Map entry that owns them. Correct when: one instance
never has two children; a stopped instance never comes back; a crashed one does,
within its budget of restarts; the saved record says what the Map says.

**Process records** (M, the status only), `process/ProcessState.ts`. `processes.json`,
written synchronously at each save, read by the next daemon.

**Daemon** (M, except the client side), `daemon/Daemon.ts`. State: a pid file, the
manager, the IPC server. Operations: `run` (restore, then serve), requests,
shutdown. Hard: it may die at any instant; its children are detached and live on;
a restore awaits each start. Correct when: a name that was stopped is not restored;
the restore ends.

**Worker pool, scheduler** (`core/Pool.ts`, `core/Scheduler.ts`, and their user
`quant-lab/src/scheduler/StrategyScheduler.ts`). State: workers (status, load, current
task, heartbeat) and tasks (status, assignee, retries). Operations: allocate, start,
complete, fail, pause, resume, heartbeat; a tick allocates, times out and reclaims.
Hard: late answers after a time-out and reassignment. Correct when: a worker's load
is the number of its tasks; no task is lost; an idle worker gets work.

**Engine** (`engine/Engine.ts`) over the stores (`store/*.ts`): claims and completes
work with a read, an await and a write. Correct when: one claim per work, load right.

**File lock** (`lock/FileLock.ts`): acquire, release, renew, time-out preemption on a
shared file. Correct when: two processes do not both hold it; nobody releases
another's lock.

**Position reducer** (M), `quant-lab/src/execution/position-reducer.ts`, driven by
`position-risk-manager.ts`: IDLE, WARNING, REDUCE, RECOVERY, with a cool-down and
confirmations from the executor. Hard: an executor confirms late, twice, for an older
action, or never. Correct when: one reduction is in flight; a single high sample sells
nothing by itself; a reduction that failed is tried again.

**Tiered circuit breaker** (M), `execution/tiered-circuit-breaker.ts`: three breakers with
reset timers, a global state derived from them, saved and loaded. Hard: listeners throw in
the middle of a trip, the file is written in place, timers do not survive a restart.
Correct when: the global state follows; an open breaker stays open over a restart; one
that resets itself does.

**Retry policy, cancel handling** (`execution/retry-policy.ts`,
`execution/cancel-race-handler.ts`): a queue of operations to retry behind a circuit
breaker, a set of cancelled orders. Correct when: an order is cancelled once.

**Order state manager, order recovery** (`engine/OrderStateManager.ts`,
`execution/order-recovery.ts`): order states moved by acknowledgements, fills, cancels
and rollbacks that come in any order. Correct when: a final state is final and
filled quantities do not fall.

**Live engine** (M, its life and its orders with a provider), `engine/live.ts`. State: the
orders placed, the ids it tracks, a poll timer, bars, positions, a running flag.
Operations: `start`, `stop`, `buy`, `sell`, `cancelOrder`, a poll every five seconds, a
handler for each bar, tick, execution; a check of funding fees. Hard: every one of them
awaits, and nothing excludes another: polls overlap, orders are placed beside a poll,
`stop()` may fall into `start()`, a bar may stop the engine that is handling it. Correct
when: the strategy hears what happened to each order; an order is no longer followed only
when it has ended; nothing runs after a stop.

**Gales grid strategy** (M, the live path), `quant-lab/strategies/grid/gales-simple.js`. State:
the grid levels, `openOrders` with an index by grid and a counter, the breaker, the ledger
of the position and several blocks. Operations: a heartbeat every five seconds that
guards, recenters, polices and places orders; order updates pushed by the host; save and
load. Hard: placing and cancelling are requests answered later and elsewhere; three
structures describe one list of orders; some seven guards share a few flags; a heartbeat
or an update may throw half-way. Correct when: the structures agree; no level keeps an
order that has ended; no guard undoes another; no block lasts for ever.

**Paper trading** (M), `quant-lib/src/providers/paper-trading.ts` and its copy in `quant-lab`:
the account a strategy trades against without an exchange. Operations: `placeOrder`,
`cancelOrder`, `checkAndFillOrders`, `reset`. Hard: `checkAndFillOrders` awaits a price with
orders in hand. Correct when: money, coins, position and statistics add up.

**Hot reload** (`hot-reload/*.ts`): lock, snapshot, module swap, state migration,
rollback. Correct when: a failed reload leaves the old state in force.

**Bar cache** (`cache/BarCacheLayer.ts`): reads a file, fetches, appends what is newer.
Correct when: bars stay sorted and single under overlapping requests.

**ndtsdb write-ahead log** (`ndtsdb/src/wal.ts`): buffer, timed flush, rotation, archive.
Correct when: after a crash each flushed row is replayed once.

**Exchange providers** (`quant-lab/src/providers/*.ts`, `quant-lib/src/providers`): HTTP and
WebSocket clients. State: sockets, subscriptions, a reconnect timer, a fallback poll.
Correct when: one socket per stream, each execution delivered once.

**Everything else** (HTTP API, reports, indicators, SQL, indexes, compression, native
code) is in `PROJECT.json` with the reason it is left out.

The places where each component is hard to test are listed, line by line, under
`hazards` in `PROJECT.json`, with the properties that cover them.

## 2. Modules

| module | models |
| --- | --- |
| `Supervisor` | abstract: what the process manager promises about one instance |
| `Service` | abstract: what the process manager promises about one name whose starts are patient |
| `ProcessManager` | `ProcessManager.ts` and the status part of `ProcessState.ts`; implements `Supervisor`, and `Service` where starts are patient |
| `Daemon` | `Daemon.ts` around the manager; EXTENDS `ProcessManager` |
| `LiveOrders` | the orders of `engine/live.ts`: placing, tracking, polling |
| `LiveEngine` | the life of `engine/live.ts`: start, stop, bars |
| `PositionReducer` | `position-reducer.ts` and the executor behind it |
| `TieredBreaker` | `tiered-circuit-breaker.ts` with its file and restarts |
| `OrderBook` | abstract: what the grid strategy promises about the orders it lists |
| `GalesOrders` | the order book of `gales-simple.js`: heartbeat, updates, save and load; implements `OrderBook` |
| `GalesGuard` | the guards of the same heartbeat: drawdown, position, leverage, ledger, failures |
| `PaperTrading` | `paper-trading.ts` |
| `MC...` | one per component, for TLC: bounds that are not plain numbers |
| `..._proofs` | one per component: the theorems; those about `Daemon` are in `ProcessManager_proofs` |

In all of them an action is one turn of an event loop: all that runs until the next
`await` that really waits, or the end of the callback. Names in the modules are those of
the source where TLA+ allows it. An operator with an underscore in its name
(`Disarm_HandleOnly`) is a mutant: the definition after it as a plausible slip would
have it, used to see that a property can fail.

### ProcessManager

- `Start(n)` is `start()` up to the `await` of the startup window. The spawn (or the
  opening of the log files before it) may throw, which the code turns into
  `errored`; both outcomes are disjuncts of `SpawnProcess`.
- `Stop(n)`, `Delete(n)`, `StopAll` are whole calls, for a reason worth knowing:
  `child.kill('SIGTERM')` sets `child.killed`, and `waitForExit` resolves at once when
  `killed` is set. `stop()` never waits.
- `Restart(n)` stops, and sleeps 500 ms if the name was managed; `RestartResume(n)`
  is what follows. `restarting[n]` counts the calls asleep: nothing in the code
  prevents two.
- `StartupWindow(p)` is the timer that ends the first second of a child.
- `ChildDies(p)` is the operating system; `ExitEvent(p)` is `handleExit` and, if the
  child is still in its startup window, the rejection that `spawnProcess` catches and
  turns into `errored`.
- `RestartTimer(i)` is the back-off timer of an instance, whatever the Map says now.
- `MonitorTick(i)` is one sample: it saves the instance, or over the memory limit
  restarts the name.

`instance` keeps every `ProcessInstance` ever made, also those the Map has dropped,
since timers and events of those still run. `child[p]` is the ChildProcess object and
the process behind it. `record` is `processes.json`; `Saved(file)` is a
save, which leaves the file as it was when the write fails (`saveState` swallows that), unless
`Writable` says that no write does. Instances and pids are handed
out in order, so that two states never differ only by which was taken.

Left out: back-off delays (a timer may fire at any time after it is set), log
contents, cpu and memory figures and the environment. `signal()` sends a signal and
changes nothing else: what it can do is `ChildDies`. An error event without a spawn
(`handleError`) is in `Daemon`, because its effect is to end the daemon.

### Daemon

`Daemon` adds the life of the process that holds the manager. `Crash` loses all
memory between two turns, or inside a turn that has saved `starting` or `stopping`
and done nothing else. `MemoryLost` turns the children left into orphans. `Shutdown`
is `handleShutdown`. `DaemonStart`, `RestoreNext`, `RestoreDone` are `run` and
`restoreProcesses`, one name after another, each waiting for its startup window;
requests are served only when the daemon is `up`. `SpawnErrorCrash` is a command
that cannot be spawned: `handleError` emits `'error'` on an emitter without a
listener. `wanted` is a history variable: the names started since they were last
stopped.

### LiveOrders

`exchange` is the truth, moved by `Accept` and `Progress` alone and by a cancel; `orders`
and `trackedOrderIds` are the engine's fields; `request[o]` is a `buy()` or `sell()` and
then the status its answer carries.

- `Place`, `Answered`, `PlaceFails`: the call, its answer (push, track), a rejection
  whatever became of the order. What `onOrder` does after an answer changes nothing here.
- `PollTick` is the interval. `GetOrders` is the moment the exchange reads its
  orders, which may be long before `PollTurn` looks at the list. `Walk` is the loop over
  the live Set: entries the list lacks are dropped, the first one that has changed is
  noted and its callback awaited (`OnOrderReturns`, `OnOrderThrows`).
- `StartOrderPolling` and `Stop` arm and clear the interval; polls under way go on.

Only the status of an order is kept; quantities and prices follow it. Orders are
numbered by the place of their answers, which is the order of `orders` and of the Set, so
that the loop is a cursor. `ListsOrders` says whether the provider's `getOrders` lists
orders, as the interface means it; in `PaperTradingProviderAdapter.ts:250` it returns an
empty list, so that each poll drops every order. A strategy without `onOrder` is the
special case in which each callback returns at once. Left out: trading without a
provider, ticks, executions, funding fees.

`crossed` is a history variable: it becomes true when a poll starts beside another poll
or beside a `buy()`, or a `buy()` beside a poll.

### LiveEngine

`Start`, `Opened`, `AccountLoaded`, `Initialised`, `Subscribed` are `start()` cut at its
awaits, `StartFails` the rejection of any of them, after which `running` stays true.
`Stop`, `OnStopReturns`, `OnStopThrows`, `Closed` are a `stop()` nobody in the engine
awaits, by the user or by `checkRiskControl`. `BarArrives`, `BarStored`, `OnBarReturns`,
`OnBarThrows` and the rest are `onKlineUpdate`; a bar that throws awaits its own `stop()`
when `stopOnError` is set. An interval is named by the `start()` that armed it, so that one
whose handle was overwritten is still seen to fire: `armed` is the truth and `timer` the
field. The database is open or closed; a bar stored on a closed one is rejected.

`Start` has a guard that `start()` has not: the engine does not run, or its last start has
failed, and no start is under way. It is an assumption on the caller (nobody in the
repository starts an engine twice), under which everything said of the engine holds.

`crossed` becomes true when a `stop()` runs beside a `start()`, in either order.

### PositionReducer

`UpdatePosition` is the method with the state machine it runs and the reduction it may
start; `ForceReduce`, `Reset`, `ConfirmReduce` are the others; `CooldownEnds` is the
clock. `executor[a]` follows each action on the other side: returned to a caller, being
worked on, dropped in silence (`HandleReduceInitiated`: a callback whose result is only
logged), confirmed once or again (`Confirms`, `ConfirmsAgain`). A leverage is an integer
and the thresholds are ordinary numbers among them; how much is sold is left out.

Two history variables. `strayed`: a reset, or a confirmation that came twice, has ended a
reduction that was in progress. `grounds`: what has spoken for selling since the machine was
last calm, that is a sample over the warning threshold (`warned`), a later one over
that for selling (`excess`), a forced reduction (`forced`).

### TieredBreaker

`Trip`, `ToHalfOpen` and `ConfirmReset` are the three moves; `RecordFailure`,
`RecordSuccess`, `CheckDrawdown`, `AttemptReset` and `ResetTimer` are the ways into them.
Each move computes the global state, calls its listeners, handles the timer and saves, in
that order: a listener that throws (`ListenerThrows`) leaves out what comes after it.
`saved` is the file; a write may fail, and `Ends` may tear it, after which `Restart` finds no
file it can read and begins anew, as it does with one in the old format
(`OldFormat`, `migrateFromOldFormat`), tripped or not, with the peak it has. `cooled[l]` says that `resetTimeoutMs` have gone by since the
trip; a timer may fire a moment earlier and is then not armed again. `Timed` are the levels
whose `resetTimeoutMs` is above 0: a level with `autoReset` and a timeout of 0 may be reset
at once, but gets no timer (403).

`unarmed` and `behind` are history variables: levels open without a timer that can reset
them, and a file that is not what is in force.

### GalesOrders

The strategy's orders on the live path. Three structures describe them: the grid levels
(`state`, `orderId`), `openOrders`, and the index by grid with a counter beside it. An order
is named by its place in the order they were placed; its id is `Pending(n)` until the
host says otherwise.

- `HeartbeatTrips`, `HeartbeatHalted`, `HeartbeatFrozen`, `Recenter`, `HeartbeatBarred` and
  `HeartbeatWorks` are the ways through `st_heartbeat`: the breaker trips and cancels everything; it is tripped
  and the heartbeat ends; another block or the freeze after a mass cancel ends it; the
  centre has drifted; it has drifted against the lean of the strategy, where a
  recentering is refused and nothing saved (3186); or the levels are put right with `openOrders`, orders are policed and at most
  one is placed. Which way is taken depends on prices, clocks and guards, which are free
  here (`GalesGuard` has the guards).
- `Cancel` is `cancelOrder`: where the bridge throws, the level is IDLE all the same and the
  order stays in `openOrders`; where it does not, the strategy forgets the order, though the host
  may have dropped the request (`Reached`).
- `OrderUpdate(n)` is `st_onOrderUpdate` with what it calls, for an order the host reports
  at any time, as often as it likes. Reports with fills the strategy has not seen throw.
- Left out of `placeOrder`: the query of the exchange for an order already there
  (3836), as no host offers `bridge_getOpenOrders`, and the returns for a price or quantity
  that rounds to nothing (3815).
- `Answers`, `Fills`, `Cancels` are the exchange. `Restart` is `loadState` from what was last
  given to `bridge_stateSet`; `SavesState` is `saveState`, which a turn that throws does not reach.

`KeepsBook` maps the index by grid to the abstract `book`, the index as saved to its `saved`, the
orders placed so far to `used`, and `MaxActiveOrders` to its `Limit`. In `OrderBook` an order is
placed once, at a level that has none, below the limit, and is in the saved book at the end of
that very step; whatever takes orders out may be saved later.

### GalesGuard

The guards of the same heartbeat, with what they judge: the position at the exchange
(`held`), the one last read (`exch`), the one the strategy believes in (`ledger`), the peak of
the equity, the flag `blockNewOrders` which position limit and leverage cap share.
`HeartbeatHalted`, `HeartbeatRecovers`, `HeartbeatTrips`, `HeartbeatStops` and
`HeartbeatWorks` are the ways through `checkCircuitBreaker` and `checkLeverageHardCap`, one
per outcome; `LeverageHardCap` has the arms of the latter on the flag the position has just
set. A heartbeat reads the position or not (`Refresh`); fills are missed, counted or counted
twice in between (`Fill`). `Restart` reads the position, gets an empty answer (which is 0), or
fails to read it and keeps the saved one. `order` records what the last heartbeat did. Left
out are the replay of executions into the ledger (3021), as no host offers
`bridge_getExecutions`, and the repair of a ledger that is off by less than a unit (3078).

### PaperTrading

`PlaceOrder`, `CancelOrder`, `Reset` are one turn each. `checkAndFillOrders` is `CheckBegins`, an
await of the price of the order in hand that fails or succeeds (`PriceFails`,
`PriceComes`), and a loop (`Match`, `Advance`, `Finish`) in which nothing else can run. The
price is fetched once per symbol; with one coin, once per check. A check walks the array
`activeOrders` was when it began, by index: a cancel moves the orders up and one is missed,
and an array that was replaced is walked to its end. `account` has the cash, the coins, the
position at cost and the statistics; quantities are integers, and the average price is
kept as what the position was entered for.

A trade that a check makes is recorded twice, by `executeTrade` (737) and after it (591); the
model's `traded` counts both. `executed` is a history variable: the quantity that changed hands
for an order, on whatever account. So is `crossed`: the kinds of operation (`cancel`, `check`,
`reset`) that ran beside a check.

## 3. Runs

| run | checks | outcome |
| --- | --- | --- |
| `pm_one` | `TypeOK`, `OneChildPerInstance`, `StoppedStaysDown`, `OnlyTwoEscapes`, `Supervises`, `SupervisionResumes` | hold, the last one under `Fairness` |
| `pm_patient` | `NothingEscapes`, `RecordAgrees`, `ServesByName` | hold for patient starts and a disk that takes every write |
| `daemon` | `DaemonTypeOK`, `NoResurrection`, `OneCopyPerCrash`, `RestoreEnds` | hold for patient starts and a disk that takes every write, the last one under `DaemonFairness` |
| `live_orders` | `NeverAhead`, `UntrackedIsSettled`, `NeverBack`, `Settles` | hold, the last one under `Fairness` |
| `live_engine` | `StoppedIsQuiet`, `RunningIsWhole`, `StopsSettle` | hold, the last one under `Fairness` |
| `reducer` | `ReducerTypeOK`, `OneReductionInFlight`, `SellsOnGrounds`, `RetriesUntilDone` | hold, the last one under `Fairness` |
| `breaker` | `BreakerTypeOK`, `GlobalFollows`, `FailuresTrip`, `OpenSurvives`, `SelfResets` | hold, the last one under `Fairness` |
| `gales_orders` | `IndexAgrees`, `CountAgrees`, `KeepsBook`, `DoneIsDropped` | hold, the last one under `Fairness` |
| `gales_guard` | `OrdersAreGuarded`, `LimitYieldsOnce`, `TripEnds`, `HardBlockEnds` | hold, the last two under `Fairness` |
| `paper` | `BooksBalance`, `CoinIsPosition`, `ExecutedOnce` | hold |
| `gales_duplicate` | `OneLivePerGrid` | violated: a level gets a second live order |
| `gales_recovery` | `RecoveryResetsPeak` | violated: the heartbeat throws before the peak is reset |

**What holds of the manager** without any assumption is about *instances*, with writes that
fail and any number of calls under way. `OnlyTwoEscapes` is the link to names: an instance with
a child that has not been signalled, or with a pending back-off, gets out of the reach of `stop()`
in two ways, a start that replaces it during its back-off (`ProcessManager.ts:93`) and the
late exit event of another instance of its name (`448`). Both are faults of the code; that a
`stop()`, a `delete()`, a sleeping `restart()`, the monitor's restart or the end of the instance's
own child is not a third is what the property says.

What one would like to say about *names* fails because of these two, and holds under `PatientSpec`:
a name gets a new instance only when every earlier process of that name is gone and no back-off
timer of it is pending (`Quiet`), and `processes.json` takes every write. For requests that is a
rule callers can keep. For the end of a `restart()`, also the memory monitor's (`204`), it is an
assumption on the child, which must be gone within the 500 ms the call sleeps: the code does not
wait for it. So these properties say nothing of the overlaps of lines 93, 204 and 448, which
`pm_one` has; what they are about is late events, stops in the startup window, and the file.
For such starts a name is what `Service` describes: one process after another, relaunched at
most `MaxRestarts` times between two starts, and after a stop nothing but what the next start
launches. `ServesByName` maps a name to its one instance that has a child or a back-off timer,
and to `down` without one. `RecordAgrees`, and in the daemon `NoResurrection`, also need the
writes: a failed one leaves a record that is older than the Map.

**Of the daemon**: a restore ends, whatever its commands do, unless the daemon dies in it. A
saved command that cannot be spawned ends every daemon that restores it (`501`); that this does
not go on for ever is `MaxCrashes`, a bound, and is not shown.

**Of the live engine**: `NeverAhead` holds whatever overlaps. That no order is forgotten
(`UntrackedIsSettled`) holds until requests cross, and fails then in two ways: a poll
drops an order its list does not know yet, and an older list applied after a newer one
takes a finished order back to PARTIAL when nobody tracks it any more. `NeverBack` is the second
of these as an action property: until requests cross, nothing the strategy was told is taken
back. In the same way
`StoppedIsQuiet` and `RunningIsWhole` hold until a `stop()` crosses a `start()`; then `start()`
arms its timers on a stopped engine, and a late close takes the database of the next
start. `StopsSettle` holds without that excuse.

**Of the reducer**: whatever is confirmed late, one reduction is in flight, unless a reset or
a repeated confirmation ends one it did not mean (`strayed`). `SellsOnGrounds` says on what the
reducer sells by itself: since it was last calm there were two samples, one over the warning
threshold and a later one over that for selling, so that a single spike never sells; or it
repeats a forced reduction that has failed, and then there need not have been a warning at all. In
both cases the sample that sells may be a calm one, since the state stays REDUCE over the cool-down,
although the reason the action carries claims a leverage over the threshold.
`RetriesUntilDone` says what the
retry is worth: it ends REDUCE, except when an action was returned to a caller, or
dropped by a callback, and nobody confirms it.

**Of the breaker**: the global state follows its levels through anything. `OpenSurvives` names
its exceptions: a save that failed, and an end in the middle of a write. `SelfResets` holds
of levels that opened in this process; one loaded open from the file has no timer
(`unarmed`), and waits for a person.

**Of the grid**: through failing cancels, lost and repeated updates and a restart, index,
counter and list stay one (`IndexAgrees`, `CountAgrees`), so the limit of active orders holds
for the strategy's own list, and an order the exchange has done with is dropped at the latest by its age
(`DoneIsDropped`). `KeepsBook` adds what steps may do: no order enters twice, or at a level that
has one, and none is placed by a turn that does not save it, so that a restart forgets no order. What does not follow is that the exchange has no more orders than the
list: `gales_duplicate`. `st_onParamsUpdate` (3380), which replaces the levels while orders
are open, is not modelled, and what is said here holds while the parameters stay. Of its guards, none undoes another (`OrdersAreGuarded`) but in one
case, which `LimitYieldsOnce` pins down to a single heartbeat.

**Of paper trading**: `ExecutedOnce` holds whatever overlaps: an order that two checks have in
hand, or that is cancelled or reset away under a check, is executed in full once if it ends as filled
and not at all otherwise, because the second fill is of quantity 0. Only what
becomes of the lists (no pending order is lost; the history and the trades have what ended) excuses a
reset beside a check, as does `CoinIsPosition`. `BooksBalance` excuses
overlapping checks, for the 0: a position of size 0 that gets a fill of 0 has an average price
of 0/0 in the code, which the model, having integers, cannot show.

### Bounds

`MaxInst` objects, `MaxPid` spawns, `MaxSleep` restarts asleep. With one name, three
instances, three spawns and two restarts asleep there is room for an instance in back-off, a second
one running and a third starting, and for one of them to use its restarts up
(`MaxRestarts` is 1). The patient runs use two names, one of them without autorestart. The
daemon run has two deaths (`MaxCrashes`), enough for a death during the restore that
follows a death. The bounds end a behaviour by disabling spawns; hence in `Daemon` a turn
does not use the last free instances that names still to be restored need (`RoomToStart`).

Two orders and two polls are what the loop, an order placed beside a poll, and two lists
applied in the wrong order need. Three starts, two detached stops and two bars
(`live_engine`) let a late stop of the first start reach the third, and a bar be overtaken
by another. This is the one run without a check for deadlock: a stopped engine that has
used up its starts rests, as it should.

The reducer's leverages lie on each of the three thresholds and above the highest; three
actions allow a stale confirmation of the first during the third. The breaker has a level
that waits for a person after one failure and one that resets itself after two failures and some time and
watches the drawdown, with two equities of which the lower is a trip: each kind of level
and each way in. Counters stop at `MaxCount`, beyond every limit.

`gales_orders` has two grid generations of one level, two orders of two fills, one active
order allowed, one restart. That is one order replaced by another at the same level and at a
recentered one, partial fills, and a save between any two turns; index, counter and limit
are proved for any number of levels and orders. `gales_guard` keeps positions up to one above
the limit, gaps on either side of the threshold, equities with one on each side of the
drawdown and the 0 of an unknown one. `paper` has three orders, so that a check walking past
a removed one has another behind it, and two checks; prices are multiples of 12 and fees
1/12 and 2/12, so that average prices and fees come out even. Its constraint
(`ResetCrossesAlone`) lets checks overlap each other and cancels in any mixture and a reset only
beside checks that nothing else has crossed; the theorems have no such constraint.

### Fairness

- `ProcessManager`: an exit event is delivered, a timer fires, a sleeping call resumes
  (Node's event loop), and a child that was sent SIGKILL dies (the kernel). Requests are not
  fair, and neither is the death of a child that was sent only SIGTERM.
- `Daemon`: the steps of the daemon itself, and that a dead daemon is started again, which
  is the premise of the property and not a promise of the code.
- `LiveOrders`: the interval fires, answers are handled, a callback returns or throws (it
  may throw every time), and `getOrders` does not fail for ever, which is strong fairness of
  `GetOrders`.
- `LiveEngine`: what is awaited settles. Nobody has to start, stop or send a bar.
- `PositionReducer`: positions are reported again and again, the clock runs, and an
  executor that works on an action does not fail for ever.
- `TieredBreaker`: time passes, and a timer whose time has come fires (the event loop).
- `GalesOrders`: strong fairness of the heartbeat that finds an order timed out: heartbeats
  come every five seconds, neither the breaker nor a drift against the lean holds them all, orders
  grow older. Nothing is
  asked of the exchange or the host.
- `GalesGuard`: the cool-down ends and heartbeats come; and, strongly, readings of the
  position do not fail for ever.
- `PaperTrading`: none; its properties are safety.

## 4. Proofs

Each `_proofs` module proves its theorems for every value of the constants, from the
named assumption on constants of its module and nothing else.

| component | theorems |
| --- | --- |
| `ProcessManager` | `TypeCorrect`, `OneChild`, `StopSignals`, `StopIsFinal`, `TwoEscapes`, `Refinement` (`Spec => Supervises`) |
| with patient starts | `NothingOutOfReach`, `RecordIsCurrent`, `EachNameIsServed` (`PatientSpec => ServesByName`) |
| `Daemon` | `DaemonTypeCorrect`, `NothingResurrected`, `CopiesPerCrash`, `RestoreIsFree` |
| `LiveOrders` | `LiveTypeCorrect`, `EngineFollows`, `NothingForgotten`, `CopyMovesForward` |
| `LiveEngine` | `EngineTypeCorrect`, `StopSilences`, `RunningHasAll` |
| `PositionReducer` | `ReducerTypeCorrect`, `OneReduction`, `NoSpikeSells` |
| `TieredBreaker` | `BreakerTypeCorrect`, `GlobalIsDerived`, `FileIsCurrent`, `FailuresCount`, `OpenIsArmed`, `OpenIsKept` |
| `GalesOrders` | `OrdersTypeCorrect`, `IndexIsExact`, `LimitHolds`, `BookIsKept` (`Spec => KeepsBook`), `NothingUnsaved` |
| `GalesGuard` | `GuardTypeCorrect`, `OrdersGuarded`, `LimitYields` |
| `PaperTrading` | `PaperTypeCorrect`, `BooksAlwaysBalance`, `CoinFollows`, `OrdersFillOnce` |

What each says is in `PROJECT.json` and above its statement. The inductive invariants, and
why they are stronger than what they prove:

**ProcessManager.** `Inv == TypeOK /\ Linked /\ OneChildPerInstance /\ PidIsChild /\
StoppedHasNoTimer /\ StoppedIsSignalled`. `OneChildPerInstance` is not inductive: that
the back-off timer may spawn depends on its instance having no child, and that the exit
event may set the timer depends on the child that exited being the only one. A stop
signals the child only because the instance's `pid` *is* that child until the stop
(`PidIsChild`), and it ends the matter only because no timer is left
(`StoppedHasNoTimer`). `Linked` ties objects to their owners: what is armed, managed
or owns a child not yet reaped has been created. One lemma per action shows that it keeps `Inv`.

For `Refinement`, `Phase` maps an instance to its place in the abstract life. Each
action is shown to be, for every instance, one of the abstract moves or no move
(`Behaves`); `StopAll` is why the abstract step moves all instances at once.

For `TwoEscapes` each action that writes the Map is shown to keep the property; what it needs beside
`Inv` is that an instance with a pid is online (`PidIsOnline`), so that a start, which refuses a name
that is online, replaces no instance with a child.

**Patient starts.** `PatientInv` adds to `Inv` what patience buys. An instance is `Active` while it
has a child or a back-off timer. A name has one active instance at most (`OneActivePerName`), since
its next one is made when all earlier ones are quiet; and the Map never leads past an active
instance to another of its name, and leads to it unless it was stopped (`ActiveIsManaged`).
The second is what a late exit event needs, which drops its name
from the Map: what it drops is then no successor. `StoppedHasNoPid` keeps the monitor of a stopped
instance from saving it. `NothingEscapes` follows, and `RecordAgrees` is
inductive beside them: each save is of the instance the Map has.

`ServesByName` is shown by name. An instance that serves the name before and after a step does
what `Supervisor` allows it, of which only moves that `Service` has remain. One that begins to serve is
new (`BeginsAfresh`): had it been made before, no move of `Supervisor` would take it out of rest.
It is then what the Map leads to in the next state, which it was not before; the step has started
the name, and by patience nothing served it.

**Daemon.** `DaemonInv` is `PatientInv` with the daemon's types and three parts. `OnlyWanted`: what
is saved as running, what is managed and what waits to be restored has been started since it was
last stopped. The middle one is needed for the exit that saves, the first for the death that leaves a file
behind. `FewOrphans` counts what dead daemons left by cardinality: a death
leaves at most the one unsignalled child `OneActivePerName` allows a name, and a shutdown none.
`RestoresAfresh`: a daemon that restores remembers nothing of the names it has yet to start, which is why
a restore is patient by itself (`RestoreIsFree`). The assumption is that `NoName`
is no name and `MaxCrashes` a number.

**LiveOrders.** Statuses only move forward at the exchange, so that whatever is on its way,
an answer or a list, is a status the order has had (`AnswersPrecede`,
`SnapshotsPrecede`). While nothing has crossed there is one poll and no request beside it
(`Alone`), hence its list has every known order (`SnapshotComplete`) and what it reported
is still the engine's copy when the callback returns (`ReportIsCurrent`).
`UntrackedIsSettled` needs all of them. `NeverBack` needs one more: what a poll is about to note is
no older than the copy it replaces (`CopyPrecedes`), which holds while there is one poll, whose
list was read after whatever an earlier poll or answer has noted. `WalkFacts` says what a turn of the loop may do,
for both actions that contain one.

**LiveEngine.** `EngineTypeOK`, and `Uncrossed` as long as nothing has crossed: what fires is
what the handle holds, and only on a running engine whose `start()` is done; a running
engine that starts or has started has no stop under way; and each await of `start()` has behind
it what the earlier ones have done.

**PositionReducer.** `ReducerTypeOK /\ OneReductionInFlight`; the second is inductive
together with the part of the first that says an action exists for the executor when it is
in the audit. `NoSpikeSells` needs `Grounded` as well, which reads the history off the
state: a warning lies behind WARNING, an excess or a forced reduction behind REDUCE, and the last
action of a forced spell has not been carried out; so that when a sample sells without an excess,
that action has been confirmed as failed, unless something strayed.

**TieredBreaker.** `Sound`, the relation of levels, counters and global state, holds of memory
and of the file alike, which is what a restart needs; `SavedIsCurrent` ties the two, and
`ArmedWhileOpen` the timers to the levels. `OpenSurvives` follows step by step, the file's
word being memory's while it is current.

**GalesOrders.** `Sound` says of one copy of the strategy's state that index, counter and list
agree, and that the ids in levels and list are those of orders placed for that level; the invariant has it of `state` and of `saved`,
since a restart takes the latter. `Unplaced` says that what is not placed has no number yet, so
that a new order disturbs nothing. Counting is by cardinality: `Remove` is shown to take from
the counter what it takes from the list, which is where `Known` must name one order at most.

`KeepsBook` is a refinement shown action by action: each turn takes orders out of the index
(`Clears`, closed under composition, as a heartbeat removes several times over), and
`HeartbeatWorks` puts one in after that, whose number is not among the `used` ones because it had
none. `NothingUnsaved` is then a fact about `OrderBook` alone: its steps keep the book within the
saved one.

**GalesGuard.** `GuardTypeOK /\ CountIsFresh /\ OrdersAreGuarded`: the calm heartbeats are zero
outside a trip whose cool-down is over, without which a trip would begin with a count.

**PaperTrading.** `Sound` is the sum of the books with what the arithmetic needs of a position;
`Known` says that checks and the book hold only orders that were placed; `Sellable` that, until
a reset crosses a check, the coins are the position and an account with a sale among its orders
knows its coin, without which a sale would move the position and not the coins. `ExecutedOnce`
is inductive beside the rest: what a check executes is what its order has left (`Left`), and the
executed quantity changes only where the status becomes `Filled`, or does not change.

Every safety property of a passing run is proved. Only model-checked is every liveness property
(`SupervisionResumes`, `RestoreEnds`, `Settles`, `StopsSettle`, `RetriesUntilDone`, `SelfResets`,
`DoneIsDropped`, `TripEnds`, `HardBlockEnds`), which this prover does not treat. The type
invariants of `LiveOrders`, `LiveEngine`, `GalesOrders`, `GalesGuard` and `PaperTrading` are proved and take
no part in a run. The two violated properties of section 5 have no theorem, of course.

## 5. Where the code and its promises part

Two are shown by runs, because the source itself states what they violate.

- `gales_duplicate`: a comment at `gales-simple.js:3777` promises a second check against
  duplicate orders "when the grid's state was lost". The check asks the strategy's own list. A cancel that
  reaches the host while an order has only its pending id is dropped there, the
  strategy forgets the order (4029), and the level gets another beside it.
- `gales_recovery`: a comment at 1104 says the peak is reset on recovery. The line reads
  `currentNetEq` before its `const` (1129) and throws; the old peak stays, and the next
  heartbeat compares the equity with it again.

Others are visible in the models, or were met while reading. In the process manager and its
daemon:

- A start during a back-off gives a name two children: the replaced instance's timer still
  fires (`ProcessManager.ts:93`, `489`).
- SIGKILL is never sent: it is guarded by `!child.killed` after a SIGTERM (`164`).
- The late exit event of a stopped instance drops its successor from the Map (`448`).
- A restart resumes after 500 ms whatever still runs (`204`).
- A save that fails is only logged (`ProcessState.ts:196`): a daemon that dies then restores what the
  older file says.
- A command that cannot be spawned emits an `'error'` nobody listens to (`501`); saved, it
  ends every daemon that restores it.

In the live engine and its providers:

- `PARTIAL_FILLED` (`live.ts:510`) is not a status: an order answered as partial is not tracked.
- A poll's list may be older than an order it then drops (`764`).
- The drawdown check calls `stop()` without awaiting it; `onStop` that throws leaves the database
  open; nothing unsubscribes from the provider; a failed `start()` leaves `running` true.
- The funding fee compares a time taken before the fetch with the next settlement, which lies
  ahead (`884`).
- `bybit.ts` defines `getExecutions` twice (`601`, `1119`), the second replacing the first; the
  polling that stands in for a socket stops when the socket opens, before it is authenticated
  (`485`).

In the grid, all in `gales-simple.js`:

- The leverage cap is to be lifted below nine tenths of it (`1348`), but the position check of
  the next heartbeat clears the shared flag first (`1206`); and where the position is over its
  limit, the lifting of the cap lifts that block too (`1351`).
- A hard block of the ledger set at a gap of 2000 U does not stop anything while the gap is
  between 1000 and 2000 (`1273`).
- The ledger's offset is taken before the ledger is aligned (`2755`), so that it is there
  afterwards as a gap of its own.
- An equity that is not known counts as 0, a drawdown of all of it (`1129`, `1144`).
- `newCenter` is not defined where a fill recomputes the grid (`1734`, `1742`, `1747`).
- `'Cancelled'`, as hosts write it, is not `'Canceled'`, as the strategy compares.

In paper trading (`quant-lib`, and the copy in `quant-lab`):

- A check fills an order that was cancelled, or belongs to an account that was reset, while it
  awaited the price (`567`); overlapping checks fill it twice, the second time with quantity 0,
  which makes an average price of 0/0.
- A trade made by a check is in `trades` twice (`591` after `737`), while `stats.totalTrades` counts
  it once (`733`).
- Fees and waiting orders reserve nothing: the cash can go below zero.

In the breaker (`tiered-circuit-breaker.ts`):

- Reset timers are not armed for a level loaded open, and one that fires a moment too soon
  (`430`) is not armed again.

## 6. Not modelled, and what comes next

`PROJECT.json` lists each part left out. The reasons fall into three groups.

*Out of reach or without an order to get wrong*: the SQL engine, indexes, compression and
the native code are large sequential computations over data; indicators are floating point;
reports, formatting and the HTTP API read what others keep. The exchange providers are clients
of services whose behaviour the source does not determine; what the engine sees of
them, late, lost and reordered answers, is in `LiveOrders` and `GalesOrders`.

*Parts of modelled components*: the simulation mode of the grid, its ledger of profits, market
regimes and magnets; the trading of the live engine without a provider, its ticks, executions and
funding fees; the alerts of the breaker's level D; the leverage limiter of the risk manager; marks
and the equity curve of the paper account.

*Candidates*, in this order:

1. `OrderState`: fills, cancels and rollbacks of `OrderStateManager.ts` in any order, with
   `order-recovery.ts` after a restart. Theorem: a final state is final.
2. `Wal`: rows appended, flushed, rotated, archived, replayed after a crash. A flush that rotates
   writes its buffer to both files (`wal.ts:79`).
3. `FileLock`: several processes, each file operation a step, a clock that lets the lock expire.
   Mutual exclusion fails as written (`FileLock.ts:54`, `96`); what holds when acquisitions do not
   overlap, and a theorem for that. `Engine` over the same store (`Engine.ts:239`, `287`).
4. `CancelRace` and `RetryPolicy`; `BarCache`; `HotReload`; two daemons over one set of files.
5. `WorkPool`, last because no store of the repository offers what its scheduler calls.
6. An abstract circuit for one level of `TieredBreaker`, and the steps that show the breaker to
   implement it, restarts included.
