# cardano-validator-watcher: a TLA+ model, its checks and its proofs

The watcher follows the Cardano chain for a set of stake pools. It computes in
which slots each pool must produce a block, walks the slots as the chain grows,
and exports whether each of those blocks was validated, missed or orphaned. It
runs for months beside a chain it does not control, over two upstreams that fail,
and keeps one row of state across restarts. The questions worth asking are about
long runs: is a slot ever lost, judged twice or judged wrongly, over epoch
changes, failing calls and crashes?

Source paths below are relative to `src/`.

## 1. The system

| Component | Code | State | Operations |
|---|---|---|---|
| Block watcher | `internal/watcher/watcher_block.go` | cursor `(Epoch, Slot)` in memory, counters and gauges | boot, one pass per tick: next leaders, scan, verdicts, save, epoch transition |
| Watcher state | `internal/watcher/watcher_block_state.go` | one SQLite row | Load, LoadAndReconcile, Save |
| Slot leader service | `internal/slotleader` | the `slots` table, UNIQUE (epoch, pool) | refresh (one goroutine per pool), next-epoch scheduler, queries |
| Socket proxy | `internal/cardano/cardanocli/socketproxy.go` | a cooldown per node, node gauges | dialRemote, probeAll, updateMetrics, proxy |
| cardano-cli / cncli client | `internal/cardano/cardanocli/cardano.go`, `executor.go` | none (temporary files) | Ping, StakeSnapshot, LeaderLogs, LeaderLogsNextEpoch |
| Blockfrost client | `internal/blockfrost` | none | thin wrappers over the HTTP API |
| Status watcher | `internal/watcher/watcher_status.go` | HealthStore: one flag | checkStatus at each tick |
| Pool watcher | `internal/watcher/watcher_pool.go` | TTL cache, gauges | fetch at each tick |
| Network watcher | `internal/watcher/watcher_network.go` | gauges | three collectors at each tick |
| Application | `cmd/watcher/app/watcher.go` | the errgroup | boot order, shutdown |
| HTTP server, config, database, metrics, pools | `internal/server/http`, `cmd/watcher/app/config`, `internal/database`, `migrations`, `internal/metrics`, `internal/pools` | no state that changes | start, stop, validate, migrate, register |

### How the components interact

* `run` (application) refreshes the current epoch's schedules *before* anything
  else starts; it then starts the scheduler, the HTTP server and the watchers in
  one errgroup. An error of any of them cancels all, and the process is restarted
  from outside.
* The block watcher *reads* the health flag once per pass, the slots table several
  times per slot, Blockfrost in between, and *writes* its own row. It asks the slot
  leader service to refresh the new epoch during a transition.
* The scheduler *writes* the same slots table, for the next epoch, at any time of
  the last day of an epoch, from another goroutine.
* Both refreshes run `cardano-cli` and `cncli`, and the status watcher pings the
  node, all through the socket proxy: each command is one connection, hence one
  goroutine that reads and writes the nodes' cooldowns beside the prober. These
  goroutines hang on the application's context, but are not in its errgroup.
* The status watcher *writes* the health flag; the pool, network and block watchers
  read it once, before a pass, and the HTTP server reads it for `/readyz`.

### What is hard here

* *Non-atomic passes*: the chain grows between any two calls; the latest block, the
  latest epoch and the rows are read at different times.
* *Partial failure*: any call fails in the middle of a scan or of an epoch
  transition; errors are mostly logged and the next tick is expected to repair.
* *Crash and restart* between a verdict and the save of the cursor, or between two
  rows of a refresh.
* *Races* on the slots table (watcher and scheduler) and on the cooldowns and
  gauges (connections and prober).
* *Shutdown*: a signal, or the first error, at any point of boot and work, with a
  command and its connection in flight and a server that may not have started.
* *Stale data*: a flag that lags the upstreams, a cache that outlives two intervals,
  passes that the first error cuts short.
* *Boundaries*: the first and last slot of an epoch, empty schedules, empty epochs.

`PROJECT.json` lists these hazards one by one, at their lines, with the
properties that watch them.

### What makes each component correct

| Component | Properties |
|---|---|
| Block watcher | verdicts are right and on elected slots (`VerdictsTrue`), counted once (`CountersExact`), streaks exact (`StreakExact`), no slot silently lost (`Coverage`), the cursor is behind the chain (`CursorBehindTip`), a pass without failure leaves nothing behind (`PassesReach`), and it gets everywhere (`CatchesUp`); all of it in one specification that it implements (`KeepsAccount`) |
| Watcher state | the saved cursor is never ahead of what was done (`SavedNotAhead`) and never moves back (`SavedMonotone`) |
| Slot leader service | rows are write-once and complete after a success (`KeepsTable`), of the right epoch (`RowsRight`), every boot gets through (`Boots`) and meets no other writer (`BootAlone`), no refresh waits for nothing (`NeverStuck`), the limit is kept (`LimitKept`, which fails, and `LimitTwice`) |
| Socket proxy | no node forgotten (`SkippedOnlyIfFailed`) nor passed over by a connection (`PassedOverIfFailed`) beyond a bound, gauges follow within a bound (`GaugesInTime`); in the end it has failed over and back and the gauges show it (`Settles`); one active node (`OneActive`, which fails) |
| One proxied connection | a connection that is over is given up with all its goroutines (`NoLeak`), which never wait for each other in a circle (`ClosingGoesOn`), closed only after both copies (`ClosedAfterCopies`), and never cut while it is only slow and neither peer has closed a side (`CutOnlyIfOver`) |
| Application | once its context is done the process ends (`Terminates`), no member holding it up (`NobodyHeldUp`), never with status 0 after a failure (`FailureReported`), and `run` does not return before the command that is running (`NoOrphan`; a panic does not wait for it) |
| Status watcher, `/readyz` | readiness follows both upstreams, down and up, within a bound (`ReadyInTime`) |
| Pool watcher | after any failures, in bounded time, each gauge of each pool shows that pool's data, no older than a bound (`FreshGauges`) |
| Network watcher | the same for the network, and epoch and slot are of one pass (`FreshNetwork`) |

## 2. The modules

```
Ledger ── BlockWatcher ── MCBlockWatcher                              (TLC)
   │         │  └─ implements ─> SlotAccount ── SlotAccountProofs
   └─ LedgerProofs ── BlockWatcherProofs ── BlockWatcherAccount        (TLAPS)
ScheduleTable <-- implemented by -- SlotLeader ── MCSlotLeader, SlotLeaderProofs
SocketProxy ── MCSocketProxy, SocketProxyProofs
ProxyConn ── Application ── MCApplication, ApplicationProofs
             ┌─ StatusWatcher ──┐
HealthLoop ──┼─ PoolWatcher ────┼── Watchers ── MCWatchers, WatchersProofs
             └─ NetworkWatcher ─┘                   └── Config ──┘
```

* **Ledger** — the chain as Blockfrost shows it, an external system modelled from
  the calls `internal/blockfrost` makes. `chain` is a complete history, of which the
  blocks up to `tip` exist; `Extend` adds the next. There are no rollbacks, and no
  epoch is without a block. Slots are numbered from 0, epochs have
  `maxSlotPerEpoch` slots.
* **BlockWatcher** — one action per piece of code between two points where
  something else can interfere. `pc` is the place in the code:

  | `pc` | code |
  |---|---|
  | `refresh` | `run`: RefreshCurrent at boot |
  | `init`, `load` | `initState`, `LoadAndReconcile` |
  | `ensure` | `ensurePoolHasLeaderSlots` at boot |
  | `idle` | the ticker loop of `Start` |
  | `leaders` | `fetchAndLogNextSlotLeaders` |
  | `scan`, `slots`, `save` | `startWatcherAndDetectEpochTransition`, `processSlots`, the deferred Save |
  | `rollover`, `reschedule`, `check` | `handleEpochtransition`, step by step |
  | `killed`, `failed`, `panicked` | how the process ended |

  `db` and `rows` survive a crash, the rest does not. `judged`, `ever`, `waived` and
  `origin` are history variables, read by properties only. The row of the slots
  table is present or not: that its content is right is the matter of SlotLeader.
* **SlotAccount** — what the block watcher promises, without schedules, passes or
  places in the code: a chain that grows, two cursors, in memory and saved, and a
  verdict per pool and slot. A slot may be judged, exempt (its election could not be
  known, or it fell to one of the known faults of section 6), or passed over whole; the
  cursor moves only over slots that are settled, the saved one only to where the other
  is. `KeepsAccount` is its specification under a refinement mapping.
* **ScheduleTable** — the abstract slots table: write-once rows, inserted by a
  refresh of their epoch, all there after a refresh that succeeded.
* **SlotLeader** — the refreshes, with one goroutine per pool (`task[c][p]`), the
  errgroup's limit, first-error rule and wait, the three places where the node is
  asked something (protocol state, stake snapshot, cncli) and the UNIQUE key. A row
  holds the set of epochs its inputs were taken from. `KeepsTable` is
  `ScheduleTable`'s specification under the refinement mapping that takes `rows`,
  `target` and `refreshed` as they are.
* **SocketProxy** — connections and prober as processes over shared cooldowns. The
  candidates are collected endpoint by endpoint, a dial and the marking after it are
  two steps, and so are, for each endpoint, the reading of its cooldown and the setting
  of its gauges, since the code holds a lock for no longer. The two gauges of an endpoint
  are set in one step: each is written by itself and nothing here reads them. Time
  advances in ticks; a dial lasts up to its timeout. A connection is followed until
  `dialRemote` returns; from there on it is ProxyConn's.
* **ProxyConn** — one connection: the goroutine of `proxy()` (`proxy`), its two copies
  (`copy`, blocked in a read or in a write), the watchdog with its two deadlines, the
  listener, and the command at the local end. Peers may stay silent, stop reading, close
  their writing side (`peer[e] = "half"`), or go at any time. It has no next-state
  relation of its own program: the context belongs to Application, which composes it.
* **Application** — `run()` as `main` (`boot`, `serving`, `stopping`, `shutdown`,
  `exited`) and each goroutine of the errgroup as `member[m]`. A loop is `idle` at its
  select, `busy` in a pass. `first` is the group's first error, `cancelled` its
  context. The closure of the scheduler reads `ctx` when it begins (`late`: it then got
  the shutdown's). One command and its connection are followed at a time. The process
  ends by a failed boot, by the return of `run`, or by the panic of a watcher (`Panics`:
  `slotleader.go:201`, `251`, `watcher_pool.go:164`), which the errgroup does not recover:
  at once, with status 2, and without waiting for anybody. Goroutines and descriptors go
  with it (`ConnLost`), a command does not.
* **HealthLoop** — what the three remaining watchers share: the upstreams, the health
  flag, and a loop that makes a pass at once and then on every tick of a ticker, which
  keeps one tick and drops the rest. Time is in ticks of a clock.
* **StatusWatcher** (with `/readyz`), **PoolWatcher**, **NetworkWatcher** — one action
  per call a pass makes, since anything may change between two of them. Data are
  abstracted to their age, and to whether they are what was asked for: metadata
  without ticker, a pledge that is no number, an error's body taken for an account.
  **Watchers** composes the three on one clock, with the panic and the restart.
* **Config** — `Validate`, the selections of pools, the intervals that `run` hands out
  and which watchers it starts, as operators. MCWatchers takes its constants from them.

Definitions keep the source's names where they can. Operators named `...Mutant` are
plausible bugs: each property of a passing run is shown to fail when the definition
that follows one of them is replaced by it, so that no property is vacuous
("mutants" in `PROJECT.json` pairs them).

## 3. The runs

| Run | Expect | Instance and what it shows |
|---|---|---|
| MCBlockWatcher | pass | 3 epochs of 3 slots, 2 pools, 2 chains, all ten kinds of failure, any 2 in a behaviour: seven invariants, `SavedMonotone`, `PassesReach` and the refinement of SlotAccount |
| MCBlockWatcherLive | pass | 2 epochs, 2 failures: `CatchesUp`. The failures of entering an epoch (`enter`, `refresh`) and of the boot's second look at the schedules (`ensure`) are left out: with them it is violated, as MCStuck shows |
| MCFirstSlot | violation | no failure: the first slot of a new epoch is never judged |
| MCFailedSlot | violation | one failing lookup: its slot is never judged |
| MCNoSlots | violation | no failure: a pool without slots in an epoch ends the process by a panic |
| MCStuck | violation | one failure while an epoch is entered: the watcher stays without schedule |
| MCSlotLeader | pass | 2 epochs, 2 pools, limit 1, 2 failures: the refinement, `RowsRight`, `BootAlone`, `NeverStuck`, `LimitTwice`, `Boots` |
| MCSlotLeaderLimit | violation | the two refreshes overlap and exceed the limit |
| MCSocketProxy | pass | 2 nodes, 1 connection and the prober, 2 changes of the nodes, ticks of 5 s with the durations of the code: `SkippedOnlyIfFailed`, `PassedOverIfFailed`, `GaugesInTime`, `Settles` |
| MCSocketProxyGauge | violation | two nodes stay active after interleaved updates |
| MCApplication | pass | the scheduler, the HTTP server, the status and the block watcher, one command of the boot or of the scheduler, one connection: seven invariants, `Terminates`, `NoLeak` |
| MCWatchers | pass | two active pools sharing a reward account, intervals 1 and 2, passes of up to one tick, three events; pool or network watcher beside the status watcher: `ReadyInTime`, `FreshGauges`, `FreshNetwork` |

### Why the bounds are enough

* *Epochs of three slots* have a first, a middle and a last slot. Two epochs show a
  transition; the third lets a process be stopped over a whole epoch, so that
  reconciling and the jump in `EnterEpoch` skip slots, and has a pool without slots.
* *Two pools*: one that must have slots and one that may have none, which is what
  `AllowEmptySlots` distinguishes; they also compete for a slot, so that all
  three verdicts occur for one pool, and a scan may fail between them.
* *Two chains*: a sparse one in which a pool misses two in a row, loses, misses
  again; and one in which epochs start with an empty slot and have one late block.
* *Two failures* are what it takes for a failure in the recovery from a failure.
  Failures beyond those add repetitions of the same states. The ten kinds are the
  members of `FaultKinds`.
* *Two nodes*: a first and a second priority. One connection and the prober are two
  writers of each cooldown; the time constants are the code's, 30, 15, 10 and 5 s. `Longest` caps the time an endpoint is counted as
  reachable; it is above every bound a property names, so that each can be violated.
* *Limit 1* of two pools makes the group wait; the violation needs no more.
* *The members of MCApplication*: the status and the block watcher differ in what they
  return (only the cancellation, or also an error), and so cover the pool and the
  network watcher, which return as the status watcher does. The commands `Followed`
  are the boot's, which runs before the group exists, and the scheduler's, whose
  context may be the late one; the theorems have no such bound.
* *Who half-closes* (`HalfClosers`): the command. A node that half-closes does nothing
  to the proxy that one that goes does not do as well, except that the copy towards it
  does not fail; the theorems have both.
* *One command and one connection*: connections share nothing but the context (what
  else they share is in SocketProxy).
* *The intervals 1 and 2* of MCWatchers make passes as long as the shorter interval,
  so ticks are dropped, and entries of the cache live over two passes. Each time
  bound is tight: with one tick less it is violated. Three events (`MaxEvents`: a
  change of an upstream, a failed or false answer, or a tick spent in a pass while
  all is up) are what it takes for an answer that spoils the cache, a pass that is
  late, and one more failure. Ages are counted up to one more than the bound on
  them (`AgeMax`, `NetAgeMax`, `CalmMax`), beyond which no property looks.
* The pool and the network watcher are checked in separate behaviours
  (`Configurations`): they share only the flag, which both read and neither writes.

Every bound is a constant: `NumEpochs`, `MaxFaults`, `MaxFlips`, `Followed`,
`HalfClosers`, `PassMax`, `MaxEvents`, `Configurations`.

## 4. Fairness

* `BlockWatcher!Fairness`: weak fairness of the boot, of a pass and of a transition,
  that is: the goroutine runs and the process is restarted when it ends (the service is
  meant to run under a supervisor); and of the status watcher finding upstreams back
  (its probe runs at every tick whatever it found before, `watcher_status.go:94-100`).
  A new block, a failure, the scheduler and a kill are never required.
* `SlotLeader!Fairness`: each caller's refresh goes on, since every command it runs
  has a timeout (`cardano.go:27-29`), and the boot's refresh is begun. Nothing says
  that the scheduler's clock reaches its window.
* `SocketProxy!Fairness`: goroutines run, and time passes: strong fairness of `Tick`,
  because a tick is not enabled while a goroutine is at work in memory, and a weakly
  fair clock could be held still by connections that follow each other without end.
* `Application!Fairness`: weak fairness of the goroutines of a connection, and of those
  of the process: a command is killed when its context is done (`exec.CommandContext`,
  `executor.go:29`), 30 seconds pass, a pass ends once its command has. Strong fairness
  of a loop's return: its select chooses at random between a tick and a context that
  is done, so it does not choose the tick for ever. That a command ends by itself or
  that a peer reads, writes or goes is never required.
* Watchers states none: its properties are invariants, time bounds over a clock that
  does not pass over a loop that could run (`OnTime`).

## 5. What is proved

The proofs are checked by TLAPS for *every* value of the constants, from the
assumptions named in the modules: epochs have a positive length, `Leads` assigns
slots to pools, no epoch is without a block (`LengthAssumption`,
`ElectionAssumption`, `ChainAssumption`, `FaultAssumption`), `SlotLeaderAssumption`,
`EndpointsAssumption`, `ProcsAssumption`, `TimesAssumption` of the proxy,
`EnabledAssumption` of the application, and `LoopAssumption` (intervals are
positive), `PoolsAssumption` (there is an active pool: `Validate` asks for one) and
`ConfigurationsAssumption` of the watchers.

* **LedgerProofs** — a bounded set of integers has a least and a greatest member (by the
  well-ordering of the naturals), arithmetic of slots and epochs, and what `GetFirstBlockInEpoch`,
  `GetLastBlockFromPreviousEpoch` and `Extend` return and preserve.
* **BlockWatcherProofs**, in two layers.
  1. `CursorInv`: the types, where the cursor is in each place of the code, that
     the block a pass works from is not ahead of the tip, and how `db` relates
     to memory. It is needed because `CursorBehindTip` alone is not inductive: that
     the end of a walk is not ahead of the chain depends on the transition being
     seen through a block of the new epoch. From it: `TypeCorrect`, `CursorSafe`,
     `SavedIsBehind`, `SavedIsMonotone`, and the action property `PassesComplete`: a
     pass that sees no failure stops nowhere before the end it set out for, and the
     epoch it enters is not behind the block it was led by.
  2. `AccountInv`, on top of it: each verdict is right, and each slot up to a cursor
     (or up to the place within a scan) is accounted for. From it:
     `VerdictsCorrect`, `CoverageCorrect`.
* **BlockWatcherAccount** — two more layers. `CountInv`: the verdicts are finitely many,
  none is of a later epoch than the cursor's, and in a scan those given so far are
  behind the place it has come to. It is needed because a counter is the `Cardinality`
  of a set that grows by one only if the verdict recorded is a new one, and the streak
  is exact only if it is the latest (only missed slots count; a lost battle neither counts
  nor ends a streak). From it: `CountersCorrect`, `StreakCorrect`. On
  top of it the refinement, `ImplementsAccount`: initial states map to initial states,
  and each action to one of SlotAccount's or to a stutter, with a lemma for each kind of step.
* **SlotAccountProofs** — of the abstract specification: `BooksKept`, that all behind
  both cursors is settled, and `SavedIsFinal`, that a slot behind the saved cursor is
  never judged anew. The second is carried over to the block watcher by the refinement
  (`SavedSlotsFinal`), crashes and restarts included.
* **SlotLeaderProofs** — `RefreshInv`: a goroutine past the insertion has seen its
  row, and what a pending one has gathered is of its target epoch unless the epoch
  changed under it. From it: `RefreshTypeCorrect`, `RowsAreRight`, and the
  refinement `ImplementsTable` (initial states map to initial states, each step maps
  to a step of the table or to a stutter), hence `RowsWrittenOnce`. Three more
  results on top of it: the scheduler does nothing before the boot is over, so a row
  that a boot's refresh meets is its own or an earlier process's (`BootsAlone`); a
  goroutine that waits for a slot of the limit has one at work before it
  (`RefreshNeverStuck`, from the finiteness of `Pools`); and each caller's cncli
  processes are within its own limit, so both together within twice that
  (`LimitHoldsTwice`, by the cardinality of a union).
* **SocketProxyProofs** — `ProxyInv`: a cooldown is not older than the dial that set
  it, also while a result waits to be marked. From it: `ProxyTypeCorrect`,
  `NoEndpointForgotten`. Two invariants on top of it:
  * `ConnectionsInv` follows one connection while it collects and dials: what it has
    left out or dialed in vain has been reachable for less than a cooldown and the
    dials that are over since (`Bound(Over(d))`), and it dials by priority. From it
    `FailsBackInTime`, for any number of nodes, connections and any durations.
  * `GaugeInv` follows the prober's round: `Since(e)` bounds how long ago it published
    the gauges of `e`, from its ticker, the dials it has made and their time-outs; a
    gauge that is wrong was set while its endpoint was in cooldown, and not longer ago
    than that; and an update in progress that has found no endpoint up has found those
    before it in cooldown (`FoundInv`: this is what the interleaving of two updates
    leaves of "the highest-priority one"). From it `GaugesFollow`, also where a round
    outlasts the cooldown, which the run's two nodes do not show.
* **ApplicationProofs** — `IInv`: `ConnInv` traces what the watchdog and `cancel()` do
  back to the command, the node or the application, which has closed or ended, through
  the copy that ended first; `GroupInv` says whose command runs, and that the context is
  done only by a signal or by an error that was the first. From them: `NoUseAfterClose`,
  `NoEarlyCut`, `ExitStatus`, and `CommandsAwaited`: `run` returns only after the command
  that is running, so that one that outlives the process was left by a panic. `NoCircle` and `ShutdownGoesOn` are what
  `NoLeak` and `Terminates` need of safety: `CloseInv` says whom `proxy()` waits for in
  each place and that this one has been given its deadline or will be, `StopInv` that
  when `run()` waits the context is done and the server told, whatever signal or error
  came first. They say that something can always go on, with fairness left out.
* **WatchersProofs** — invariants over time: at each point of a pass, how long ago the
  upstreams changed bounds how far the loop is from having noticed. For the pool watcher
  the argument goes from the flag (`Readiness`), over the entries of the cache that
  were stored before the calm and are gone a TTL later, to the first pass that runs
  through all pools. From them: `Readiness`, `NetworkRecovers`, `PoolsRecover`, for any
  number of pools and any intervals; and `IntervalsArePositive`, that Config's
  intervals satisfy `LoopAssumption` when the pool watcher's is positive.

So every safety property of the passing runs is also proved, the action properties and
the two refinements included. Only model-checked: the liveness properties (`CatchesUp`,
`Boots`, `Settles`, `Terminates`, `NoLeak`; liveness under fairness is
beyond the provers). For each there is a theorem on what it rests on: `PassesComplete`
for `CatchesUp`, `BootsAlone` and `RefreshNeverStuck` for `Boots`, `FailsBackInTime` and
`GaugesFollow` for `Settles` of the proxy, whose bounded forms they are for a node that
comes back,
`ShutdownGoesOn` for `Terminates`, `NoCircle` for `NoLeak`.

## 6. What the checks found

Each is a violation run, with its trace, and an entry of "findings":

1. The walk of an epoch that ended runs one slot too far, into the first slot of the
   new epoch, under the old schedule (`watcher_block.go:279`). The slot is never judged.
2. A failing lookup marks its slot as processed (`watcher_block.go:318`, `285`).
3. A failure while a new epoch is entered is logged and never repaired: no pass
   of that epoch gets past `fetchAndLogNextSlotLeaders` (`watcher_block.go:224-232`).
4. An empty schedule is indexed at its last element and the process panics
   (`slotleader.go:201`).
5. Interleaved updates leave two nodes active (`socketproxy.go:179`).
6. The limit on cncli processes is per refresh (`slotleader.go:56`).

Seen on the way, without a run: at boot `IsSlotsEmpty` panics when the epoch changes
between the refresh and `initState` (`slotleader.go:251`; an action of the model, and
recovered from by the restart); a schedule computed while the epoch changes is
persisted for ever (`RowsRight` excuses exactly those); with more than a few dead nodes
a round of probes outlasts the cooldown (`socketproxy.go:161-174`); a dial may fail
although a node in cooldown is reachable again (`socketproxy.go:213-220`; for how
long, `PassedOverIfFailed` says).

From the application and the watchers, likewise without a run:

* An interrupt may end with status 1: the first error of the group may be the server's
  `ErrServerClosed`, or that of a refresh or a boot that the signal cut short, of
  which `errors.Is(err, context.Canceled)` need not hold (`watcher.go:256-265`).
  `FailureReported` is the direction that does hold.
* The scheduler's closure captures the variable `ctx`, which `run` assigns anew for the
  shutdown (`watcher.go:217-222`, `253`): a scheduler that begins late runs under the
  30 seconds of the shutdown. `Terminates` holds all the same.
* When the command dies while the copy towards the node is blocked in a write, nothing
  notices before the node reads, goes, or the application stops.
* The first direction to finish ends the other: a command, or a node, that closes its
  writing side and still reads has what is on its way to it cut
  (`socketproxy.go:269-275`). `CutOnlyIfOver` allows exactly this.
* The panic of a watcher does not wait for the group: a command that another member is
  running, or the scheduler, is left behind, and its timeout (5 minutes for cncli) with
  the process that would have enforced it: unless the supervisor kills it too, it runs on
  beside the restarted process until it ends by itself. `NoOrphan` says that nothing but
  a panic does this.
* `GetAccountInfo` does not look at the response's status (`blockfrost.go:201-214`): an
  error's body becomes an account without DRep, shown until its TTL. An answer that is
  accepted but of no use (a pledge that is no number) is cached as well, and ends every
  pass until then. A pool without ticker ends the process at every start
  (`watcher_pool.go:164`).
* The network watcher is given the pool watcher's interval (`watcher.go:385`), and no
  interval but the status watcher's is checked: zero would panic in `NewTicker`.

## 7. What is not modelled

* Rollbacks of the chain, and Blockfrost and the node disagreeing about the chain: the
  code handles neither.
* In BlockWatcher a row is right once it is there (shown in SlotLeader up to the
  straddling schedules), the clock of the scheduler (it may run at any time), and the
  gauges that are set and read by nothing here.
* What was to be walked before the first save: a process that dies without having saved
  starts at the latest block again at its next boot, `origin` is set anew, and `Coverage`
  and SlotAccount ask for nothing before it. Slots that the process that died had
  walked, or should have, are thereby excused.
* The scheduler's guard on the last 24 hours (`slotleader.go:158`): it may refresh at any
  time, which adds behaviours and takes none away.
* `Save` fails before or after nothing is written: a write whose error hides a success
  does not occur.
* In Application, what a pass does to the database or to Blockfrost (it is the matter
  of the other modules), requests to the HTTP server (its `Shutdown` takes any time up
  to 30 seconds), and more than one command at a time. A second signal, which ends the
  process at once only after `NotifyContext` is stopped, changes nothing before the exit.
* In Watchers, the block watcher (it reads the same flag; BlockWatcher has it change at
  any time), and the eviction of entries by cost, which ristretto does not do at this
  size.
* Metrics' registration, the database's connection and migrations, the parsing of flags
  and files, and the Blockfrost methods that nothing calls: declarative, or library
  calls without a state of this program.
* A composition of BlockWatcher with SlotLeader: BlockWatcher inserts the rows that a
  refresh adds in one step, a coarser grain than ScheduleTable's row by row, so its
  `rows` is no refinement of the table without splitting that step; the product of
  both state spaces is beyond TLC at bounds that show a transition.
* Formatting, logging, command lines, parsing of outputs, temporary files.

## 8. Plan

Done: Ledger, BlockWatcher; ScheduleTable, SlotLeader; SocketProxy; ProxyConn,
Application; HealthLoop, the three watchers, Config; SlotAccount; the proofs of all
their safety properties and refinements.

Left, in order of importance:

1. The refresh of BlockWatcher row by row, then `rows` under ScheduleTable's
   specification, with an invariant that both writers share.
2. Several commands at a time in Application, with the failover of SocketProxy as the
   dial of ProxyConn.
3. The block watcher as a fourth loop of Watchers, with a bound on the time to a verdict.
