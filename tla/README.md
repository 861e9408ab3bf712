# Castle Rock Agent: a TLA+ verification of its core

Castle Rock Agent watches the Docker containers of a host. It shows them in a
terminal dashboard, raises alerts on their metrics, cleans up unused Docker
objects when the disk fills, keeps a history of events in SQLite, exports
Prometheus metrics, and in cluster mode sends its data to a leader agent. The
modules in this directory model the parts of it in which several goroutines,
machines or messages meet, TLC checks them on small instances, and TLAPS proves
the main results for every instance.

## 1. The system

| Component | State it keeps | Operations | Interacts with |
|---|---|---|---|
| Alert engine, `internal/alerts` | `conditionStart`, `activeAlerts`, `firedAlerts` under a mutex | `Evaluate`, `GetActiveAlerts`, `GetPendingCount` | called by the dashboard's statistics handler |
| Alert panel, `internal/tui` | the alerts shown, the auditor's findings, a mark per container | `handleStatsMsg`, `processSecurityAlerts`, `updateAlertMarks` | engine, auditor |
| Event store, `internal/storage` | a channel of 500, a worker, the database, a `sync.Once` | `SaveEvent`, `writeWorker`, `Close` | pruner, main |
| Automatic cleanup, `internal/prune` | `lastPrune`, a ticker | `Start`, `checkAndPrune` | Docker, event store |
| Start and shutdown, `cmd/agent` | the mode, the deferred calls, the context | `loadConfig`, `runTUIMode`, `runWorkerMode`, `setupStorageAndPruner` | all |
| Configuration, `internal/config` | the `Config` record | `Load`, `applyEnvOverrides` | all |
| Cluster, `internal/cluster` | the sender's loop and URL; the leader's store of hosts | `StartSender`, `sendPushPayload`, `DiscoverLeader`, `ServeHTTP`, `UpdateHost`, `GetAll*` | network, configuration, exporter |
| Docker events, `internal/docker`, `internal/tui` | subscriptions, forwarding goroutines, the event log | `WatchEvents`, `watchDockerEvents`, `Update` | Docker, dashboard |
| Dashboard, `internal/tui` | the `Model` and the commands under way | key handlers, result handlers, ticks, log streams | all of the above |
| Exporter, `internal/metrics` | nine gauge vectors | `Start`, `collect`, scrapes of `/metrics` | Docker, the leader's store |
| Docker client, `internal/docker` | a cache of container details | lists, statistics, stress tests, streams | Docker, dashboard, exporter |
| Security auditor, `internal/security` | a cache of findings | `Audit` and ten rules | Docker, called by the dashboard's list handler |
| Service map, `internal/topology` | none | `Scan` | Docker |
| View, messages, logger, data types, collector | none the properties could speak of | formatting | |

What is hard in it: the queue of the store is filled, drained and closed by
different goroutines; the end of the process is a race between main, the worker
and the pruner; a request that timed out at a worker may still be handled by the
leader, after newer ones; the dashboard gets the results of its commands in any
order while the user goes on pressing keys; it subscribes to Docker's events anew
for every event while goroutines of earlier subscriptions go on; alerts depend on
when samples come, on which containers are in them, and Go iterates its maps in
random order; a scrape reads the gauges while `collect` empties and fills them;
overlapping lists fill one cache, while the containers they are about change or go;
two stress tests fight for one container name. `PROJECT.json` lists these places as hazards, each at its line.

What makes each part correct:

- *Alert engine*: alerts and timers follow the latest sample; an alert fires when
  its condition has been tracked for the duration, not before, once, and surely.
- *Panel*: no map order hides the worst alert or finding.
- *Store*: what was accepted is inserted in order, all of it before the database
  is closed, and `Close` returns.
- *Cleanup and shutdown*: cleanups are an hour apart; leaving the dashboard ends
  the process and loses no accepted record.
- *Configuration*: environment over file over defaults, per field.
- *Cluster*: a push ends; success means stored; readers see only recent data of
  workers whose token and secret match; one host never disturbs another.
- *Events*: one watch at a time, which returns; each event at most once, in order.
- *Dashboard*: keys go to the dialog that is drawn, a cursor on a container, log
  lines in order, and a list that in the end is what was asked for.
- *Lists, details and findings*: a row shows its own container, findings end with the
  listing of their container, what failed once is tried again, and what is gone
  disappears.
- *Exporter*: no scrape mixes in what an earlier collection left, a scrape between
  collections is whole, what is gone disappears and what reports is shown.

## 2. The modules

| Module | Models | Composes |
|---|---|---|
| `AlertLifecycle` | abstract specification: Pending -> Firing -> Resolved of every condition | |
| `AlertEngine` | `alerts.go` | implements `AlertLifecycle` |
| `AlertPanel` | the panel's two handlers in `tui.go` | `AlertEngine` |
| `AlertSampling` | the `fetchStats` commands that bring the engine its samples | `AlertPanel` |
| `EventStore` | `sqlite.go` | |
| `PruneService` | `pruner.go` and the end of the interactive mode in `main.go` | `EventStore` |
| `Config`, `ConfigLoading` | `config.go`, `loadConfig` | `ConfigLoading` uses `Config` |
| `Exporter` | `prometheus.go`, the lists and statistics it reads, `GetAllMetrics` | |
| `Agent` | `main.go` from start to exit | `ConfigLoading`, `Exporter` |
| `ClusterPush` | `sender.go`, `receiver.go`, `discovery.go`, `crypto.go` | `Config` |
| `EventWatch` | `WatchEvents` in `client.go`, its consumer in `tui.go` | |
| `Dashboard` | the message loop of `tui.go`, log streams of `client.go` | |
| `DockerDaemon` | Docker as the client uses it (external) | |
| `ContainerDetails` | lists and the cache of details in `client.go` | `DockerDaemon` |
| `StressTest` | `RunStressTest` in `client.go` | `ContainerDetails` |
| `Auditor` | `auditor.go` | `DockerDaemon` |
| `DockerViews` | the handling of lists and findings in `tui.go` | `StressTest`, `Auditor` |
| `AlertProofs` | theorems about `AlertEngine` and `AlertPanel` | `AlertPanel` |
| `EventStoreProofs`, `PruneServiceProofs`, `AgentProofs`, `ClusterPushProofs`, `EventWatchProofs`, `DashboardProofs`, `DockerViewsProofs` | theorems | the modules they are named after |
| `MCAlertPanel`, `MCAgent`, `MCClusterPush`, `MCDashboard`, `MCDockerViews` | constants for TLC | |

Operators whose comment begins with "Fault:" are mutated forms of the definition
that follows them. No specification uses them; they show which mistake in the
code each property would find (`PROJECT.json`, "mutants").

### AlertEngine, AlertPanel and AlertSampling

`Evaluate` holds the engine's mutex for all its work, so it is one action, given
any sample: any set of containers with any levels of their metrics. The maps of
the code are functions from conditions, pairs of a container and a rule, with
`None` for an absent entry. The sets `clearInactiveAlerts`, `Cleared`, `Started`
and `Fired` are the branches of the code; `FiringOrders` are the orders in which
Go's map iteration can push alerts into the history. `Tick` is the time between
samples. `observedSince` is a history variable. The code's key is made of the
rule's *name*: `NamesAssumption` says that names are distinct, which the code does
not check.

`AlertPanel` adds the handlers of the dashboard. Each loop over a map or over a
slice made from a map is a fold over an arbitrary order of the set, and the
handler may return the result of any order.

`AlertSampling` is about how samples come. `fetches` counts the commands under way; each
ends in a sample or in an error. The tick starts one only while no logs, no map and no
confirmation is open (`tui.go:439`); keys, Docker events and results of actions start one
at any time, but nothing guarantees them. So nothing is assumed of samples here: the
liveness property takes "samples keep coming" as its condition.

### EventStore and PruneService

One action for each step another goroutine can see: the `select` of `save`, which
drops a record when the channel is full and panics when it is closed, the worker's
receive, its INSERT, which may fail, and its exit, and the begin and end of
`Close`, with the callers that wait on the `sync.Once`. A record is a producer and
a number. `accepted`, `handled` and `failed` are history variables.

`PruneService` extends it by the pruner, whose clock counts its check periods, and
by main: the dashboard returns, the deferred `Close` runs, `stop()` cancels the
context, the process ends. A cleanup may take any time.

### Config, ConfigLoading, Exporter and Agent

A configuration is a function from fields to values, with fields of each kind:
strings, numbers that may fail to parse, Booleans, lists. `Load` keeps the
early returns of the code and `loadConfig`'s fallback. Which files parse is their
status; YAML itself is not modelled.

`Exporter` has `collect` as the code runs it: list, statistics (any of which may
fail), `Reset` of one vector after the other, the merge with the leader's hosts, and
`With(labels).Set` series by series and vector by vector. A scrape is a sequence of
reads of single vectors, since each vector has its own lock, between which the
collection goes on. `known` and `disturbed` are history: the series a scrape may show
at all, and whether a vector was written during it. A list that fails ends `collect`
before it has changed anything, so it is a stuttering step. `lastStats`, which nothing
reads, is left out.

`Agent` is main: the configuration decides whether there is a receiver and an exporter
and which host label local series get. The push endpoint is served by the exporter, so
hosts can report only while it runs. What the modes run besides is in the other
modules. After the start the sources of the configuration are forgotten, since nothing
reads them again.

### ClusterPush

Each worker is a sender with the code's states: waiting for a tick, in an attempt,
in a backoff, looking for the leader. `setup` says how each agent was started, and
`Load` of `Config` makes its configuration from it. A request is a member of
`net` until it is handled or lost, also when its sender has stopped waiting.
`ServeHTTP` has the receiver's checks in their order. A body is a payload and the
secret it is sealed with, and `Decrypt` opens it with that secret only; the sharding
of the store's map is left out; a snapshot is the time at which its push began. Ticks come at multiples of `Interval`. Workers and leader
may be restarted at any time.

### EventWatch

A subscription is a record: the goroutine of `WatchEvents`, what the daemon sent
and it has not read, its channels, and the command that waits on it. Every `select`
takes any case that is ready. A closed `errCh` yields a nil error, and asking a nil
error for its text is the panic in `handleDockerErrorMsg`.

### Dashboard

As in the code, the model is one value, a handler is a function of it, and commands
run beside the loop: `cmds` is the bag of those under way, and any of them may be
the next to deliver. A container list is any set of containers, so containers come
and go. Log streams have a bounded channel and a command that waits on it. Left out
is what is only displayed: the event panel, statistics, disk usage, the map, the
names in the log view's title and the text filter (which no handler ever sets). Of
`View` the model has which dialog or panel is drawn (`Screen`), because keys go by
another order of the same flags (`KeysGoTo`). `load` is the part of the dashboard a
behaviour exercises: its keys and its bounds.

### DockerDaemon, ContainerDetails, Auditor, StressTest and DockerViews

`DockerDaemon` is the daemon: ids that are never reused, states, a configuration that
can change under the same id. `ContainerDetails` is the list command: a first pass that
filters, then one goroutine per row, each with its lookup, inspection and store as
separate steps, because lookups and stores are under a lock that the inspection is
not. An inspection's answer and the filling of its row are one step: the row is its
goroutine's own until the list is ready. `Auditor` has the ten rules as sets of findings of one inspection and `Audit` in its
three phases. `StressTest` runs the calls of `RunStressTest` one by one; the daemon may
refuse any of them. `DockerViews` joins them: two commands at once in `Slots`, and the
message loop, which does not take another message while it waits for `Audit`. A list that
fails changes nothing.

## 3. What TLC checks

| Run | Instance | Shows |
|---|---|---|
| `alerts` | one container, present or not, three rules on two metrics with durations 0, 1 and 2, three levels, 4 points of time, one command under way, history of 2, findings of two severities | the three invariants of the engine, its refinement of `AlertLifecycle`, that the panel shows the worst alert of each group and every mark is the worst; as long as samples keep coming, conditions that persist fire |
| `event_store` | two producers with two records each, two closers, queue of 2 | order, flush before close, no late insert, `Close` returns |
| `prune_service` | queue of 1, three records, gap of 2 in 6 periods | spacing, no loss at exit, exit in any case |
| `agent` | a field of each kind and the mode, set or not in file and environment, usable or not; two containers, one remote host, two vectors | precedence; scrapes without ghosts, whole when undisturbed; what is gone disappears; reporting hosts are shown |
| `cluster_push` | one worker, 2 retries, 11 points of time; or two workers in five setups, one of them with one host id for both | bounded pushes, success means stored, recent data, only matching workers stored, a host goes back only through a request its sender gave up or through its namesake |
| `docker_views` | one application container with two configurations, two stress containers, two commands at once, three changes | rows show their own container, findings belong to the listing they are shown with, a race of stress tests has a winner; as long as lists keep coming, details and findings appear and what is gone disappears |
| `event_watch` | four events of which three are monitored, log of 2 | one watch, order, the only way to the nil error, watches return |
| `dashboard` | twenty keys on lists of two containers; or seven keys, one container, two streams of two lines; or two streams whose container writes three lines into channels of two; two commands under way | keys go to the drawn dialog, cursor; order of lines, all lines handled, the chosen list |
| `alerts_persistence`, `prune_service_quit`, `event_watch_leak`, `docker_views_health` | as above, smaller | a disagreement each, section 5 |

*Bounds.* All times are small numbers whose order is that of the code: durations
differ and one is 0; `HttpTimeout < MaxDelay`, so that answers can be late;
`MaxTime` of `cluster_push` lets a whole push with all its retries end, its data
expire and another one begin. The queue of the store is smaller than the number of
records, so that it overflows, and holds more than one in `event_store`, so that
order means something. The alert history and the event log are shorter than what
enters them. One container is enough in `alerts`: conditions of different
containers share nothing but the history, the orders the panel depends on are those
of the alerts of one container, and the theorems hold for any set of containers.
Two vectors are enough for a scrape to read one before and one after a step, two
local containers for a collection to be cut between series, and one host for a host to
fall silent and come back. In `docker_views` the stress ids can be filtered out, so that
ids and rows could get out of step, and two of them serve two tests; three changes let a
container be started, changed or stopped, and listed again while an older list is under
way. With one monitored container it has one key of the cache: that details never get
into the row of another container is left to the theorem `RowsOfTheirContainers`, which
holds for any set of containers.
Two containers are enough for a cursor to fall off a list and to be moved to another
container; two streams for a view that is closed and opened again; three lines for a
channel of two to overflow; `MaxCmds` of two for
results to overtake each other. Bounds stand in the guards: `MaxTime`, `MaxSaves`,
`MaxTimeTogether` (with two workers), `MaxEvents`, `MaxChanges`, `Slots`, `MaxFetches`, `MaxCmds`, and
those of a `load` of the dashboard (streams, lines and the scroll offset).

*Deadlock* is checked where the model has no end: the alerts, the cluster (its
clock stops, but agents can be restarted) and `PruneService`, whose end is a step
of its own. The store, the event watch, the dashboard and Docker's views may come to rest, and
the agent exits.

*Fairness.*

- `alerts`: the clock runs. Nothing is assumed of samples or of the user, who may stay in
  the logs for ever: that samples keep coming is a condition of the property. It holds
  while the table is on the screen, because the tick is re-armed and asks for one, unless
  Docker fails for ever.
- `event_store`, `prune_service`: a goroutine that can run does: the worker, the
  calls of `Close`, main. Nobody has to call `SaveEvent` or `Close`; nothing is
  assumed of the pruner, whose call to Docker may hang.
- `event_watch`: the forwarding goroutines, the watch commands and `Update` run when
  they can. Nothing is assumed of the daemon, the user and signals.
- `agent`: the exporter's ticker goes on and Docker does not fail for ever. Nothing is
  assumed of scrapes, containers and workers.
- `docker_views`: goroutines and the message loop run; a list that is ready again and
  again is handled at some time, and the daemon does not fail every inspection of a
  container (strong fairness). Nothing is assumed of lists, of the user and of other users
  of Docker: `ListsKeepComing` is a condition of the three properties, and holds while the
  table is on the screen (`tui.go:439`), unless Docker fails for ever.
- `dashboard`: ticks come, list commands end and do not fail for ever
  (strong fairness of their success: they fail only when Docker does), the loop takes
  the lines that wait. Nothing is assumed of the user.

The properties of `cluster_push` are safety properties and need none.

## 4. What is proved

The proofs hold for every value of the constants that meets the named assumptions.

Every invariant, every action property and the refinement that a passing run checks is a theorem; each
inductive invariant was checked by TLC before it was proved. Only liveness is left to
TLC.

**AlertProofs** (from `RulesAssumption`, `SampleAssumption`, `ContainersAssumption`,
`BoundsAssumption`, `NoneAssumption`, `PanelAssumption`; not from `NamesAssumption`,
which is what makes a pair of container and rule stand for the code's key).
The engine: `TypeCorrect`, `AlertsCurrent`, `DurationRespected`, `HistoryLatest` and
`ImplementsLifecycle`. The properties are not inductive alone: that an alert fires on
time needs that its timer is the one it fired on. The inductive invariant `Inv` adds
`ActiveHaveTimers` (an active alert has a timer) and `StartsInThePast` (no timer starts
after now). Its proof goes through `Evaluate` conjunct by conjunct; the history needs
`PushHistoryFacts`, what is where after alerts were put in front and the end cut off,
and that nothing in it is of the future (`HistoryInThePast`): what the cut drops is then
no newer than what stays, also when more alerts fire at once than the history holds. The refinement maps a
condition to "firing", "pending" or "inactive" by its entries in the two maps and shows
that every `Evaluate` is an `Evaluate` of `AlertLifecycle`.

The panel: `PanelUsesEngine` shows that its steps are steps of the engine; `ShownWorst`
and `MarksWorst` hold for every order in which the maps are iterated. They are facts
about three loops, and need an induction over their rounds. It is taken from the
library's theorem that a set of numbers has a least element (`LeastNumber`,
`LoopInduction`: the rounds after which the loop invariant fails have no first one),
applied to a fold through the function that it chooses (`Folded`). The loop invariants
say what holds after n rounds: `BestOk` (for each group among the first n alerts, one of
them is kept and none is worse), `FindingsOk` and `AlertsOk` (each mark is that of the
worst of the first n). `OrdersListAll`, that an order of a finite set lists all of it,
carries them to the whole.

**EventStoreProofs** (from `QueueAssumption`): `StoreTypeCorrect`, `QueueOrder`,
`NoLateInsert`, `CloseFlushesAll`, `TableOrder`. `StoreInv` joins the order of the queue with
`DoneMeansDrained` (a worker that is done leaves an empty queue of a closed
channel), `CloseWaits` (nobody has returned from `Close` before the worker was done)
and `HandledAreWritten`. The lemma `ReceiveOrder` is the fact about sequences behind
the worker's receive. That no row is doubled needs that no record was accepted twice
(`AcceptedOnce`), and that needs that the number of a call is not used again
(`CallsAreCounted`).

**PruneServiceProofs** (from `ActorsAssumption` and `PruneAssumption`):
`AgentUsesStore` shows that every step of the agent is a step of the store or leaves
it alone, so the theorems about the store hold in the agent. `ExitIsClean` combines
`CloseFlushesAll` with `PruneInv` (main passes the end of `Close` before it exits),
`Spacing` uses that `lastPrune` is the end of the last cleanup.

**AgentProofs** (from `ExporterAssumption` and `FilesAssumption`): `NoGhosts`,
`WholeScrapes` and `Precedence`. That no
scrape shows a ghost needs that the vectors never hold more than the last merged
collection (`VecsAreCurrent`: the ones `Reset` has passed are empty, and all are when
the next collection is merged) and that a scrape under way knows that collection
(`ScrapeKnows`). That an undisturbed scrape is whole needs what the vectors hold while
they are filled (`FillIsEven`: what is done is in all of them, the series under way in
the ones before the next), so that they are complete when the collection ends
(`SettledIsWhole`), and that a scrape counts as undisturbed only until the first vector
is emptied (`UndisturbedIsSettled`).

`Precedence` is a fact about `Load`, over every file, environment and host name: what a
usable variable does to a field does not depend on what was there, and an unusable one
leaves it (`OverrideFacts`). It covers the early returns, too: a broken file leaves the
defaults alone, with the environment ignored, and the host name stands in for an empty
host id exactly if a file was read.

**EventWatchProofs** (from `EventAssumption`): `OneWatch`, `ShownInOrder` and
`PanicOnlyAfterCancel`, for any number of events and subscriptions and any length of the
log. Order on the screen needs order all the way: `StreamsInOrder` (what a
subscription holds is in order) and `RestIsLater` (what the watched one holds, and a
result on its way to `Update`, is later than what was shown). An abandoned subscription
may hold events already shown; `OneWatchAtATime` keeps it from being read. `PanicOnlyAfterCancel` needs
that an error without a text is only ever under way after the cancellation
(`NilErrorsAfterCancel`).

**ClusterPushProofs** (from `TimesAssumption`): `BoundedPush`, `RecentData`,
`OnlyMatching`, `AckIsTrue` and `OnlyAbandonedGoBack`, for any workers, configurations,
retries and timeouts. `SendersInTime` gives every attempt and every wait a latest time
in terms of its number, so that the bound of a push is the last one of them;
`RequestsInTime` does the same for requests in the network and `EntriesAreGood` for
entries of the store. `RepliesAreTrue` (a reply of success is of a snapshot that was
stored) gives `AckIsTrue`; `RequestsNotNewer` and `StoredNotNewer` (no request and no
entry is newer than what its worker sends) give `OnlyAbandonedGoBack`. The backoff
doubles; the few facts about powers of two are proved by counting the subsets of an
interval.

**DockerViewsProofs** (from `DockerAssumption`): `RowsOfTheirContainers`,
`FindingsOfThisListing` and `StressRaceWon`, for any containers,
filters, configurations and number of commands at once. `RowInv` says that the rows of
every list, fetched, waiting or shown, and the entries of the shared cache are of their
own container. `FindingsInv` says the same of the auditor's old and new cache and of the
configurations since the last absence, and that the audit works on the list that is
handled. `StressInv` is about a batch of tests of which none has succeeded or failed by
a fault: a test about to start its container made it itself (`OwnContainers`), once the
old ones are removed every container of that name has such a test (`NamesAreOwned`), and
there is a test that nothing stands against (`SomeoneIsUnhindered`): so the last one to
end is not refused.

**DashboardProofs** (from `DashboardAssumption`): `KeysToScreen`, `CursorStays` and
`StreamsOrdered`, for any containers, lists, streams and capacities. That keys go to the
dialog on the screen rests on `OneDialog`: at most one dialog is open at a time, although
no line of the code says so and each handler opens its own. It is shown for each handler
(lemmas up to `KeyGood`), together with the type of the model and the cursor. The order
of lines needs `LogsOk`: a channel holds lines its container wrote, in order, and later
than those of the stream that are shown.

*Only model-checked*: the liveness properties, which are out of the prover's reach:
`PersistentConditionsFire`, `CloseTerminates`, `QuitTerminates`, `WatchReturns`,
`DetailsAppear`, `FindingsAppear`, `GoneContainersDisappear`, `GoneSeriesDisappear`, `ReportingHostsAreShown`,
`LinesAreHandled` and `ShowAllTakesEffect`.

## 5. Where the code disagrees with what the repository says

Four runs end in a violation, on purpose:

- `alerts_persistence`: `alerts.go:11` says that alerts fire only after the condition
  has persisted for the duration. `clearInactiveAlerts` looks at active alerts only,
  so the timer of a *pending* condition survives the absence of its container, and the
  alert fires at the first sample after it is back.
- `prune_service_quit`: `sqlite.go:154` says that `Close` is graceful. The pruner is not
  stopped before the store is closed, and its `SaveEvent` then sends on a closed channel:
  the process panics.
- `event_watch_leak`: `client.go:397-399` says that the goroutine of `WatchEvents` does
  not leak. Its send on the unbuffered channel is outside of its `select`. In TLC's trace
  the program has quit and the context is cancelled; the only reader leaves by
  `ctx.Done()` without having taken an event, the goroutine's own `select` takes an event
  that is ready as well, and its send blocks for ever.
- `docker_views_health`: `docs/TUI.md:69` and `:136` explain the health mark and badge.
  `enrichContainerDetails` fills rows from a cache that has no health, so both are gone
  from the second list on.

Others were met while modelling. The models have the code's behaviour; no run is kept
for them:

- A cancelled context closes `errCh`; the watch may take that case and `Update` asks a
  nil error for its text (`tui.go:245`, `tui.go:1504`), although `tui.go:1719` promises a
  graceful shutdown. `PanicsOnlyAfterCancel` shows that this is the only way to it.
- An event that comes between two watches goes to the abandoned subscription and is not
  shown (`tui.go:1500`).
- `NewModel` drops the store it is given (`tui.go:191`): Docker events are never saved,
  against `sqlite.go:116`.
- A YAML file that does not parse makes `loadConfig` (`main.go:72`) take the defaults
  without the environment, against `docs/CONFIGURATION.md:38`. `PrecedenceHolds` states
  this case as the code has it.
- Without a file, the host name is not filled in (`config.go:130`, against
  `docs/CONFIGURATION.md:51`), and the receiver refuses every push of that worker.
- The URL of `docs/OBSERVABILITY.md:144` lacks `/api/v1/push`, and pushes to it are
  answered 404 (`prometheus.go:218`).
- A discovered leader is at the loopback address (`discovery.go:26`): only workers on
  the leader's own host reach it.
- A list that arrives between 's' and 'y' moves another container under the cursor, and
  that one is stopped (`tui.go:481`).
- Closing a log view leaves its stream running; its lines go into the next view
  (`tui.go:384`).
- A leader runs without a dashboard (`main.go:166`), so that "the Leader's TUI" of
  `docs/OBSERVABILITY.md:150`, in which the containers of workers appear, does not exist,
  and the part of `fetchContainers` that merges remote containers is never used.
- A leader with Prometheus disabled serves no push endpoint (`prometheus.go:218`), and yet
  logs that it receives metrics (`main.go:125`) and announces itself.
- While Docker fails on a leader's host, `collect` returns before it empties the vectors
  (`prometheus.go:273`): hosts that are long silent stay in `/metrics`.
- `client.go:35` says that the cached details do not change during a container's life;
  `docker update` changes limits and restart policy, and the old ones stay shown.
- The cache of details is never pruned (`client.go:781`): it grows with every container that
  was ever listed.
- With the logs open behind the service map, '/' opens a search bar that is not drawn; it
  swallows every key but 'esc' (`tui.go:573`), so that 'm' does not leave the map.
- A confirmation whose list has become empty is not drawn, but takes the next key
  (`tui.go:802`).
- While logs, the map or a confirmation is open no sample is fetched by the tick
  (`tui.go:439`): unless a Docker event or a result comes, no alert fires or resolves until
  the view is closed.
- Typing into the search bar does not filter (`tui.go:524`, against `docs/TUI.md:104`).

## 6. What is not modelled

Messages, logger, data types, the collector and the text `View` draws are formatting
and keep no state. The service map is one scan per call whose result is only
displayed. `GetRecent` of the store and `GetLastStats` of the exporter have no caller.
The CPU arithmetic of the statistics is on floats. AES-GCM is taken to do what it
promises. Sharding only spreads locks. That a cache hit in `Audit` writes the time into
cached alerts under a read lock has no effect as long as only the message loop calls it.

## 7. Plan

Done, in this order: alert engine with its lifecycle; store; cleanup and shutdown on top
of it; panel; configuration; cluster; events; dashboard; exporter and agent; container
details, auditor and stress tests; and proofs of the safety properties of them all.

What is left to model: two rules of one name in the alert engine; the auditor feeding
`AlertPanel` instead of arbitrary findings; an abstract specification of the leader's
store, "the latest snapshot that was handled", which `ClusterPush` implements.

Next theorems: that `ClusterPush` implements that specification; that a confirmed action
is applied to the containers it was asked for as long as the list stays as it is; that
the agent's parts that run side by side keep the theorems of each.
