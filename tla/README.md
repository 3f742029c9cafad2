# Formal models of the cell router

TLA+ models of the router of this repository, the TLC runs that check them on
small instances, and TLAPS proofs of the properties that matter most. Paths are
relative to the repository's root, which `PROJECT.json` calls `src/`.

## The system

The router (`cmd/router`) is an HTTP proxy. Each request carries a routing key;
the routing table maps it to a *placement* (a shared tier or a dedicated cell)
whose endpoint the request is sent to. Configurations come from a file that is
polled, or from a control plane (`cmd/control-plane`) over a WebSocket.

| Component | State | Operations | Interacts with |
|---|---|---|---|
| Circuit breakers, `internal/circuit/breaker.go` | per placement: state, failure count (uint32), retry time; a mutex each | `Allow`, `RecordSuccess`, `RecordFailure`, `GetBreaker`; `RemoveBreaker` is never called | called by every request |
| Limits, `internal/limits/manager.go` | per placement: a buffered channel as semaphore, a body limit | `TryAcquire`, `Release`, `ValidateRequestBodySize`, `SetConfig` at boot; `Acquire`, `RemoveConfig` never called | called by every request |
| Health checkers, `internal/health/checker.go` | endpoints and their health, a stop channel, a wait group; one goroutine per endpoint | `RegisterEndpoint`, `IsHealthy`, `checkLoop`, `Stop`; `UnregisterEndpoint` never called | read by every request, written by probes |
| Proxy handler, `internal/proxy/handler.go` | the configuration of its boot, its checker, breakers and limits; per request its placement and failovers | `NewHandler`, `ServeHTTP`, `Stop` | all of the above and the router |
| Configuration, `internal/config/config.go` | immutable | `Validate`, accessors of the two formats | loader, handler, control plane |
| Loader, `internal/config/loader.go` | active configuration, checksum, source, reload time (four atomic values) | `LoadInitial`, `tryReload`, `ApplyConfig`, getters | the file; the router, the control plane's server, the data-plane client |
| Router, `internal/routing/router.go` | none | `Route`: three loads and a lookup | the loader |
| Control-plane server, `internal/controlplane/server.go` | connected clients under an RWMutex | `HandleConnection`, `BroadcastConfig`, `WatchConfigChanges` | its loader, WebSocket connections |
| Data-plane client, `internal/dataplane/client.go` | connection, reconnect flag, stop channel | `connectionLoop`, `handleConfigSnapshot`, acks, `Stop` | the server, the loader |
| Debug handler, `internal/debug/handler.go` | none | reads version, source and reload time separately | the loader |
| Logging, the demo cell | none relevant | | |

What is hard in it:

- *Interleaving.* Every request is a goroutine that consults four shared objects
  one after the other and reports to a breaker what happened much later, when
  the breaker may have changed state several times.
- *Failover.* Two failovers follow each other in `ServeHTTP` and reassign the
  placement, while the slot and the breaker stay with the first one.
- *Ordering.* Placements are configured in the random order of a Go map, and the
  order decides which health checker survives.
- *Atomicity.* A reload reads the file twice; a routing decision loads the
  configuration three times.
- *Failure.* Reloads may fail at every step; the control plane may be away.
- *Distribution.* Initial snapshots and broadcasts are written by different
  goroutines to one connection; connections break, either process may end, and
  a data plane that falls behind is told nothing until the version changes.
- *Start-up and shutdown.* What replaces the configuration starts before the
  handler is built from it; the client is stopped while it may be dialling.
- *Timeouts.* The retry time of a circuit races the late answers of requests.

What makes each part correct: a breaker opens exactly at the threshold, recovers
only through a probe and is retried; a semaphore's slots are those of the
requests admitted; the health requests consult is that of the probes; a program
serves the last good configuration and follows its file; a routing decision is
one that some configuration in force makes; a failover finds an endpoint in the
configuration it uses; a data plane serves only what was published and is not
left behind; the debug endpoint never takes back what it has shown.

## The modules

| Module | Models |
|---|---|
| `Cells` | the placements, shared by all modules |
| `CircuitBreaker` | the breakers: one record per placement, one action per method |
| `BreakerContract` | abstract: what a breaker promises, over windows of outcomes, without counter or clock |
| `BreakerHistory` | `CircuitBreaker` with the window as a history variable; shown to implement the contract |
| `Limits` | the semaphores and the body check |
| `Bulkhead` | abstract: at most `Capacity[p]` requests inside a placement, each inside one only |
| `HealthChecker` | endpoints, their probe loops, stop channels |
| `Resilience` | `NewHandler`'s configuration loop and `Handler.Stop` over `HealthChecker` |
| `ProxyHandler` | `ServeHTTP` for a set of concurrent requests, composed (`EXTENDS`) with breakers, limits and checkers |
| `RoutingConfig` | configurations, both formats, `Validate` with its panics, the lookup, the snapshot message |
| `ConfigLoader` | the file and the loader, one action per read of the file |
| `DebugView` | the debug handler's three reads against the loader's three stores (`EXTENDS ConfigLoader`) |
| `Router` | `Route` as three loads, composed (`EXTENDS`) with the loader |
| `Gateway` | the router process: routing by the loader, failovers by the configuration of the boot (`EXTENDS Router`) |
| `Connections` | external: WebSocket connections as the code uses them |
| `ControlPlane` | the control-plane server and its process, over `Connections` |
| `DataPlane` | the data-plane client, over `ConfigLoader` and `Connections` |
| `ConfigPush` | both, a network that breaks connections, and other data planes |
| `Distribution` | abstract: what a data plane may serve, in terms of what was published |
| `MCProxyHandler`, `MCConfigLoader`, `MCGateway`, `MCConfigPush` | instances for TLC |
| `*_proof` | theorems of the module they are named after |

Every module maps to code in `PROJECT.json` (`map`); the ones named `...Unbounded`,
`...KeepsCount`, `...OffByOne` and the like, each introduced as "a variant of",
are faulty versions of the definition after them. They are part of no
specification; substituted for the right one they make a property fail.

### State and actions

`CircuitBreaker`. Each exported method holds the breaker's mutex, so each is one
action. The clock is reduced to `due`, whether the retry time has passed:
cleared where the code sets `nextRetryTime`, set by `TimeoutElapses` at any later
moment. The counter keeps its width as arithmetic modulo `CounterRange`.

`Limits`. `slots[p]` is `len(ch)`. `Release` is a receive, so it is not enabled on
an empty semaphore. Looking the semaphore up and using it are one step, since the
maps are written only while the handler is being built.

`HealthChecker`. `loop[p]` is the goroutine of an endpoint, its only writer. A
probe and the write of its result are one step with either result. The `select`
of `checkLoop` may prefer a ready tick to the closed stop channel.

`Resilience`. `Configure(p)` is one iteration of the loop over the endpoints, in
any order; `current` is `Handler.healthChecker`. `Stop` is two steps, between
which the loops wind down.

`ProxyHandler`. `pc[r]` says between which two accesses to shared state a request
is; its comment gives the correspondence. `key[r]` is the placement the request
was routed to: the argument of the deferred `Release` and the breaker were
evaluated with it. `target[r]` follows the failovers. `verdict[r]` is what the
breaker answered. The upstream's answer is a free choice between success and
failure. A client that goes away, or a copy that breaks off, is a failure in
the code and so in the model. Where requests go is a free choice too among
`Routable`, which may include placements the handler does not know (`Placements \
BootPlacements`; they have no limits, but may have a fallback, where the boot
configuration had an entry for them). Failovers
need placement configurations; a file that has both `cellEndpoints` and
`placements` gives them to a running router (a file with `placements` only
routes nothing: theorem `PlacementsFormatNeverRoutes`). Upstream status codes
are 100 and above: `WriteHeader` panics on smaller ones, which net/http would
recover from without a report to the breaker.

`ConfigLoader`. `file` changes by `Edit`, one of the pairs in `Edits`. The
checksum is modelled by the contents it was computed from. `stage` is where a
load is; `read` what its first read saw. Parsing, URL and duration syntax are
reduced to whether they succeed. A panic in the reload goroutine and a fatal
`LoadInitial` both end in stage `failed`, `Loader.Stop` in `stopped`. `ApplyConfig(c)` stores `Snapshot(c)`,
what the message from the control plane keeps of `c`.

`Router`. `table[r]` and `endpoints[r]` are the configurations the first two loads
came from; the third load and the lookup are one step (`Decide`), since the
lookup touches only what was loaded. Configurations are immutable once stored.
`seen[r]`, a history variable, is the set of configurations that were active at
some moment of the call.

`DebugView`. `storing` is the value an adoption has yet to store. Of one adoption,
chosen freely among all of a behaviour, `stored` keeps which of the three values
are by now its own or a later one's; `shown[v]` is that for the values a view has
read. What is true for an adoption chosen freely is true for all. Both modes are
covered; in file mode the source is "file" before and after a reload, and saying
"its own or later" of it is then harmless.

`Gateway`. `boot` is `Handler.config`, set by `NewHandler` at any moment after the
loads and pushes have begun. `Opened` and `Ailing` are the two failovers of
`ServeHTTP` as far as the configurations go; `sent[r]` is where the request ends
up. Which circuits are open and which placements unhealthy is a free choice,
which includes what `ProxyHandler` tells can be. `ServeHTTP` past the routing
touches the loader no more, so `Send` is one step.

`Connections`. `wire[k]` holds what was written and not read. A connection breaks
at once and each end notices when it next uses it; what was under way may still
arrive or be lost. `Capacity` stands for the buffers of the network: a write
blocks on a connection whose reader does not read. Acknowledgements are left
out: the server only logs them.

`ControlPlane`. `handler[k]` is the goroutine of a connection, `watch` the one
goroutine of `WatchConfigChanges`; `clients` is the map of the same name. The
mutex is in the guards: a broadcast holds the read lock from `BroadcastLock` to
`BroadcastDone`, so registration waits for it. `served` is what the loader
serves; versions go upwards (`VersionsAssumption`), and an edit may forget to
change them. `WritesCollide` is the concurrent use of one connection, which
gorilla/websocket forbids: one message at most arrives whole, and either
goroutine may panic (a panic of the watcher ends the process: `Crash`).
`overtaken` is a history variable, see below.

`DataPlane`. `phase` is where `connectionLoop` is. `connect` holds the client's mutex
while it dials, and so is one step for `Stop`; between the check of `reconnect` and
`connect` the mutex is free, so these are two. `stopping` stands for `reconnect`,
the closed stop channel and the wait for `done`. `handleMessages` and
`handleConfigSnapshot` are one step, since nobody else writes the loader.

`ConfigPush`. One data plane in full; of the others only that their connections
(`PeerConns`) come, go and read. `Dial` is one step of both sides.

## The runs

Passing runs:

| Run | Question | Bounds |
|---|---|---|
| `BreakerHistory` | Does the counter implement the contract under every order of reports? | 2 placements, threshold 3, counter modulo 8: several late failures fit above the threshold and the counter wraps |
| `ProxySafety` | Do slots, circuits and failovers stay consistent under concurrency? | 3 requests; `tier1` (limit 2, body limit) falls back to the default `tier3` (limit 1); threshold 2, counter modulo 4; requests interchangeable (symmetry, no liveness) |
| `ProxyLiveness` | Is every request answered, do circuits move on, and does a refused request stay away from the circuit that refused it when both failovers move it? | 2 requests, limits of 1, threshold 1, body limit on one tier; three tiers whose failovers form a ring (`tier1`, the default, to `tier2` to `tier3`, and from there to the default), requests routed to `tier1` and `tier3`; no `health_check` of their own, so every probe counts in whatever order they are configured (with them it does not: `ResilienceOwnChecks`) |
| `Resilience` | Does `Stop` return and silence the checker that requests read, while replaced checkers go on? | 3 placements configured in every order, two with a `health_check`, and one that is not configured |
| `ConfigLoader` | What is served while the file is edited between loads, does the checksum always tell it, is a settled file served, and what does the debug endpoint tell meanwhile? | 9 configurations (5 valid; 4 faulty in different ways), an unparsable and a missing file, every edit between any two; 2 viewers |
| `Gateway` | Does a rollout ever make routing fail or leave a failover without an endpoint? | 5 configurations that add a cell, move keys to it, make it a fallback and move it; edits that never withdraw an endpoint, 1 caller, 2 keys |
| `ConfigPush` | Which data planes fall behind, do the others get what is published, does routing go on through it all, does `Stop` return and is nothing applied afterwards? | 2 versions, the data plane's connection and a peer's, each used again and again; 1 message under way; breaks, crashes and restarts without bound |

One caller is enough for `Gateway`, since callers share nothing they write. Two
viewers let one view overlap another that has already told its news. Two
versions suffice for the liveness of `ConfigPush`, where only the version that
settles counts; what needs a third, a version served between the one the watcher
compared and the one it broadcasts (`server.go:155`), is covered by theorem
`OnlyTheOvertakenFallBehind`. One message under way is enough to block a writer
and to lose a message. Larger instances were checked once by hand: the safety
properties of `ConfigPush` with three versions (1.1 million states), `Gateway`
with configurations pushed by a control plane instead of a file (0.8 million),
and `DebugView` in that mode. Two placements are enough for `ProxySafety` to tell
the placement routed to from the one a request is sent to; in the ring of
`ProxyLiveness` both failovers move a request on, and one more would bring it
back. Three requests let one be refused or late while another probes and a third
is between its failovers. The default of `FailureThreshold` is 5 in the code; 2
and 3 already have counts strictly between reset and trip. What does not depend
on these bounds is proved.

`CHECK_DEADLOCK FALSE` stands where the system may stop: after `Handler.Stop`,
after a fatal load, and when nobody edits the file any more.

### Where code and documents disagree

Each of these runs checks one statement of a document or comment, and TLC finds
it violated (`findings` in `PROJECT.json` has the quotations):

| Run | What the run shows |
|---|---|
| `ProxyHalfOpen` | a half-open circuit lets all requests through, not one |
| `ResilienceOwnChecks` | placements with a `health_check` displace each other's checker, and failed probes are ignored (theorem `AtMostOneOwnCheckCounts`: always, of all but one) |
| `ConfigLoaderRace` | an edit between the two reads of a load may be missed for ever |
| `RouterTorn` | a reload inside `Route` yields a decision no configuration makes |
| `ClientStopHangs` | a `Stop` between the check of `reconnect` and the dial waits for as long as the new connection holds, and with it the shutdown of the router |

The models contain further disagreements for which no run is kept:

- a half-open circuit is closed by the success of a request its fallback answered
  (`handler.go:278`, against `milestone-4.md:36`);
- failovers exceed the `concurrency_limit` of the fallback (`handler.go:174`,
  against `config/README.md:82`); theorem `LoadIsBounded` says by how much;
- where a fallback is its own placement or fails over to it (two placements that
  name each other, or the default as the fallback's way out), a request an open
  circuit refused may still go to that circuit's placement (`handler.go:245`,
  against `ARCHITECTURE.md:99`); theorem `OnlyLoopsBypass`: nowhere else;
- an open circuit without a fallback is answered with 503 (`handler.go:219`,
  against `ARCHITECTURE.md:103`);
- a placement written `null` ends the process (`config.go:109`, against
  `ARCHITECTURE.md:101`): the exception in `BadReloadsAreSurvived`;
- with `placements` only, as in `config/routing-m4.json`, `Route` fails for every key
  (`loader.go:101`, against `config/README.md:15`; theorem
  `PlacementsFormatNeverRoutes`);
- a data plane whose initial snapshot is overtaken by a broadcast serves the older
  one until the version changes again (`server.go:82`, against the "receive fresh
  config snapshot" of `milestone-3.md:104`): the exception in
  `OnlyOvertakenFallBehind`;
- an edit that keeps the version is never broadcast (`server.go:155`), which is as
  `milestone-3.md:54` says, but a data plane that connects afterwards is given it,
  so that data planes of one version may differ;
- an initial snapshot and a broadcast may be written to one connection at once
  (`server.go:118`), which gorilla/websocket forbids (`WritesCollide`);
- the snapshot message loses `placements`, and the data plane neither validates
  nor rejects anything (`client.go:151`, against `milestone-3.md:62`, `:63`, `:103`;
  theorem `PlacementsSnapshotsAreBad`, and the hypothesis of `RoutingContinues`);
- acknowledgements carry an empty version (`client.go:183`, against
  `milestone-3.md:84`);
- the data plane redials at once when an established connection is lost
  (`client.go:86`, against `milestone-3.md:61`);
- fallbacks, limits and failover endpoints stay those of the boot when the
  configuration is reloaded (`handler.go:205`, against the swap of
  `milestone-2.md:45`);
- an answer of the debug endpoint may mix the values of two reloads
  (`debug/handler.go:30`); `AnswersMoveForward` is what remains true;
- the breakers ignore `failure_threshold` and `timeout` of a configuration
  (`handler.go:66`, against `config/README.md:80`);
- a response timeout is answered with 502 (`handler.go:291`, against the 504 of
  `ARCHITECTURE.md:96`).

## Fairness

- `HandlerFairness`: weak fairness of each request's goroutine and of the clock.
  Waiting for an upstream ends since the `http.Client` has a timeout that covers
  the body; writing to the caller ends with the server's `WriteTimeout`. Nothing
  is assumed of callers, upstream answers or probes, so `OpenCircuitsAreRetried`
  has the repeated consultation of the breaker as its hypothesis.
- `ResilienceFairness`: the configuration loop, probes (bounded by the checker's
  timeout) and `Stop` make progress. A loop with a closed stop channel exits in
  the end because `select` chooses at random among ready cases. Nothing makes
  anyone call `Stop`.
- `LoaderFairness`: `LoadInitial` runs and the ticker ticks; it is one fairness
  condition for the loader's thread of control. Edits and pushes are not fair.
  `DebugFairness` is the same with the loader's stores; nobody has to look at the
  debug endpoint.
- `PushFairness`: each connection's goroutine, the watcher and the client's loop
  run. A dial is not refused for ever while the control plane listens (strong
  fairness of `Dial`: the loop is only now and then between its check and the
  dial, and a back-off ends). Other data planes run this same client, so they
  read what they are sent (`PeerRead`); the server has no write deadline, so
  without this a broadcast might never end. Nothing is assumed of operators,
  crashes, restarts, breaks or of when `Stop` is called. `Router` and `Gateway` have
  safety properties only.

## What is proved

The theorems hold for every value of the constants that satisfies the named
assumptions (`BreakerAssumption`, `LimitsAssumption`, `ResilienceAssumption`,
`HandlerAssumption`, `LoaderAssumption`, `ConnectionsAssumption`,
`VersionsAssumption`, ...), all of which TLC evaluates. Some have hypotheses of
their own, named below.

Breakers, limits, checkers and handler:

- `CircuitBreaker_proof!BreakersStayInOrder`: type correctness and
  `ClosedBelowThreshold`. The two are inductive together, except that a success
  must leave a count below the threshold, which needs the threshold positive.
  `RetriesAreNotPostponed`: an open circuit whose timeout has passed stays due
  until it turns half-open.
- `BreakerHistory_proof!ContractImplemented`: refinement of `BreakerContract`.
  The invariant relates the count of a closed circuit to the window: the last
  `failures` outcomes of the window are failures, and the one before them, if the
  window has one, is a success. Hence the count reaches the threshold exactly
  when the window is full of failures.
- `Resilience_proof`: type correctness; `BuiltinProbesCount`: without checkers
  of their own (`OwnHealthCheck = {}`), the placements all register with the
  checker of the start, which stays the one requests read;
  `AtMostOneOwnCheckCounts`: with them, in every order, a placement with a
  `health_check` is registered with the checker made for it or not at all
  (`OwnChecksApart`), so all but the last one configured are always found healthy;
  `StopSilences`: `Stop` returns only after the loops of its checker have ended,
  and no loop starts on a stopped checker; `StopWaitsForWhatItClosed`.
- `ProxyHandler_proof`: type correctness; `SlotAccounting`, from an invariant that
  relates each semaphore to the requests holding it, by the cardinality of sets
  that gain or lose one element; from it the refinement of `Bulkhead` and
  `DeferredReleaseRuns`; and `HalfOpenIsProbed`. `OnlyLoopsBypass`: a request that
  an open circuit refused comes back to its placement only where the fallback
  leads straight back (`LeadsBack`), since `ServeHTTP` fails over twice at most;
  hence `OpenCircuitNotBypassed` where no fallback does (`OpenCircuitsHold`).
  `LoadIsBounded`: every request is on a course the two failovers can give it
  (`OnCourse`), so what waits for a placement was admitted under it or under
  the one placement that fails over to it, and the two limits bound it. (The
  bound is not a run's property: it takes four requests to tell it from a smaller
  one.)
- The handler runs its components as their own specifications allow:
  `HandlerDrivesBreakers` (`HandlerSpec => BreakerSpec`) and the lemma
  `HandlerDrivesCheckers`. So what is proved of a component under any client
  holds under the handler's traffic: `ClosedCountsStayLow`,
  `TrafficPostponesNoRetry`, `RequestsSeeEveryProbe`.

Configurations, loader and router:

- `ConfigLoader_proof!LastGoodServed`: `LastKnownGood` is strengthened by what
  `LoadInitial` holds between its two reads (`GoodInHand`). `LoaderTypeCorrect`
  needs the same invariant: what is adopted is what was validated.
  `OnlyNullsAreFatal`: of the steps that end the program, only a reload that may
  panic starts from a running loader. `ChecksumIsThatOfActive`: with no edit
  between the two reads of a load, what the first read saw is what the file still
  contains (`ReadsAgree`), so the checksum remembered is that of what is served.
- On configurations as such: `ValidConfigsRoute` (a valid one routes every key),
  `ValidateAnswers` (its three outcomes leave nothing out and never overlap with
  acceptance), `LegacySnapshotsAreGood` and `PlacementsSnapshotsAreBad` (what the
  message of a control plane makes of a configuration in either format).
- `DebugView_proof!PollingMovesForward`: what some answer has shown is of stored
  values, the configuration is stored first of the three, and `stored` never
  shrinks; so once anything of the adoption was told, `config` is stored for
  every later view. The loader of `DebugView`, at the grain of its separate
  stores, takes the steps of `ConfigLoader` (lemma `DebugRunsLoader`); hence
  `WatchedLoaderServesGood`, `WatchedChecksumTells` and `WatchedReloadsSurvive`.
- `Router_proof!SinglePartEditsAtomic`: every load of a call is in the call's
  history, and of three configurations that pairwise differ in one part at most,
  one has all three parts. `RolloutsAreSafe`: under `OnlyRollouts`, the file
  covers the active configuration, so every load of a call covers the previous
  one; needs the assumption that `NoRoute` is not a routing decision.
- `Router_proof`, on `Gateway`: the process implements `Router`
  (`GatewayImplementsRouter`), hence what is proved of `Router` holds in it.
  `FailoversFindEndpoints` and `EndpointsAreOfOneConfig` rest on `GatewayInv`: what is
  served is either a validated file or the snapshot of a validated one
  (`ActiveSound`), the handler was built from such a configuration (`BootSound`),
  and what a call has loaded is in its history (`LoadedFromSeen`). A validated
  configuration has an endpoint for its default and for every fallback it names; a
  snapshot has no placements and falls back on its default only.

Distribution, in `ConfigPush_proof`:

- `PushTypeCorrect`; `OnlyTheOvertakenFallBehind`, whose
  invariant (`CaughtUp`) says what the watcher owes a connection at each moment
  (`Owed`): the version it remembers, or the one it is broadcasting once it has
  written to that connection. The snapshot the handler has loaded, and then the
  last message on the wire, is at least that, unless overtaken; and the watcher
  never remembers more than what it broadcast (`WatcherBehind`).
- `PushImplementsDistribution`: every step of the detailed system publishes, boots,
  adopts something published, or stutters; the wire and the snapshots about to be
  sent hold only published configurations.
- `RoutingContinues`, the critical invariant of `milestone-3.md:5`: a router that has
  booted routes every key, whatever fails. What is in force was validated, by
  `LoadInitial` or by the control plane's loader, and a message keeps that
  (`LegacyServed`). Its hypotheses: what `Validate` accepts is in the legacy format
  (`OnlyLegacy`; `PlacementsSnapshotsAreBad` shows that it cannot be dropped), and
  `NoRoute` is not a routing decision. Nothing is assumed of order or loss.
- `NothingAppliedAfterStop`: `Stop` returns only after `connectionLoop` has
  (`StopOrder`), and the loader was ready before the client was started, so nothing
  is left that could replace the configuration. `ClientEndsOnlyByStop`.

Only model-checked: all liveness, since liveness under fairness is out of the
prover's reach. Of each of these properties the part that is safety is proved:

| Property | What is proved of it |
|---|---|
| `OpenCircuitsAreRetried` | `TrafficPostponesNoRetry`: a circuit that is due stays due |
| `HalfOpenResolves` | `HalfOpenProbed`: the request that will report exists |
| `EveryRequestAnswered` | `DeferredReleaseRuns`: the one step that could block does not |
| `StopTerminates` | `StopWaitsForWhatItClosed`: the loops waited for run and are told to end |
| `SettledFileIsServed` | `ChecksumIsThatOfActive`: a tick misses nothing, if loads are not raced |
| `SettledVersionArrives` | `OnlyTheOvertakenFallBehind`: the version announced is on the wire or served |
| `ClientReconnects`, `StopReturnsUnlessDialing` | `ClientEndsOnlyByStop`: the loop ends only by `Stop`, and dials at most once after it |

Every safety property of a passing run is also proved.

## What is not modelled

- `RemoveBreaker`, `RemoveConfig`, `Acquire`, `UnregisterEndpoint` and a `SetConfig` under
  traffic: nothing in the repository calls them so, and a model would invent the
  order of calls.
- The graceful shutdown of the two HTTP servers, which is net/http's; the end of
  a process is `Crash`, `Handler.Stop` is in `Resilience` and `Client.Stop` in `DataPlane`.
- Durations of timeouts, intervals and back-offs: only that they end.
- A version that goes back within a tick of the watcher: versions go upwards.
- Acknowledgements and rejections: the server only logs them.
- Logging, headers, wording, and the demo cell, which keeps no state.
