# yaagents-gateway: TLA+ models and proofs

The gateway is an HTTP reverse proxy in Go. A request passes a shutdown gate,
a chain of plugins (token validation, tenant lookup, license check, CORS), a
route dispatcher with tenant and role checks, and one of two proxies: the
standard one or a pipe-and-flush one for server-sent events (SSE). This
directory holds TLA+ modules translated from that code, the TLC
configurations that check them, and proofs that TLAPS checks.

To repeat the checks: `tlc -config <run's cfg> <run's module>` for each run of
`PROJECT.json`, and `tlapm` on each of `SSEProxyProofs.tla`,
`PipelineProofs.tla`, `JWKSCacheProofs.tla`, `LRUCacheProofs.tla`,
`LicenseCheckProofs.tla`, `TenantInjectorProofs.tla`, `TokenValidatorProofs.tla`
and `MainProofs.tla`.

## 1. The system: an inventory

| Component (source) | State it keeps | Operations | What is hard |
|---|---|---|---|
| SSE limiter (`internal/llm/limiter.go`) | one atomic counter per tenant | `TryAcquire` (add, compare, undo), `Release` | add and undo are separate atomic steps; a leaked slot is lost for good |
| SSE metrics (`internal/llm/metrics.go`) | gauge per tenant and route, error counters | `Inc`, `Dec` (prunes at zero), `Error` | pruning hides imbalance |
| SSE proxy (`internal/llm/proxy.go`, `sse.go`) | none of its own; context, upstream body, response writer | handler: acquire, dial, classify a failure, copy with or without flush, deferred `Dec` and `Release` | disconnect, two timers, a read that returns bytes with its error, a writer that may not flush |
| tenant-injector (`internal/plugins/tenantinjector`) | LRU+TTL cache under a mutex, singleflight group | `Handler`, `cacheGet`, `cacheSet`, `doHTTPLookup` | the miss is acted upon after the mutex was released; stale answers; followers |
| JWKS cache (`internal/plugins/tokenvalidator/jwks.go`) | keys and fetch time under a RWMutex | `getKey`, `refresh` | refreshes overlap and store in any order; stale fallback |
| token-validator (`.../tokenvalidator/plugin.go`) | configuration; a JWKS cache per entry of the pool, also where two share a URL | `Init` (v1, v2, shim), handler | order of some fifteen checks, before and after the signature |
| license-check (`internal/plugins/licensecheck`) | LRU+TTL cache under a mutex | `Handler`, `verify` with one retry | no singleflight: verdicts stored in any order |
| route dispatcher (`internal/proxy/dispatcher.go`) | none; writes metrics and audit | match, observe, `EnforceTenant`, roles, deadline, reverse proxy, error handler | first match decides; panics of the reverse proxy; deadline before or after the header |
| metrics, audit (`internal/metrics`, `internal/audit`) | counters; an append-only sink | record, emit | their agreement |
| boot (`cmd/gateway`, `internal/routes`, `internal/loader`, `plugin`) | registry of plugin singletons, ordered chain | load routes, validate overrides, merge environment, `Init` in order | repeated, unknown and failing entries; absent against zero |
| shutdown (`cmd/gateway`, `Loader.Shutdown`) | gate flag, server state | gate, drain, plugins' `Shutdown`, exit | two goroutines and the requests between them |
| cors plugin (`internal/plugins/cors`) | configured origins | `Handler` | its place in the chain decides who may read a refusal and whether a preflight needs a token |
| tenant context (`internal/tenant`, `internal/reqctx`) | values in the request's context | `ContextMiddleware`, `EnforceTenant`, `InjectUpstreamHeaders` | headers of the client, of a plugin and of the context overwrite each other |
| auth (`internal/auth`), in no binary yet | keys and fetch time under a RWMutex | `Middleware`, two validators, `getKey`, `refresh` | a call reads the keys again after another's refresh |
| prompt-sanitize and otel-audit stubs, probes, logging, error bodies | | | see section 8 |

How they interact: `main` boots, wires gate → plugins → dispatcher → proxies,
and starts the signal goroutine. Plugins hand their results on through the
request's context and headers. The dispatcher's recorder wraps the response
writer that both proxies write to. The limiter and the two metrics registries
are shared by all requests; each plugin's cache is shared by the requests that
pass it. The directory, the JWKS endpoints, the license server, the upstreams
and the clients are outside, and may answer late, wrongly or never.

What makes each part correct, in one line each:

- limiter: no tenant above its limit, no slot leaked or returned twice, a
  refusal only under pressure of the same tenant;
- SSE stream: what was read leaves before the next wait, nothing is lost, a
  request that is over gives its slot back;
- tenant-injector: only the directory's tenant of the same principal is
  injected, answers do not go back in time and have a bounded age;
- JWKS cache: a withdrawn key stops working in bounded time, a good key keeps
  working while fetches fail;
- token-validator: exactly the valid tokens pass, and only the genuine ones
  are told what is wrong with their claims;
- license-check: decided by the server's own recent verdict, or denied;
- dispatcher: nothing reaches an upstream without the first matching route's
  roles and tenant; audit and metrics agree;
- the chain as a whole: the upstream is told what the route has checked and the
  injector derived, not what the client claims; listed origins, and only they,
  may read every answer;
- auth: a token signed with a key that stays is not refused for what other
  requests fetch;
- boot: a gateway that serves runs what its files list, configured usably;
- shutdown: plugins outlive the requests inside, and a signal ends the process.

The hazards in `PROJECT.json` name the line where each of these can go wrong.

## 2. Modules

| Module | Models | Composed with |
|---|---|---|
| `SSEProxy` | limiter, SSE metrics and SSE handler, one goroutine per request | `SlotPool` (refinement) |
| `SlotPool` | abstract: a pool of slots per tenant | |
| `SSEProxyProofs` | theorems about `SSEProxy` | EXTENDS `SSEProxy` |
| `RecentAnswers` | abstract: a cache of bounded age in front of an authority | |
| `LRUCache` | the LRU+TTL cache that two plugins each have a copy of, as operators on its value | |
| `LRUCacheProofs` | lemmas about sequences and about `LRUCache`'s operators | EXTENDS `LRUCache` |
| `TenantInjector` | tenant-injector's handler, cache, singleflight, lookup | EXTENDS `LRUCache`; `RecentAnswers` (refinement) |
| `TenantInjectorProofs` | theorems about `TenantInjector` | EXTENDS it and `LRUCacheProofs` |
| `LicenseCheck` | license-check's handler, cache, verify with retry | EXTENDS `LRUCache`; `RecentAnswers` (refinement) |
| `LicenseCheckProofs` | theorems about `LicenseCheck` | EXTENDS it and `LRUCacheProofs` |
| `JWKSCache` | `getKey` and `refresh` under concurrent calls | |
| `JWKSCacheProofs` | theorems about `JWKSCache` | EXTENDS `JWKSCache` |
| `PluginConfig` | what the `Init` functions of four plugins make of a YAML block, as operators | |
| `TokenValidator` | token-validator from its configuration to its verdict | EXTENDS `PluginConfig` |
| `TokenValidatorProofs` | theorems about `TokenValidator` | EXTENDS `TokenValidator` |
| `Boot` | `main` and the loader, to a serving gateway or an exit | EXTENDS `PluginConfig` |
| `Dispatcher` | matching, authorisation, what the upstream is told, reverse proxy, observation: actions only | |
| `Auth` | the keys of the auth package under concurrent requests | |
| `Pipeline` | a request through a chain of plugins and middlewares, and the dispatcher behind it | EXTENDS `Dispatcher`, INSTANCE `Auth` |
| `PipelineProofs` | theorems about `Pipeline` | EXTENDS `Pipeline` |
| `Shutdown` | signal goroutine, gate, drain, exit | |
| `MainProofs` | theorems about both halves of `main` | EXTENDS `Boot` and `Shutdown` |
| `MC...` | instances for TLC | |

### How state and actions correspond to the code

The modules have one program counter per goroutine (`pc`), and cut a
handler into steps where another goroutine can see the difference: at every
atomic operation, at every critical section of a mutex, and around each call
that waits (for an upstream, a directory, a client). What lies between two
cuts is one action, with everything it does. Definitions carry the code's names
where it has one; `PROJECT.json` maps each to its lines.

- **SSEProxy.** `count` is `Limiter.counts`, `active` and `errors` are
  `SSEMetrics`. `TryAcquire` and `Undo` are its two atomic additions. `got`,
  `wrote`, `sent` count the chunks of a stream as they are read, given to the
  server's buffer, and sent. `ctx` is `r.Context().Err()`; `cut` says that
  http.Server's `WriteTimeout` has passed, after which writes fail. The route's
  deadline is `executionTimeoutSeconds` + 30 s and starts later than the
  30 s of `WriteTimeout`, so `Deadline` needs `cut`.
- **TenantInjector.** `cache` is the list and the map; `flight[p]` is the
  singleflight call of principal `p`. `directory[p]` is the history of the
  directory's answers, each with the moment until which it held, so that the
  age of an answer can be told. `floor` is a history variable that only one
  property reads. Timeouts and TTLs are counted on the clock `now`.
- **LicenseCheck.** The same, with verdicts in place of tenants, and a loop of
  attempts in place of a flight.
- **RecentAnswers.** `truth` is that history, `result` what each request ended
  with. A request is decided once, by what the authority says of its own key
  or gave up no longer ago than `MaxAge`, or it fails. `MaxAge` is TTL plus
  timeout; for an absent principal, the negative TTL plus timeout.
- **JWKSCache.** `keys` and `fetchAt` are the validator's fields; a document is
  the set of its usable RSA keys. An error answer with a JSON body is a
  document without keys, since `refresh` looks at no status code.
- **TokenValidator.** The checks of the two handlers are sequences of `Check`
  records in the code's order, and the first that fails decides. A key lookup
  is one step here; how lookups race is `JWKSCache`'s business. `keys` and
  `fresh` are per entry of the pool, each of which has its `jwksValidator`: two
  entries with one URL share the endpoint (`served`) and not what was fetched.
  One request is handled after the other, with key sets that change, expire and
  fail between.
- **PluginConfig.** A YAML block is a function on the keys present; `Get` does
  what the accessors do: absent or mistyped is zero. Each `XInit` returns
  whether Init fails, and the fields it leaves.
- **Boot.** One action per step of `main` and of `loader.Load` that can refuse
  the configuration, and one per plugin's `Init`.
- **Dispatcher.** `code` and `wrote` are `responseRecorder`'s fields; `Inform`
  is a 1xx answer that the reverse proxy passes on; `CopyBreaks` is its panic
  with `http.ErrAbortHandler`. `header` is the identity in the gateway's own
  headers (tenant, subject, roles, the two ids), `actor` what the context holds
  of it, `told` what the upstream was asked with: `InjectUpstreamHeaders` makes
  it on standard routes, `CloneHeaders` on SSE routes. `events[r]` is what the
  sink has of the request, `counts` the counters of `/metrics`.
- **Pipeline.** `config.chain` is the list of plugins, `hop` the one a request
  has reached. Each hop passes the request on (`CallNext`) or answers it
  (`Answer`). What a token is worth, and what directory and license server say,
  is decided in one step here; the other modules have the steps. The
  injector's header is `X-Tenant-ID`. "auth" and "context" stand for the
  middlewares of `internal/auth` and `internal/tenant`, in the chain that
  `tenant.go:7-9` documents.
- **Auth.** `keys` is the validator's map, `fresh` says that `fetchAt` is
  within the ttl, which is all that `getKey` reads of it. `call` has the
  sections of `getKey` and `refresh`. No token is judged with a stale key:
  unlike `JWKSCache` it refuses when a fetch fails.
- **Shutdown.** `main` and `sig` are the two goroutines' program counters,
  `gate` is `shuttingDown`, `closing` is `http.Server.inShutdown`. Names that
  `Boot` has too carry a prefix (`ShutdownNext`), as `MainProofs` extends both.

Definitions named in comments as `Mutant:` are changed forms of the definition
below them, of the kind a careless edit would produce. Nothing uses them; put in
the place of the definition, each makes the run of some property fail, which
shows that the property can.

## 3. What each run checks

Twelve runs; state counts are distinct states.

| Run | States | Instance and bounds |
|---|---|---|
| `SSEProxySlots` | 398,524 | three requests of one tenant, two routes, of which one has a deadline, limit 2, no body |
| `SSEProxyStream` | 84,678 | two requests, limit 1, two chunks, one route with a deadline, a writer that flushes; liveness |
| `SSEProxyRecorder` (violated) | small | one request through a writer that does not flush |
| `TenantInjector` | 694,459 | three requests, of one principal, of two or with one without claims, a cache of one entry, an allowlist of one tenant in two; one principal's answer changes once, to another tenant or to none; clock to 3, TTL 1, negative TTL 0, timeout 1; liveness |
| `JWKSCache` | 859,964 | three calls, a kid that stays and one that is rotated, TTL 1, timeout 1, clock to 3; liveness |
| `Shutdown` | 2,782 | three requests, two plugins; liveness |
| `ShutdownGraceful` (violated) | small | the same |
| `LicenseCheck` | 710,232 | three requests with one token, two attempts each, clock to 3; liveness |
| `Pipeline` | 313,636 | two requests, ten configurations of six chains, three routes of which two match one path, six tokens, with and without claimed identity headers, three origins, two key ids; liveness |
| `PipelineIds` (violated) | small | the same |
| `TokenValidator` | 137,619 | nine configurations, one of them with an issuer listed twice and two entries of one URL, 108 tokens that differ from a good or a forged one in one respect, two issuers |
| `Boot` | 16,776 | eight route files, plugin files with every pair of ten token-validator blocks, four environments |

- **SSEProxySlots.** `SlotLimit`: however the two additions of `TryAcquire`
  interleave with other requests' additions and releases, no tenant holds more
  slots than the limit. `CountExact`: the counter is the slots held and the
  refusals not yet undone, on every path, so nothing leaks. `GaugeExact`: the
  same of the gauge, with its pruning. `ErrorsExact`: every request is
  streamed or counted by one error, of the kind that its client is told; no
  timeout is counted before a deadline has passed and no disconnect before a
  client has left, although the context's error is read after the failure. `ImplementsPool`: `SSEProxy` implements
  `SlotPool`, which admits below the limit only, and refuses only when those
  inside and those being refused, of the same tenant, fill the pool.
- **SSEProxyStream.** `FlushedWhileWaiting`: while the loop waits, what it
  has read has left. `DeliveredInFull`: a client that stays gets every chunk,
  the one that came with the read's error included. `DisconnectFrees`,
  `TimedRequestEnds`: a disconnect, or a deadline, gives the slot back whatever
  the upstream does.
- **SSEProxyRecorder.** In `main` the SSE handler sits behind the
  dispatcher's `responseRecorder`, which has no `Flush`. There
  `FlushedWhileWaiting` fails: the handler falls back to `io.Copy`, and a chunk
  that was read stays in the server's buffer while the gateway waits.
- **TenantInjector.** `ImplementsRecentAnswers`: a request is served with what
  the directory said of its own principal and the allowlist admits, no longer
  ago than TTL plus timeout, and refused for an absent principal no longer ago
  than negative TTL plus timeout; or it fails, and a failure is never cached.
  `AnswersNeverGoBack`: no request is decided by an answer older than one that
  was given for its principal before it arrived. `CacheCoherent`: list and map
  hold the same keys, each once, at most `max_entries`. `MissIsAnswered`:
  leaders and followers alike get an answer, although the directory may be
  silent.
- **JWKSCache.** `RetiredKeyExpires`: a withdrawn key verifies nothing later
  than TTL plus client timeout after, unless a refresh failed, although an
  older document may be stored after a newer one. `UnknownIsNew`: a published
  kid is refused as unknown only when it is that new, or when the last document
  had no key. `SteadyKeyServed`: a key that every good document holds is
  served once it was cached, until an error document wipes it. `CallReturns`.
- **Shutdown.** `PluginsOutliveRequests`: within the window, no request is
  inside the chain when a plugin's Shutdown has been called, the requests that
  read the gate just before it was set included. `SignalStops`.
- **ShutdownGraceful.** `GracefulExit` fails: `ListenAndServe` returns when
  the listeners close, `main` returns after it, and the process cuts off a
  request that was accepted before, inside the window and with the signal
  goroutine still draining; no plugin was shut down by then either.
- **LicenseCheck.** `ImplementsRecentAnswers`: verdicts are stored in any order,
  and still none that the server gave up longer ago than TTL plus timeout
  decides a request; a failure to reach the server never passes for a verdict,
  not on a later request either. `CheckEnds`.
- **Pipeline.** `UpstreamOnlyAuthorised`: an upstream is asked only for
  requests with a valid token, where the chain asks for one, that the first
  matching route admits by what the token says. `ToldAsAuthorised`: the upstream
  of a standard route hears the roles and the tenant that were checked, not the
  client's. `TenantIsDerived`: behind the tenant-injector, which tenant each of
  the two proxies tells, never the client's. `OriginsAnswered`: with cors first,
  a listed origin may read every answer, refusals included, and no other may; its
  preflight needs no token. `SteadyTokenPasses`: while no fetch failed, auth
  refuses no valid token whose key was published all the time, whatever other
  requests fetch and store between. `AuditMatchesMetrics`: the audit log and
  `/metrics` agree on audited routes, also when the reverse proxy panics, and
  name whom the upstream was told of. `TimedRequestEnds`: a deadline ends a
  request before its header and during its body.
- **PipelineIds.** `IdsKept` fails: see section 6.
- **TokenValidator.** `PassesExactlyValid`: what passes is exactly what a
  declarative definition of a valid token says, in both directions; its key is
  looked for in the cache of the first entry of its issuer, and in no other.
  `ClaimsJudgedAfterSignature`: only genuine tokens learn that they are
  expired, early, of another audience or lack a claim. `TypeOK` has every
  answer's status in 100 .. 599.
- **Boot.** `ChainAsListed`: a gateway that serves has initialised what the
  file lists, in its order, as far as the binary has it. `ConfiguredUsably`: its
  token-validator has a secret or keys to validate with, after any sequence
  of blocks; the environment has changed nothing that the file says and reached
  no block but the first one's (`FileStays`); a zero that the file gives for the
  tenant-injector's cache is not turned into a default (`GivesPositive`); and the
  assumptions that `TenantInjector` and `LicenseCheck` make of their
  configuration are met.

### Why the bounds are enough

- *Requests.* The limiter's races need a holder, a newcomer and a refusal that
  is undone: three. The caches need a slow call whose answer is overtaken, the
  call that overtakes it, and a later reader: three. In `Pipeline` the requests
  meet in the metrics and in auth's keys, where one overtakes the other: two.
- *Chains.* main's own with and without origins, the full one with the
  principal propagated or not, two in a wrong order, the empty one, and the one
  with auth for each of its validators. For the safety properties of section 5
  the chain is any.
- *Clocks.* The age bounds are TTL plus timeout; each horizon lets the clock
  pass the bound by at least one tick, and a mutant shows that an age one
  above it is reached.
- *Versions.* Two versions give an old answer and a new one. An answer is
  stale or not; a third version changes the age and not the comparison.
- *Prompt.* Age bounds are about the time calls take. With `Prompt`, a
  goroutine that waits for nothing takes less than a tick; a process
  that is suspended for an hour can serve an answer an hour older, as in any
  program.
- *Chunks.* The flush loop treats all chunks alike; two give "before" and
  "after", and a last one that comes with an error.
- *Tokens.* Every field has the values on both sides of each comparison
  (`exp` at the skew's edge and one beyond, and so on).
- *End of the clock.* Where the clock cannot advance any more, a pending
  timeout is taken to have passed; otherwise the bound itself would look like
  a call that hangs.

Deadlock is not checked: every model handles finitely many requests and may
then rest.

## 4. Fairness

Liveness is checked under weak fairness of

- steps of a goroutine that waits for nothing: the Go scheduler runs it;
- timers (`WriteTimeout`, the route's deadline, http.Client's timeouts, the
  shutdown window) and the clock;
- the transport's return of the context's error once the context is done, in
  `RoundTrip` and in reads of the body: `net/http` documents it.

Nothing is assumed of upstreams, directories, key endpoints, license servers
or clients, nor that a handler ever returns in `Shutdown`.

## 5. What is proved

| Module | Theorem | Statement |
|---|---|---|
| `SSEProxyProofs` | `TypeCorrect` | `Spec => []TypeOK` |
| | `SlotLimitHolds` | `Spec => []SlotLimit` |
| | `CountExactHolds` | `Spec => []CountExact` |
| | `GaugeExactHolds` | `Spec => []GaugeExact` |
| | `ErrorsExactHolds` | `Spec => []ErrorsExact` |
| | `DeliveredInFullHolds` | `Spec => []DeliveredInFull` |
| | `FlushedWhileWaitingHolds` | with `Flushable`, `Spec => []FlushedWhileWaiting` |
| | `LimiterImplementsPool` | `Spec => ImplementsPool` |
| `PipelineProofs` | `TypeCorrect` | `Spec => []TypeOK` |
| | `AuthorisedHolds` | `Spec => []UpstreamOnlyAuthorised` |
| | `ToldHolds` | `Spec => []ToldAsAuthorised` |
| | `TenantIsDerivedHolds` | `Spec => []TenantIsDerived` |
| | `OriginsHold` | `Spec => []OriginsAnswered` |
| | `SteadyTokenPassesHolds` | `Spec => []SteadyTokenPasses` |
| | `AuditMatchesMetricsHolds` | `Spec => []AuditMatchesMetrics` |
| `JWKSCacheProofs` | `TypeCorrect` | `Spec => []TypeOK` |
| | `SteadyKeyServedHolds` | `Spec => SteadyKeyServed` |
| | `RetiredKeyExpiresHolds` | with `Prompt`, `Spec => RetiredKeyExpires` |
| | `UnknownIsNewHolds` | with `Prompt`, `Spec => UnknownIsNew` |
| `TenantInjectorProofs` | `TypeCorrect` | `Spec => []TypeOK` |
| | `CacheCoherentHolds` | `Spec => []CacheCoherent` |
| | `AnswersNeverGoBackHolds` | `Spec => []AnswersNeverGoBack` |
| | `ImplementsRecentAnswersHolds` | with `Prompt`, `Spec => ImplementsRecentAnswers` |
| `LicenseCheckProofs` | `TypeCorrect` | `Spec => []TypeOK` |
| | `CacheStaysCoherent` | `Spec => []Coherent(cache, MaxSize)` |
| | `ImplementsRecentAnswersHolds` | with `Prompt`, `Spec => ImplementsRecentAnswers` |
| `TokenValidatorProofs` | `TypeCorrect` | with `StatusesGiven`, `Spec => []TypeOK` |
| | `PassesExactlyValidHolds` | `Spec => []PassesExactlyValid` |
| | `ClaimsJudgedHolds` | `Spec => []ClaimsJudgedAfterSignature` |
| `MainProofs` | `BootTypeCorrect` | `Spec => []TypeOK` |
| | `ChainAsListedHolds` | `Spec => []ChainAsListed` |
| | `ConfiguredUsablyHolds` | `Spec => []ConfiguredUsably` |
| | `FloorAsConfiguredHolds` | `Spec => []FloorAsConfigured` |
| | `ShutdownTypeCorrect` | `ShutdownSpec => []ShutdownTypeOK` |
| | `PluginsOutliveHolds` | `ShutdownSpec => []PluginsOutliveRequests` |

The assumptions are the named `ASSUME`s of each module, and the runs evaluate
all of them. Three hypotheses stand in theorems themselves:

- `Prompt`: a goroutine that waits for nothing takes less than a tick of the
  clock. The runs have it too, and only bounds on an answer's age need it: no
  program can bound the age of an answer that it has in hand when it is
  suspended. What is proved of types, of the cache's shape, of the order of
  answers and of steady keys holds without it.
- `Flushable`: the writer can flush. In `main` it cannot, as the run
  `SSEProxyRecorder` shows; the theorem says that the loop itself is right.
- `StatusesGiven`: `on_failure` gives statuses in 100 .. 599. `Init` takes any
  number, and `net/http` panics on others.

### The SSE proxy

For every finite set of requests, all tenants, routes, limits (those
`NewLimiter` replaces included), chunk bounds and writers: `Request` is finite,
`TenantOf` and `RouteOf` are functions, `MaxPerTenant` is an integer, and so on.

*The counters.* The inductive invariant is
`IInv == TypeOK /\ SlotLimit /\ CountExact /\ GaugeExact`. `SlotLimit` is not
inductive alone: that an admitted request finds a free slot follows from the
counter, so the counter must be known to be at least the number of holders, and
that is `CountExact`. Conversely `TypeOK` needs `CountExact` and `GaugeExact`:
that a decrement stays in `Nat` holds because the request that decrements is
itself counted. Each step moves one goroutine from one control point to
another, so `MoveCardinality` says once how the size of a class of goroutines
changes (one more, one less, the same) and each action cites it through
`StepCardinalities`. Steps that stay within a class are handled together by
`NeutralMove`.

*The bytes.* `Progress(r)` says, for each control point, how the chunks read,
written and sent compare while the client can be reached: at the top of the loop
all that was read is written, and sent too if the handler flushes; nothing is
claimed between a read and its write. `DeliveredInFull` and
`FlushedWhileWaiting` are its cases for "done" and for "reading".
`OwnProgress` is about the request that steps, `OthersProgress` about the rest.

*The errors.* `Outcome` puts a request among the failed once it has left the
handler without a stream. Every step either leaves all outcomes and the
counters alone (`QuietStep`), or moves one request and counts one error of its
key (`FailingStep`). What a client is told can only get lost afterwards, so the
requests told of a kind only become fewer; a context that is over stays as it
is, so those that bear out a timeout or a disconnect only become more.

*The refinement.* `PoolPlace` maps control points to the pool's four places.
`TryAcquire` becomes `Admit` or `TurnAway`: the sum it compares is one more
than `Cardinality(Holding) + Cardinality(Undoing)`, by `CountExact`, which is
both of the pool's guards. `Undo` is `Forget`, `Release` is `Leave`, all others
stutter. Since the pool's guards speak of one tenant only, the theorem also
says that one tenant never costs another a slot.

### The pipeline

For any routes, tokens, arrivals, directory and any finite set of requests, and
any chain of the four plugins in any order, with repetitions, or the chain of
the two middlewares. The assumptions say just that: `RoutesAssumption` (a
sequence), `ChainAssumption`, `ArrivalsAssumption` (every request has the five
identity headers, perhaps empty), `ConfigAssumption`, `SteadyAssumption`, and
`NoneAssumption` (no plugin is called `None`).

*Who reaches an upstream.* The two properties relate what the upstream got to
the request as it arrived, and are not inductive: between the two lie the hops.
`Known` says what the context holds after each hop: in a chain of plugins,
nothing until the token-validator was passed and the token's roles and tenant
from then on, which its repetition does not change; in the other, nothing until
"context", and then auth's claims and the client's tenant. `Passed` concludes
that behind the last hop the context holds what the chain as a whole
establishes, whatever chain it was. There the dispatcher's two checks are about
it, the matched route is the first match (`FirstMatch`, from the least number
of a set), and `ProxyKeeps` puts the three together. Afterwards nothing can
disturb it: `Cleared` speaks of the arrival, the route and what was told, and
`Later` handles every step that asks no upstream at once.

*Which tenant, and who may read.* `HInv` strengthens that invariant.
`TenantInv`: claims are those of a validated token, and once the injector was
passed the header is the directory's tenant for them, unless the request was
answered (a second injector may have refused it, and then its header is gone).
`Marked`: with cors first, whoever is past the first hop is marked or of an
origin that is not listed, and is no preflight; whoever is not was answered by
cors.

*Auth's keys.* A call reads the cache again after it has stored its document,
and another call may have stored an older one in between, so `SteadyTokenPasses`
needs to know all the documents on their way: `Unspoiled` says that each of
them, and the cache that a stored call will read, has the steady keys. A failed
fetch ends that for good, which is the variable `spoiled`.

*Audit and metrics.* The log is a set of events per request, the metrics a
counter per route and status. `Audited` says that a request is audited once, at
its end and as it is then, so `Balanced` can say what the counters are in terms
of requests: those between `Record` and `Audit`, and those that have their
event. A panic leaves counter and log alone alike. That the event names
whom the upstream was told of follows from the context, which nothing changes
behind the chain.

### The JWKS cache

For any calls, keys, ttl, client timeout and clock. Documents are stored in any
order, so nothing can be said of a document by the moment when it is stored.
`DocTruthful` goes by the moment when its fetch began: it lacks only keys
published since, and holds only keys not withdrawn before. In running code the
fetch is within the client's timeout when the document is stored (`OnTime`), so
the same holds of the keys by `fetchAt` less that timeout (`KeysRecent`), and
the ttl bounds `fetchAt` when a key is served. `SteadyKeyServed` needs neither
clock nor `Prompt`: a document that is not empty has all the steady keys
(`SteadyKept`).

### The two caches

*The cache itself.* `LRUCacheProofs` proves once what both plugins need of
their copies of it: the list has the map's keys, each once, and at most
`max` of them; a hit keeps every entry; a miss takes away its own, when
expired; a new entry takes at most the last one away, and only when it must. It
rests on lemmas about sequences of different elements when one is taken out or
put in front. `CacheStaysCoherent` is no property of a run: `LicenseCheck`'s
`TypeOK` says less.

*License-check.* There is no singleflight, so answers cross. The invariant
never compares two of them: the verdict on its way was the server's since the
attempt began (`HeardRecent`), the attempt is within the timeout (`OnTime`), and
so each entry was the server's verdict no longer than that before it was stored
(`EntriesRecent`). A step that ends a request is then the abstract
specification's `Decide`, the server's and the clock's steps are its `Change`
and `Tick`, and all others stutter.

*Tenant-injector.* The same for its lookups (`FlightTrue`, `EntriesRecent`), for
any allowlist. The order of answers needs more: `Ordered` says that neither the
lookup in progress nor the cache's entry of a principal is older than an answer
already given about it, and that the entry is no newer than the lookup. It is
inductive because there is one lookup of a principal at a time. `Floors` ties
what a waiting request must be given to an answer of another request, so that
`AnswersNeverGoBack` survives eviction. When a lookup ends, its leader and all
followers end in one step, which is several decisions of the abstract cache at
once; `RecentAnswers` allows that.

### The token-validator

For any set of configurations whose blocks `Init` takes, any tokens, endpoints
and key sets that change, and any `Now`. `First` returns the least index of a
failing check; that is proved of its definition for lists of the lengths
used. So each list of checks asks what a formula without order says
(`ScreeningMeans`, `ParsingMeans`, `VerifyMeans`), and the three formulas
together with the signature are `Admissible`, which is defined without regard
to the code's order (`AdmissibleMeans`). Between screening and verdict stands
the lookup, in which keys may be fetched, kept although stale, or missing.
`FindsTheFirstOwn` and `OwnKeyDecides` say that the key found is the token's
exactly if the keys then in the cache of the first entry of the token's issuer
sign it, and the invariant `TInv` carries that from the lookup to the verdict.
The caches are the entries' own (`KeysPerEntry`), whichever URLs are the same. A
token's claims are judged behind the signature, from which
`ClaimsJudgedAfterSignature` follows for every configuration, v1 and test mode
included.

### The boot

For any route files, any environment, any subset of the four plugins in the
binary, and plugin files of any length with any blocks. `FilesAssumption` says
of these that they are lists of a name and a block, and that an accessor's value
has the accessor's type (`WellTyped`); any other value is `Mistyped`, which the
accessors take for absent.

The token-validator's `Init` writes over the fields that an earlier `Init` of
the same singleton has left and resets none of them, so `ConfiguredUsably` is
not a fact about the last block: after an HS256 block and a JWKS block the
validator is still in test mode. `Sound` says what the next `Init` may rely on
(in test mode there is a secret), and `TVInitLeaves` that one which does not
fail, of either form and whatever was there before, leaves a sound validator
with something to validate with (`Equipped`). The invariant `BootInv` has, for
every entry in front of the loop's index whose plugin the binary has, that what
its `Init` left is usable and its block not off, and that no later `Init` of
another plugin or of the same one spoils it (`InitialisedSoFar`). The
environment is merged into one entry before the loop: `MergedKeeps` says that it
touches no key but its two, `FirstTVIsLeast` which entry that is, and
`FilesStayRead` concludes `FileStays` from both. The chain is `ordered`: exactly those entries, in
strictly increasing order, from which `ChainAsListed` follows.

`FloorAsConfigured` ties the boot to `TokenValidator`. If the file has one block
for the token-validator (`OneBlock`), the validator of a gateway that serves is
what the `Init` of a fresh instance makes of that block with the environment
merged in, and such an `Init` takes it (`InitTakes`): the initial state of
`TokenValidator`, and all that its `ConfigsAssumption` asks. `FloorInv` is the
induction: the instance is fresh as long as no entry for it lies behind the
loop's index, and no other plugin's `Init` writes to it. `OneBlock` is needed,
as TLC shows on the files of `MCBoot`: after two blocks the fields are a
mixture of both, and `TokenValidator` says nothing of such an instance. That the
two caches have a size, a lifetime and a client timeout greater than zero, which
is what `TenantInjector` and `LicenseCheck` assume, is `CachesCanServe`, part of
`ConfiguredUsably`. `FloorAsConfigured` is no property of a run.

### The shutdown

For any set of requests and any number of plugins (`PluginsAssumption`).
`PluginsOutliveRequests` follows from the order of three flags, which is the
inductive part: listeners are closed before the drain begins; a drain has ended
because the window passed or nobody was busy, and with the listeners closed
nobody becomes busy; plugins are shut down after the drain only. A request that
read the gate before it was set is busy, which is why the gate itself is not
part of the argument.

### What stays with TLC

Liveness and ENABLED: `DisconnectFrees`, `TimedRequestEnds`, `MissIsAnswered`,
`CallReturns`, `CheckEnds`, `SignalStops`. No installed prover reaches them. All
other properties of the passing runs have a theorem. The disagreements of
section 6 are counterexamples, which TLC finds.

## 6. Where the code and its documentation part

Three of these are runs of the project:

- `SSEProxyRecorder`: `internal/llm/sse.go:127-128` promises a flush after
  every read; `internal/proxy/dispatcher.go:151` wraps the writer so that it
  cannot.
- `ShutdownGraceful`: `internal/config/config.go:36-37` promises drain and
  plugin shutdown before exit; `cmd/gateway/main.go:149-153` returns without
  waiting for them.
- `PipelineIds`: `internal/tenant/tenant.go:98` says that headers are added only
  from context values that are not empty; lines 110-111 set the two ids always.
  `main`'s chain has no `ContextMiddleware`, so a client's correlation id
  becomes an empty header on standard routes. SSE routes keep it.

The others were met while translating. The modules do what the code does, and
the properties are stated so that they hold of it:

- `limiter.go:43` "undo; counter stays at the limit": with a release in
  between, the undo leaves the counter below it. The limit itself holds.
- `metrics.go:70` counts "context.Canceled in SSE read loop": the loop looks
  at no error, so a disconnect is counted during `RoundTrip` only.
- `routes.go:57` promises a 500 `EXECUTION_TIMEOUT`; on SSE routes the
  deadline comes after `WriteTimeout`, when nothing can be written any more.
- `tenantinjector/plugin.go:359-360` "only one outbound HTTP call per
  principal": a request that missed before an answer was stored, and reaches
  the singleflight group after that flight has ended, starts a second call.
- `jwks.go:9-10` "previously-good keys are served": an error answer with a
  JSON object decodes to a document without keys and wipes the good ones
  (`jwks.go:226`).
- `audit.go:4` "per-request" events: a response body that breaks off panics
  through `observeHandler` (`dispatcher.go:181`), and the request leaves
  neither event nor metric.
- `metrics.go:86` requests "by route and HTTP status": the recorder keeps the
  first status, which may be an upstream's 1xx (`dispatcher.go:158`).
- `tenantinjector/plugin.go:115` "lookup.timeout_ms > 0": zero or less becomes
  500 (`plugin.go:156`).
- `tokenvalidator/plugin.go:367` skew "must be 0..600": an explicit 0 becomes
  60 (`plugin.go:363`).
- `tokenvalidator/plugin.go:25` skew applied to "exp / nbf / iat": `iat` is
  never checked (`jwks.go:142`).
- `tokenvalidator/plugin.go:33-34` the shim "preserves v1 status-code
  defaults": a missing token is 401 in v1 and 403 in the shim.
- `plugin.go:32` "Init is called once": a plugin that is listed twice is
  initialised twice and wraps the chain twice (`loader.go:83`).
- `loader.go:124-125` token-validator "must run on every proxied request": a
  file that does not list it boots (`loader.go:197`).
- `tenant.go:72-74` `EnforceTenant` rejects when "X-Tenant-ID was not supplied
  by the caller": it reads the context, where the token-validator puts the
  token's `tenant_id`; a header, sent by a client or set by the
  tenant-injector, does not satisfy it.
- `sse.go:53-54` the SSE upstream gets the header "set by the tenant-injector";
  a standard upstream gets the token's tenant instead, if the token has one
  (`tenant.go:101`). The SSE limiter counts by the token's tenant (`proxy.go:43`).
- `dispatcher.go:275-276` "injects tenant/actor/correlation headers": SSE routes
  tell no subject and no roles but the client's own headers; so does a standard
  route for a token without them (`tenant.go:104-109`).
- `dispatcher.go:149-150` the recorder captures "the first status code written":
  of a client that leaves while an SSE upstream is dialed nothing is written,
  and the request counts as a 200 (`dispatcher.go:178`).
- `routes.go:60-61` `enabled: false` per route: `ChainFor` honours it and
  `main.go:103` composes `Chain`, which does not.

## 7. Plan

In the order of importance; all are done.

1. The core: `SSEProxy` with `SlotPool`, its runs, its theorems.
2. The caches: `TenantInjector`, `JWKSCache`, `LicenseCheck` on `LRUCache`.
3. The frame: `Dispatcher`, `Shutdown`.
4. Configuration: `PluginConfig`, `TokenValidator`, `Boot`.
5. `Pipeline` with `Dispatcher` and `Auth`: the composition of one request's way.
6. `RecentAnswers`: the abstract specification that both `TenantInjector` and
   `LicenseCheck` implement.
7. Proofs of `Shutdown`'s and `Pipeline`'s safety.
8. Proofs of the caches and of the refinement of `RecentAnswers`, of
   `JWKSCache`, of `TokenValidator`, and of auth's keys, the audit and the
   bytes of a stream.
9. Proofs of `Boot`, for any plugin blocks: what `Init` leaves, as lemmas.
10. Proof that what `Boot` leaves behind is what `TokenValidator`,
    `TenantInjector` and `LicenseCheck` start from.

## 8. What is not modelled

- `NewProxy` with a nil limiter or nil metrics: `main` passes both. The error
  branch of `NewRequest` in `sse.go`: its URL was parsed before.
- The `prompt-sanitize` and `otel-audit` plugins: stubs that the binary does
  not import. The tenant-injector and license-check plugins, the `auth` package
  and `ContextMiddleware` are modelled although no binary imports them.
- The ids that `ContextMiddleware` echoes on the response; the values of the
  other CORS headers; `EqualFold` of methods: a method is a model value.
- A tenant-injector whose `tenant_header` is not `X-Tenant-ID`: the upstream
  then has two headers and nothing in the gateway compares them.
- Probes, the Prometheus text, latency histograms, logging, error bodies:
  output only.
- YAML decoding, reading files and integers from the environment. Status codes
  in `on_failure` outside 100 .. 599, which `Init` takes and `net/http`
  panics on. Cryptography: a key signs or does not. The principal's header and
  extra headers of the lookup: nothing depends on them.
- `jwks_cache_ttl_seconds` of zero or less: it makes every request fetch,
  which is load and not behaviour.
