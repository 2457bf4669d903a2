# Goichi in TLA+

Goichi is a Go framework that serves several protocols from one application:
HTTP, WebSocket, gRPC, GraphQL, MQTT, MCP and Connect, with an HTTP reverse
proxy and a layer-4 TCP proxy beside them. This directory holds TLA+ modules
that are translated from its source, TLC configurations that check them on small
instances, and TLAPS proofs for the parts whose properties should hold for every
configuration. The source has no tests, so what the code promises is taken from
its comments, `README.md` and `PROTOCOL_GUIDE.md`; the lines are quoted at
the properties.

Paths below are relative to the repository.

## 1. The system and its parts

| Part | Source | State it keeps | Operations |
|---|---|---|---|
| Application life cycle | `app.go`, `validation.go` | registry, JWT secret, hooks, main server, cmux | `SetJWTAuth`, `RegisterProtocol`, `OnShutdown`, `Listen`, `ListenGraceful` |
| Multiprocess supervisor | `app.go`, `app_unix.go` | map of children | `superviseChildren`, `startMonitor` |
| Protocol registry | `protocol.go`, `protocol/base.go` | handlers by name | `StartAllProtocols`, `StopAll`, `SetUnifiedAuth` |
| Router, groups, radix tree | `router.go`, `group.go`, `route.go`, `node.go` | declared entries, global and auth middleware; one tree per method after the build | `Add`/`GET`/..., `Use`, `Group`, `Static`, `NoAuth`, `Build`, `HandleRequest` |
| Health checker | `proxy/health.go` | `Target.healthy`, `Target.fails`, the loop and its probes | `start`, `stop`, `probeAll`, `record` |
| Balancer, HTTP reverse proxy | `proxy/balancer.go`, `proxy/proxy.go`, `proxy/websocket.go` | round-robin counter, `Target.active`; per request its attempts | `Pick`, `Do`, `pick`, `doUpgrade` |
| TCP proxy | `proxy/tcp.go` | running flag, listener, `WaitGroup`, counters | `Start`, `Stop`, `SetListener`, `acceptLoop`, `handle`, `relay`, `copy` |
| WebSocket server | `protocol/websocket/server.go` | map of connections, running flag, `done` | `Start`, `Stop`, `handleRequest`, `Broadcast`, `SendToClient` |
| MQTT broker | `protocol/mqtt/broker.go` | library server, subscriptions, `subSeq`, secret | `Start`, `Stop`, `Subscribe`, `Unsubscribe`, the auth hook, `injectedListener` |
| MCP server | `protocol/mcp` | tools, sessions by remote address, listener, `done` | `RegisterTool`, `Start`, `Stop`, `handleConnection`, `limitedReader` |
| gRPC, Connect, GraphQL | `protocol/grpc`, `protocol/graphql` | the library's server, a running flag, secret | `Start`, `Stop`, `SetListener`, the auth check |
| Middleware with state | `middleware/ratelimit.go`, `cache.go`, `timeout.go`, with `recover.go` and `security_headers.go` around them | visitors, cached responses, a goroutine per timed request | one call per request, the cleaners |
| Everything else | context, binding, validation, OpenAPI, JWT, utilities | none beyond one request | |

How they interact. `RegisterProtocol` puts a handler in the registry, gives it
the JWT secret if there is one and, under port multiplexing, mounts its HTTP
handler on the router. `Listen` binds the port, spawns a goroutine that starts
the registered protocols one after the other, serves HTTP and waits for a signal;
then it stops the protocols, shuts the server down and runs the hooks. The
starting goroutine is never waited for. The TCP proxy is one such protocol: its
`Start` starts the health checker's loop and an accept loop; each accepted
connection runs in a goroutine that picks a target through the balancer, dials
it, marks it down if the dial fails, and relays in two further goroutines. The
reverse proxy uses the same balancer and checker, per request. The other
protocols sit behind the same interface: `Start` binds or takes an injected
listener and spawns a goroutine that serves, `Stop` holds the server's lock while
it shuts down, and each request reads the JWT secret. Every HTTP request passes
the chain of middleware, some of which keeps state between requests.

What is hard here: goroutines that nobody waits for; state that two goroutines
share through separate atomics (`healthy`, `fails`, `active`); checks whose
result is used after the lock is released (the connection limits); `Start` and
`Stop` that overlap; a `WaitGroup` shared by several starts; teardown that must
end whatever the peers do; walks that one failing element cuts short; locks held
while waiting; handlers that outlive the request they answer; and a
tree whose shape depends on the order of its insertions.
`PROJECT.json` lists these hazards with the line where each one bites.

## 2. Modules

| Module | Models | One step is |
|---|---|---|
| `HealthChecker` | `proxy/health.go` and the failed dial of `tcp.go` | one atomic access of a probe, one event of the loop |
| `TCPProxy` | `Start`, `Stop`, `SetListener`, `acceptLoop`, `handle` | one critical section, or one step outside a lock |
| `TCPRelay` | `relay`, `copy`, hooks, deadlines, the watcher, `closeWrite` | one I/O call or hook |
| `ReverseProxy` (`MCReverseProxy`) | `Balancer.Pick`, `Do`, `pick`, `doUpgrade` | one load of a target's health, one choice, one outcome |
| `App` | set-up, `Listen`, `StartAllProtocols`, `StopAll`, shutdown | one call made by `Listen` or by the starting goroutine |
| `Supervisor` | `superviseChildren`, `startMonitor` | one spawn, wait or exit |
| `ListenGraceful` | composes `App` (a child, or a single process) with `Supervisor` (the master) | a step of the role the process has |
| `Patterns` | what router and tree share: patterns, handlers, precedence | |
| `RadixTree` | `node.go`: `insert`, `search` and their helpers | a function |
| `Router` (`MCRouter`) | declarations, groups, `Build`, `HandleRequest`; the operations of the tree are constants, which `MCRouter` takes from `RadixTree` | one declaration; the request is a function of the trees |
| `WebSocketServer` | `Start`, `Stop`, the handshake, connections, `Broadcast` | one critical section or blocking call |
| `ProtocolServer` | gRPC, Connect, GraphQL: `Start`, `Serve`, `Stop`, the auth check | one critical section or library call |
| `MQTTBroker` | the broker's `Start`, `Stop`, auth hook and both kinds of listener | one critical section or library call |
| `MQTTSubscriptions` | `Subscribe` and `Unsubscribe` of one filter | the critical section, each library call after it |
| `MCPServer` | `Start`, `Stop`, the accept loop, sessions, tool calls | one critical section, one unlocked write |
| `MCPReader` | `limitedReader` under the JSON decoder | one `Read`, one request decoded or refused |
| `Service` | abstract: what `App` expects of a protocol | `Start`, `Serve`, `Stop` begin and end |
| `Protocols` | composes the six server modules and maps them to `Service` | a step of the server that `kind` names |
| `RateLimit` | `RateLimit` with two limiters on one map and their cleaners | one map operation or critical section |
| `Chain` | `Recover`, `SecurityHeaders`, `Cache`, `Timeout` around a handler | one event of a request, of `Timeout`'s goroutine or of a timer |
| `Middleware` (`MCMiddleware`) | composes `RateLimit` and `Chain` | a step of the one `part` names |
| `HealthCheckerProofs`, `TCPProxyProofs`, `TCPRelayProofs`, `ReverseProxyProofs`, `ListenGracefulProofs`, `MiddlewareProofs`, `RouterProofs` | proofs about the module each is named after | |
| `ProtocolsProofs` | proofs about the invariants of `Protocols`, server by server, and that it implements `Service` | |

Definitions keep the names of the source. The variables are commented with the
field they stand for, ghost variables are marked as such. An early return that
changes nothing is not an action. A definition whose comment begins with
"Mutant of" is not part of any specification: it is a plausible fault that a
property was seen to detect.

Abstractions.

* A probe or a dial is a Boolean that may lag behind the state of the target.
  HTTP status codes, payloads and headers are left out.
* In `TCPRelay` a chunk is a number; it is written whole or not at all.
* In `ReverseProxy` the FNV hash is a constant function of the client, and the
  64-bit counter wraps at `CounterMod`. The run takes 4 for a pool of three: like
  2^64, it leaves a remainder of one, so that the jump at the wrap is in the model.
* In `RadixTree` a path is a sequence of characters, with a parameter or
  catch-all token as one element.
* fasthttp, cmux and the kernel are external: `Shutdown` closes the listener and
  waits for open requests, a hijacked connection is no longer one of them; a pid
  is free again once its process has been waited for.
* In `App` a protocol is its running flag; whether its `Start` and `Stop` fail is
  a choice, and the `Stop` of a protocol in `Unbounded` may not return. What a
  protocol does between the two is in its own module; `Service` is the interface.
* grpc-go, net/http, fasthttp, mochi-mqtt and goccy/go-json are external: stopping
  closes the served listener and waits for the requests (the broker: for the clients
  it has attached); all but fasthttp refuse to serve after a stop that came first.
  The broker refuses a topic filter that is not valid.
* A token or a password is valid or not. A tool call, a query or a payload is a
  handler that returns or, where nothing bounds it, need not.
* `RateLimit` follows one address and `Chain` one cache key; addresses and keys
  share nothing. Times in `RateLimit` are relative, so its clock has no bound. A
  body in `Chain` is the request that made it and the time it was made.
* In `TCPProxy` and `WebSocketServer` connections are numbered as they arrive. The
  statistic `total` of the proxy and the ping goroutines of WebSocket connections are
  left out: no other step reads what they write.
* In `MCPReader` a request is its length; `MaxSize` is more than twice the limit.

Several components that share no state are one run each through a module that
composes them: `Protocols`, `Middleware` and `ListenGraceful`. A behaviour there is
one of a single part, which never changes, and the other variables stay as they
are.

### `Service` and the servers

`Service` is the contract behind `ProtocolHandler` (`protocol/base.go`): a server
serves only from some point of its `Start` until its `Stop`, `Stop` works on a
running server only, and a `Stop` that drains returns without an error only once
no request is left. The servers do not have everything in common, and the mapping
in `Protocols` says what each one has:

| | refuses to serve after a `Stop` that came before `Serve` (`careful`) | waits for requests (`drains`) | for no longer than its context (`bounded`) |
|---|---|---|---|
| gRPC | yes | yes | no |
| Connect | yes | yes | yes |
| GraphQL | no | yes | no |
| WebSocket | no | yes | no |
| MQTT | yes | no | no |
| MCP | no, for a `Stop` between its two unlocked writes | no | no |

A "no" in the first column is a server that can serve after its `Stop` has
returned. Even a careful server serves if another `Start` has replaced the stopped
object by the time the goroutine of the first one runs.

## 3. Runs

Twelve runs: eight that hold and four that exhibit a disagreement between the
code and what is said of it.

**`health`** - `HealthChecker`, two targets probed in parallel, one connection
that dials, `SuccessThreshold` 2 and `FailThreshold` 0, which the code replaces
by 3: both thresholds are above one, so that a result can be miscounted, and a
default is exercised. `fails` counts failures of a healthy target and successes
of an unhealthy one, and a failed dial switches its meaning at any moment. Shown:
a target that probes removed returns only after enough successes in a row
(`RestoredAfterSuccesses`), leaves only after enough failures or a failed dial
(`RemovedAfterFailures`), and does so by the end of the probe that completes the
run (`RotationFollowsProbes`); a stopped checker has no goroutine left
(`StoppedIsQuiet`); `stop` returns; and a target that stays up (down) is
eventually in (out of) rotation for good.

**`tcp_proxy`** - `TCPProxy`, three connections, a limit of one, two generations of
`Start`/`Stop` that may overlap, an injected listener or an own one. Two
generations are what it takes for an old accept loop to meet a new one; three
connections are one more than their limits allow together. Shown: the three counters are exact on every path out of `handle` (`CountersExact`); the
limit is exceeded by at most one connection per extra generation (`CapHolds`); at
rest the checker runs exactly while the proxy does and a stopped proxy holds no
port, unless `Start` and `Stop` overlapped or a listener was once injected
(`RestMatchesState`); what is still being handled when `Stop` has returned is
cancelled (`StragglersCancelled`); a cancelled connection ends at whatever step it
is (`CancelledConnsEnd`); `Stop` returns without its context, unless a later
generation has begun (`StopReturns`).

**`tcp_relay`** - `TCPRelay`, two chunks up and one down, every combination of
idle time-out, half-closable transports, hook verdicts, resets and cancellation.
Shown: what arrives is what the hook let through, in order, the reported count is
right and end of stream comes after all bytes (`StreamFaithful`); the end of one
direction does not cut the other where the transport can half-close
(`HalfCloseKeepsOther`); cancellation and idleness end the connection
(`RelayEnds`); a source's end of stream reaches the destination, or the destination is
closed, or it has stopped reading and holds a `Write` for ever, which nothing bounds
without an idle time-out (`EofReachesDestination`).

**`reverse_proxy`** - `ReverseProxy`, three targets, one request with two retries
interleaved with an upgraded connection and two health changes, under the four
algorithms and an unknown one, from any value of the counter. Shown: `Target.active`
is exact (`ActiveExact`); no target is tried twice and no more than `MaxRetries`
others (`OncePerTarget`); round robin gives up only when no healthy target is left,
also across the wrap (`RoundRobinExhausts`, for picks that nobody disturbs and pools
that satisfy `EvenPool`). Two retries over three targets let every target be tried.
The wrap is harmless for a pool of three because 2^64 mod 3 is one, which the extra
turn of `pick` makes up for; in a pool of six, where the remainder is four, the one
request that meets the wrap can give up with two targets untried. `EvenPool` states
this, and that the weights are one: a target of weight two takes two turns in a row,
so that the turns of `pick` no longer reach every target.

**`app`** - `ListenGraceful`, four protocols (one mountable, two that take a cmux
listener, and one with neither) and, as master, three children over five pids with
five exits, so that every child can exit, one twice, and pids are reused. The `Stop`
of gRPC, MQTT and WebSocket may not return (see `StopReturns` of `protocols`). Shown: whatever the order of
`SetJWTAuth` and `RegisterProtocol`, no protocol runs without the secret
(`AuthEverywhere`); a protocol is served in one place (`ServedOnce`); hooks run at
most once, last, and with the server closed unless `Shutdown` came before `Serve`
(`HooksAfterClose`); a protocol that is up after `Listen` returned was
late or follows a failed `Stop` (`LeftoverExplained`); a signal ends `Listen`,
unless the `Stop` of a protocol that heeds no deadline holds it
(`ShutdownCompletes`); the master brings the pool back to its size (`PoolKept`).

**`router`** - `Router`, every sequence of up to four calls (`MaxCalls`), at most
three of them routes out of eleven declarations (`MaxRoutes`), the others global
middleware, auth and `NoAuth`, with the build anywhere in between; twelve request
paths and four methods. Three declarations are the fewest with which one insertion
splits a node that already has a child. Shown: the trees agree with a reference
read off the declarations (`TreeMatchesDeclarations`): literal before parameter
before catch-all at the first difference, with back-tracking, the last of two equal
declarations winning; the answers for HEAD, OPTIONS, 405 and 404 are right
(`AnswersRight`); the middleware chain does not depend on the order of
the declarations made before the build, auth is skipped by `NoAuth` routes only, static
files of a group run through none of the group's middleware, and what is declared
after the build reaches no request (`ChainComplete`).
The reference works on patterns and bindings and knows nothing of trees; the
full path and the chain that a declaration should have are written out in
`MCRouter`.

**`protocols`** - `Protocols`, one behaviour per kind of server: two requests, two
calls of `Start` and a `Stop` at any moment for gRPC, Connect and GraphQL; three
connections and a limit of one for WebSocket, so that two handshakes that race leave
one that must still be refused; two clients for MQTT and MCP, where
two addresses let a new connection take an address over; three callers and five
calls on one MQTT filter, which the library takes or refuses; requests of up to seven bytes, three per connection, with
a limit of three for the MCP reader. Two of everything is what it takes for one
actor to meet the other's clean-up; a third caller can subscribe again while an
`Unsubscribe` is crossing a `Subscribe`. Shown: every server implements `Service`
(`ServiceImplemented`); a `Stop` that has been called returns, unless one of these
lasts for ever (`StopReturns`): a handler (gRPC, GraphQL), a request or a client in
authentication, which needs the lock `Stop` holds while it waits for it (GraphQL,
WebSocket, MQTT), a `Broadcast`, whose writes have no deadline and which holds the lock
`Stop` needs (WebSocket), or a client that was admitted behind the walk that
disconnects the sessions (MQTT); `Stop` of Connect and MCP always returns. A client
that is served after `Stop` had been accepted but not attached when it began (MQTT),
registered its session late, or lost its entry to the clean-up of the connection that
had its address before (MCP) (`LeftoversExplained`); a client that leaves is noticed (`GoneNoticed`); an MQTT
client is answered, on an injected listener once the one before it has left
(`ConnectAnswered`); handlers and entries of a filter agree except after crossed
calls, and after a `Subscribe` that the library refused (`HandlersMatchSubs`); the MCP limit lets nothing of twice its value through
and refuses nothing within it (`SizeBounded`); the WebSocket limit is overshot by no
more than the handshakes that raced (`CapWithinPeak`), and its map never holds a
closed connection (`RegisteredIsOpen`).

**`middleware`** - `Middleware`. `RateLimit` with three goroutines and two limiters of
one limit and different windows (`AllowanceCorrect` proves the bound for any limits),
one visitor removed while in use (with two goroutines
a tighter bound, one limit per such visitor, would seem to hold); `Chain` with three
requests on two reused contexts, with and without `Timeout`, a TTL and a time-out of
one tick and a clock of three, so that an answer can be stored late, expire and be
replaced. Shown: within the shortest window a limiter lets at most twice its limit
through, and twice its limit more for every visitor a cleaner threw away in use
(`AllowanceBounded`); an answer belongs to its request or to a request for the same
key (`AnswersIsolated`): what a timed-out handler still writes reaches nobody; a
cached answer is at most TTL and the time-out old, also when a slow handler stores
over a newer answer (`StalenessBounded`).

### Where the code and its comments disagree

| Run | Property | What the code does |
|---|---|---|
| `health_off` | `StaysInRotation` | `tcp.go:339` marks a target down with checking disabled and nothing restores it; `health.go:19-20` says "Without it every target stays in rotation" |
| `least_conn_retry` | `GivesUpOnlyWhenExhausted` | under LeastConn `pick` (`proxy.go:241`) is handed the failed target on every turn and gives up; `proxy.go:51-52` says "MaxRetries is how many other targets are tried" |
| `panic_escapes` | `PanicContained` | `Timeout` calls the handler in a goroutine of its own (`timeout.go:35`), beyond every `recover`; `CHANGELOG.md:123-127` says "A panic in any handler no longer terminates the process." |
| `headers_lost` | `HeadersSent` | `CopyTo` replaces the response, headers included (`timeout.go:42`); `README.md:30` says that "panic recovery and security headers are installed for you" |

Met while modelling, without a run of their own:

* An error of a TCP hook ends one direction with a half-close; the comment
  (`tcp.go:79-81`) says that it closes the connection. The idle time-out is per
  direction, so a quiet direction ends beside a busy one (`tcp.go:63-64`).
* After a failed dial the failures counted before count as successes, so the
  target may return early (`health.go:15-17`); `RestoredAfterSuccesses` therefore
  exempts targets that were marked down.
* `injected` is never reset: after `SetListener` and a restart the proxy does not
  close the listener it binds itself.
* A transient `Accept` error ends the accept loop while `isRunning` stays true.
* Weighted round robin and IPHash may also leave healthy targets untried.
* `Stop` of the TCP proxy can return before an accepted connection is counted,
  since `conns.Add` comes after `Accept` (`tcp.go:304`); `tcp.go:243-244` says that
  it waits for in-flight connections. `StragglersCancelled` says what holds instead.
* `StartAllProtocols` returns at the first failed `Start` (`protocol.go:24`), so
  later protocols are not served; `app.go:312-313` says that every one is.
* The shutdown context is shared by all protocols and the main server; the gRPC
  server's `Stop` ignores it (`protocol/grpc/server.go:201`). A master that is
  signalled leaves its children running.
* The second of two routes with a parameter in the same place keeps the first
  one's key (`node.go:43`; the model compares captured values). `Group.Static` drops
  the middleware of its group and joins the two prefixes as they stand
  (`group.go:55`), so that `Group("a/").Static("/b")` serves below `/a//b`. `Use`, auth
  and routes declared after the build are ignored without an error
  (`router.go:92-93` says that `Use` still applies to routes declared before).
* A signal that is handled before the goroutine of `Listen` has called `serve` finds no
  listener to close: without port multiplexing the server then serves while the hooks
  run (`app.go:375-377`, 405); `app.go:295-296` says that they run "after the server
  stops accepting connections".
* WebSocket: the limit of connections can be overshot (`server.go:239-257`); `Stop`
  holds `ws.mu` across `Shutdown`, so a request in flight that needs the lock
  blocks both; `Stop` before `Serve` leaves the server serving; a TLS error leaks
  the listener; hijacked connections outlive `Stop`; a `Broadcast` to a client that
  does not read holds `Stop`, and a `Stop` that waits holds every handshake. GraphQL has the same `Stop`,
  and both it and Connect the same leak.
* WebSocket and MCP close `done` in `Stop` and never make it again: a second `Stop`,
  after a restart, panics.
* MCP: `Start` writes `listener` and `isRunning` without the lock; the clean-up of a
  connection deletes by address whatever session is there; a request may exceed
  `MaxRequestBytes` by what the decoder had read ahead.
* MQTT: an `Unsubscribe` that crosses a `Subscribe` leaves a handler that nothing can
  remove, and a later `Subscribe` adds a second one; a `Subscribe` that fails leaves
  its entry in `subs`; an injected listener serves one client at a time; `Stop` holds
  `mb.mu` while `Close` waits for clients that need it to be authenticated.
* Limiters with different windows share one map of visitors, and whoever opens a
  window gives it its length.
* The goroutine of `Timeout` reads the remote address from a `RequestCtx` that may
  belong to the next request by then.

## 4. Fairness

Fairness is assumed where a goroutine that can run does run, and nowhere else.

* `health`: weak fairness for ticks, probes, dials (both have time-outs) and the
  end of a round and of `stop`. Strong fairness for `LoopExit`: a `select` with a
  ready `ctx.Done` and a ready tick picks one of them at random, so `Done` is taken
  eventually.
* `tcp_proxy`: weak fairness for the steps of `Start`, `Stop`, accept loops and
  handlers. None for clients arriving or leaving, transient errors, calls of
  `Start` and `Stop`, or the expiry of `Stop`'s context.
* `tcp_relay`: weak fairness for the two copies, except for a `Write` that succeeds,
  since the peer need not read; for the watcher and the return of `handle`. The peers
  owe nothing.
* `app`: weak fairness for the shutdown's steps and its timer, which includes the
  assumption that a `Stop` outside `Unbounded`, here that of the TCP proxy, which ends
  with its context, returns; `StopReturns` of `protocols` says of the others what may
  hold them. None for the starting goroutine (a `Start` may hang) or for
  signals. For the master, weak fairness for the monitor.
* `protocols`: weak fairness for goroutines that can run, for handlers that return,
  for the read error of a connection that is closed or whose client has hung up,
  and for the expiry of Connect's context. A `Stop` that has been called takes the lock
  when it is free. None for clients, for the departure of MQTT sessions, for calls of `Start`
  and `Stop`, for endless handlers, tools, or the end of a `Broadcast`, whose writes
  have no deadline.
* `reverse_proxy`, `router` and `middleware` check safety only.

`CHECK_DEADLOCK FALSE` is set where a system may rightly stop: all connections
served, all declarations made, `Listen` returned.

## 5. Proofs

The proofs hold for every value of the constants that satisfies the assumption
named in the component's module; TLC evaluates these assumptions in the runs.

**`HealthCheckerProofs`**, from `CheckerAssumption` (the thresholds are integers,
`Enable` is Boolean; any sets of targets and connections). `TypeCorrect`,
`StopQuiesces`, `RotationCorrect`, `RestoreCorrect` and `RemovalCorrect` prove
`TypeOK`, `StoppedIsQuiet`, `RotationFollowsProbes`, `RestoredAfterSuccesses` and
`RemovedAfterFailures`. None of the properties is inductive. The invariant adds

* `OneRound`: probes are active only in a round of a loop that `start` created and
  that `stop` has not outlived;
* `FailsBelow`: `fails` is below its limit except in a probe that is about to flip;
* `Counted(t)`: how `fails[t]` relates to the run of results so far. `RunsMatch`
  says that the ghost runs agree with the last result, `AtRest`
  that `fails` is the current run when no probe has a result in hand and no dial
  interfered, `InHand` that it is one behind while a result is in hand, and
  `Branch` that a probe on the branch for a healthy (unhealthy) target loaded that
  value, unless a dial has marked the target down since.

The last is the heart: a probe acts on a value of `healthy` that may be stale, and
the only write that can make it stale is the failed dial, which sets `marked`.

**`TCPProxyProofs`**, from `ProxyAssumption` (a natural limit and number of
generations, a finite set of connections). `TypeCorrect`, `CountersCorrect` and
`LimitCorrect` prove `TypeOK`, `CountersExact` and `CapHolds`. `StateInv` adds to
the types `OneLoop` (a generation's loop exists only once its `Start` has come that
far), `Holding` (a connection between `Accept` and `go handle` belongs to one loop)
and `Targeted` (a relayed connection has a target). From these, `ExactInv` shows
that every step moves each counter and the set it stands for together; `Holding` is
what makes "one more handler" one more element. Non-negative counters follow from
exactness, not the other way round. `LimitInv` says that `active` together with the
loops that have passed the test stays within the limit plus the number of earlier
generations; it rests on one loop per generation.

`StragglersCorrect` and `RestCorrect` prove `StragglersCancelled` and
`RestMatchesState`. The first needs to know of every generation that it is the
running one, has been cancelled, or is about to be by the `Stop` that captured it
(`Ended`), and of every connection which generation it belongs to (`Owned`). The
second follows a `Start` or a `Stop` from step to step: as long as the two have not
overlapped only one is under way (`Apart`), and the checker's loop and the own
listener are what its step says (`CheckerFollows`, `PortFollows`).

**`TCPRelayProofs`**, from `RelayAssumption`, for streams of any length.
`DeliveryCorrect` and `HalfCloseCorrect` prove `StreamFaithful` and
`HalfCloseKeepsOther`; `StreamsInOrder` is the invariant below the first. Unread
chunks are the latest ones their source wrote (`Numbered`) and everything passed on
is older (`Behind`); what was passed and what was written differ by the chunk in
hand (`InHand`); an end of stream means that nothing is left to read (`Ends`). For
the half-close, `Causes` gives every closed connection a cause that no later step
takes back.

**`ReverseProxyProofs`**, from `PoolAssumption` (any pool, weights and number of
retries; finitely many clients). `ActiveCorrect` and `RetriesCorrect` prove
`ActiveExact` and `OncePerTarget`, `Invariance` the invariant they share: a call has
tried one target per attempt (`Attempts`), `Pick` never looks past the pool nor
chooses from an empty one (`Places`), and a target's counter is the number of calls
that hold it (`Served`). `ChoicesInPool` shows that each of the four algorithms, the
weighted draw and the least loaded target included, returns a target of the list
that `Pick` collected: without that, the slot a call gives back need not be the
slot it took.

`RoundRobinCorrect` proves `RoundRobinExhausts` for every pool that satisfies
`EvenPool`, any number of healthy targets among them and any value of the counter.
`RoundsInv` says of a pick that nobody disturbs that the list it collects holds the
healthy targets in order (`ScannedOf`) and that the places the counter has come by in
this pick were all refused because they had been tried (`RefusedOf`). Those places are
an interval that ends at `counter % k`; a turn adds the next place (`OneMore`), and at
the wrap, where the counter goes back to zero, as many turns are lost as `CounterMod`
leaves over. After `Len(Pool) + 1` turns the interval is the whole list (`AllTurns`).

**`ListenGracefulProofs`**, from `ProtocolsAssumption` of `App`, for any set of
protocols. `AuthCorrect`, `ServedCorrect`, `HooksCorrect` and `LeftoverCorrect` prove
`AuthEverywhere`, `ServedOnce`, `HooksAfterClose` and `LeftoverExplained`. They speak
of protocols that run, and what makes them true was decided earlier: `SetupInv` has
the secret in every registered protocol, in whichever order it came; `WalkInv`
follows a protocol through `StartAllProtocols`; `MainInv` says where the main
goroutine is on its way out and whether `Shutdown` found a server that served; `StopInv` that `StopAll` has yet to reach a protocol,
found it down before its `Start` had come to an end, or has stopped it for good.
`PoolAccounted` proves that the master's map of children is exact and that the pool
keeps its size.

**`ProtocolsProofs`**, from `ProtocolsAssumption` of `Protocols`. A step of
`Protocols` is a step of one server and leaves the variables that only the others
have alone, so that an invariant of a part is one of the composition.

* `SizeLimitKept` proves `SizeBounded` for every positive `MaxRequestBytes`. Whether
  a request is decoded or refused depends on what was in the decoder's buffer when
  the counter was reset. `ReadAhead` adds that the bytes the counter has not seen,
  `buffer - n`, stay below the limit: the decoder asks for more only while its
  request is incomplete, and then gets no more than the limit.
* `SubscriptionsKept` proves `HandlersMatchSubs`, which speaks of the moments between
  calls only. `IdsInv` says that ids grow, `EntryInv` that an entry has its handler or
  a `Subscribe` under way that will attach it, if the library takes the filter,
  `OrphanInv` that a handler or a
  `Subscribe` without an entry was crossed, or will be removed by an `Unsubscribe`
  under way, and that an `Unsubscribe` never holds the id of the present entry.
* `RegisteredCorrect` and `CapCorrect` prove `RegisteredIsOpen` and `CapWithinPeak`.
  The map holds exactly the connections between `Register` and `Delete`
  (`MapIsSeated`). `Register` tests nothing, so a bound on the map alone is not
  inductive: `SeatsBounded` counts the handshakes past the test like entries.
* `LeftoversCorrect` proves `LeftoversExplained`. For MQTT, whoever is on its way to a
  session while the port is closed was so when `Stop` began, and had not been attached
  then if `Stop` has returned since (`UndecidedBehind`). For MCP, connections in use have different addresses
  (`Addressed`), so that each finds its own session under its address until another
  handler deletes it (`Entered`).

Also there, `ContractKept` proves `ServiceImplemented`, the refinement of
`Service` by every server. The initial states map to initial states, and each action
to an action of `Service` or to a stutter, under an invariant per kind of server. For
gRPC, Connect and GraphQL, `Start` goes on without the lock and is kept apart from
`Stop` by `isRunning` alone (`StartAlone`); unless a `Stop` was missed there is one
goroutine that will serve or one that serves (`OneServer`); a library that was shut
down does not serve before the next `Start` (`ShutHolds`). WebSocket: `Once` and
`Drained`, that `Shutdown` has waited when it returns from a server it closed. MQTT
and MCP: the order of `port`, `loop`, `listener` and `isRunning` (`BrokerOrder`,
`MCPOrder`), which is what makes the MCP `Stop` between the two unlocked writes of
`Start` the only one that is missed.

**`MiddlewareProofs`**, from `MiddlewareAssumption`, for any number of requests and
contexts and all durations. `AnswersCorrect` and `StalenessCorrect` prove
`AnswersIsolated` and `StalenessBounded`. `Owner` gives a request in the chain a
`RequestCtx` that no other has, `Maker` follows a body from the handler to the answer,
`Age` says that a handler has run for at most the time-out when its answer is
collected, and `CacheInv` carries maker and age over to the entry.

`AllowanceCorrect` proves `AllowanceBounded`, for any number of goroutines, limits and
windows. Instead of a sum, `Budget` compares sizes of sets: `Tokens(l, t)` has one
element for every request that a visitor in play, the one in the map or one that a
request still holds, may yet let through in the stretch that began `t` ticks ago, now
or after its next reset. What has passed and the tokens together stay within the bound:
a request that passes uses a token up (`Spend`), a tick gives no visitor more than it
had in the stretch one shorter, and a new visitor needs tokens that the removed one
leaves behind (`Swap`) or that `dropped` pays for (`Grow`, `StraysDropped`). The first
attempt, with one limit for each removed visitor, failed: three goroutines violate it,
since a visitor that is still held can be reset once more.

**`RouterProofs`**, from `DeclarableAssumption` (patterns are sequences of strings), for
all declarations, methods and paths and any tree. `DispatchCorrect` proves that, over
trees that satisfy `TreeMatchesDeclarations`, `AnswersRight` holds: the answers of
`HandleRequest` for HEAD, OPTIONS, 405 and 404 need nothing else from the trees.
`ChainCorrect` proves the same of `ChainComplete`, for declarations whose middleware
reaches `addRoute` as declared, those of `Group.Static` excepted, whose chain is empty
(`ChainsDeclared`; TLC evaluates it for those of `MCRouter`). What the declarations call for must exist first: `Winner` is a `CHOOSE`,
and precedence would be no definition if two routes could beat each other.
`BetterOrder` shows that it is a strict total order, as the lexicographic order of the
patterns' kinds with the order of declaration below it, and `BestExists` that every
matching set has a best route. `RouterInv` says that entries are those of declarations,
whatever `NoAuth` did to them, and that the responders carry the final middleware.

Model-checked only:

* liveness, which rests on fairness: `EventuallyAccurate`, `CancelledConnsEnd`,
  `RelayEnds`, `EofReachesDestination`, `ShutdownCompletes`, `PoolKept`, `GoneNoticed`,
  `ConnectAnswered` and the three `StopReturns`;
* `TreeMatchesDeclarations` and `ChainsDeclared`: `insert` and `match` are recursive
  over trees, `Group` over the levels of nesting, and what they compute needs
  induction over data. The theorems of `RouterProofs` have them as hypotheses.

Outside `EvenPool` the promise of `RoundRobinExhausts` does not hold: see the run
`reverse_proxy`.

## 6. What is not modelled

* Request context, binding, validation, the OpenAPI generator, JWT checking and
  stateless middleware: pure functions of one request, reflection or text.
* `MQTTServer`, the client of another broker, which forwards each call to its
  library under one lock; MCP resources and prompts, lists that nothing else reads.
* In the modelled parts: headers and path prefixes of the reverse proxy, serving of
  static files, `EnableDocs`, `StartProtocols` by name, replacing a registered
  handler by one of the same name, a second `Start` of the WebSocket,
  MQTT and MCP servers (the channel `done` and the name of the listener allow none),
  `SendToClient`, pings and concurrent writers of one connection, partial writes of a
  chunk.

## 7. Plan

Order of the work: the proxy first (its goroutines share the most state), then the
application's life cycle, the router, the protocol servers with their common
contract, and the stateful middleware; then the proofs, component by component, and
the refinement. Every safety property of the passing runs but `TreeMatchesDeclarations` has its
theorem. Left:

1. What pools outside `EvenPool` still promise: how many healthy targets a request
   can leave untried at the wrap, or with weights above one.
2. WebSocket: `SendToClient` and concurrent writers.
3. A proof about `RadixTree` in a prover with induction over trees.
