# A TLA+ development of mosproxy

mosproxy is a DNS forwarder written in Go. A query comes in through a server (UDP, TCP, TLS,
HTTP, QUIC), passes a chain of middlewares, is matched against rules, and is answered from a
response cache or by an upstream, which is reached through one of several transports with
connection reuse. This directory holds TLA+ modules for its concurrent parts and for the data
structures and codecs its answers depend on, TLC configurations that check them on small
instances, and proofs that the TLA+ proof system checks for every instance.

Paths below are relative to `src/internal` (`upstream/...`, `connpool/...`) or `src/app/router`
(file names alone).

## 1. Inventory

### Components, their state, and what is hard about them

| Component | State | Operations | Hard behaviour | What makes it correct |
|---|---|---|---|---|
| Connection pool, `connpool/pool.go` | `dialingCalls`, `lastDialCall`, `busyConns`, `idleConns`, stream counts, `closed` | `Get` (busy, idle, queue on a dial, new dial), `dialingCall.dial`, `waitConn`, `cancelDial`, `Release`, `MarkDead`, `Close` | callers give up while their dial is committed, connections die in use, `Close` during dials, three maps under one limit | counts equal the callers that exist, limits hold, no open connection is forgotten, waiters are woken |
| Pipelining transport, `upstream/transport/pipeline_*.go` | query ids, reservations and the queue of each connection | `ExchangeContext` with retries, `exchange`, `readLoop`, `Reserve`, `Status`, `closeWithErr` | late, repeated, reordered responses; ids run out; a pool and a connection that count the same thing separately | a caller gets its own answer, reservations do not leak, exhausted connections close, `Close` ends every exchange |
| QUIC transport, `quic_transport.go` | `c`, `dialingCall`, `closed` | `ExchangeContext`, `getConn`, `runDialingCall`, `Close` | one connection shared by all, found dead by several callers at once; a field read after unlocking | one connection; every waiter hears of the dial |
| Reusing TCP transport, `reuse_transport.go` | `idleConns`, `conns`, `serving` and `closed` per connection | `ExchangeContext`, `getIdleConn`, `asyncDial`, `exchangeConnCtx`, `releaseConn`, `closeIfIdle`, `Close` | callers give up while goroutines go on; two locks; query ids are not compared | an idle connection has no answer to come; nothing is released twice or lost |
| DoH transport, `doh_transport.go` | none | one HTTP request | inside `net/http` and quic-go | - |
| Upstream health and load balancers, `upstream.go`, `upstream_lb.go` | `offline`, `continuousErr`, `cancelPingLoop`, `lbs`; `sampler` of each balancer | `Exchange`, `hcSucceed`, `hcFailed`, ping loop, `hcRebuildLbsIdx`, `buildIdx`, `Close` | late results, three locks, rebuilds that overlap | an offline upstream is pinged by exactly one loop; balancers converge to what is online; loops end |
| Upstream construction, `upstream/upstream.go` | - | `NewUpstream`, `udpWithFallback` | truncated answers start a second transport; two transports close one after the other | the fallback neither reuses nor loses a connection |
| Bootstrap resolver, `upstream/bootstrap.go` | `cache`, `inflight` | `resolve` | single flight: followers get the leader's error | one lookup per host, no follower hangs |
| Query handling, `router_handle.go`, `rule.go` | local to the goroutine | `BuiltInHandler`, `handleRespIpFallback`, prefetching | a key buffer used for two lookups; an answer found in four different ways must be checked in all | what is served comes from the upstream of the rule, and no dropped answer is |
| Response cache, `cache.go`, `cache/mem.go`, `cache/redis.go` | two backends, prefetch queue | `Store`, `Get`, `AsyncSingleFlightPrefetch` | slow redis reads against stores, optimistic expiry, single flight | nothing outlives its ttl, only an overtaken answer puts memory back, failures do not displace answers |
| Hot reload, `api_reload.go`, `data_loader.go` | `v`, `hash`, `staged` of each loader, `reloading` | `Reload`, `LoadAndStage`, `Commit`, `Discard` | files change and break between and during reloads; one of several fails | one reload at a time, all or nothing, convergence |
| Router lifecycle, `router.go`, `router_middleware.go` | lists of closers | `Run`, `Close` | a server that fails at once closes the router while it still starts | everything started is closed |
| UDP server, `server_udp.go` | channel `send` of 128, reused batch messages | read loop, handlers, batched write loop, `Close` | full channel, failed batches, messages of a batch reused by the next, shutdown order | a response goes once to the client that asked; handlers do not block for ever |
| TCP server, `server_tcp.go` | connections, a concurrency channel for each | accept, read loop, handlers, `Close` | the reader waits for its handlers; closing while accepting | the limit, every query ends, no connection leaks |
| QUIC and HTTP servers | tracked connections (DoQ, fasthttp) | adapters | the envelope of DoH; what is left to `net/http` and quic-go | errors keep bad requests out; connections end with the server |
| Common end of a query, `server_utils.go` | `connTracker` | `parseQuery`, `serverFinalRespB` | the reply has to become the request's on every way | id, opcode, OPT, size, framing |
| Limit middleware, `middleware/limit/limit.go` | a counter, a rate limiter | `Handle` | counter on the rejection path | the counter is the number of queries in progress |
| Reverse lookup middleware | address to name cache | `Handle` | - | - |
| Domain matcher, `domain_matcher/*.go` | a tree, compiled into five flat sections | add a rule, compile, read back, search | order of Go maps, boundaries of labels | a name matches when a rule covers it |
| Address lists, `netlist`, `ip_set.go`, `ip_marker`, `ecs_zone.go` | sorted ranges | load, search | borders of ranges, IPv4 inside IPv6 | equal to a membership definition |
| Hosts, `hosts.go` | a map for each file | load, respond | merging, the family that is missing | every address written, once |
| DNS message library, `pkg/dnsmsg` | a message | pack, unpack, lengths | compression, limits | round trip, size limit |
| Buffer pools, `pool/bytespool.go` | a `sync.Pool` for each size class | `GetBuf`, `ReleaseBuf` | borders of the classes | a buffer holds what was asked for |
| Logging, configuration, command line | - | - | - | - |

### How they interact

* A server calls the middleware chain with a `QueryCtx`; its end is `BuiltInHandler`, which walks
  the rules and calls `CacheCtl.Get`, an upstream or a load balancer, then `CacheCtl.Store`. A hit
  on an expiring entry starts a prefetching goroutine that does the same in the background.
* A load balancer picks one of its `UpstreamWrapper`s from an immutable `sampler`; a wrapper
  reports each result to its health state, and the health state calls back into every load
  balancer it is registered with (`hcRebuildLbsIdx`), which reads the status of all its wrappers.
* A wrapper uses a transport. The pipelining transport owns a `connpool.Pool`; the pool calls
  `Status`, `Reserve` and `Close` of the connections. (`MarkDead` is offered by the pool;
  no transport calls it at present, a dead connection is noticed by `Get` and `Release`.)
* `/ctl/reload` stages and commits the loaders that rules read without a lock.
* `Router.Close` cancels the context of the ping loops, calls the closers of the servers that
  `Run` has noted, and closes the upstreams. A server whose loop fails calls it too.
* Each dial of an upstream asks the bootstrap resolver first; a udp upstream holds a pipelining
  transport and, for truncated answers, a reusing one.
* Servers share `serverEntryHandler`, the counter of the limit middleware, `connTracker` and
  `serverFinalRespB`.

## 2. Modules

| Module | Code | Composes |
|---|---|---|
| `StreamPool` | what a connection pool promises callers (abstract) | |
| `ConnPool` | `connpool/pool.go` | implements `StreamPool` |
| `PipelineTransport` | `pipeline_transport.go`, `pipeline_conn.go` | `ConnPool` |
| `UpstreamHealth` | `upstream.go`, `upstream_lb.go`, parts of `router.go` | wrappers and balancers |
| `DataReload` | `api_reload.go`, `data_loader.go` | |
| `ResponseCache` | `cache.go`, `cache/*.go` | |
| `RouterHandle` | `router_handle.go`, `rule.go` | `ResponseCache` |
| `QuicTransport` | `quic_transport.go` | |
| `ReuseConn` | `reuse_transport.go` | |
| `Bootstrap` | `bootstrap.go`, `upstream/utils.go` | |
| `Upstream` | `upstream/upstream.go` | `ReuseConn`, `Bootstrap` |
| `DnsService` | what the servers promise clients (abstract) | |
| `ServerHandler` | entry handler, `limit.go` | |
| `UdpServer` | `server_udp.go` | `ServerHandler` |
| `StreamServer` | `server_tcp.go`, `server_quic.go`, `server_http_fasthttp.go`, `connTracker` | `ServerHandler` |
| `RouterServers` | `Run` and `closeImpl` of `router.go` | `UdpServer`, `StreamServer`; implements `DnsService` |
| `DomainMatcher` | `domain_matcher/*.go`, `domain_set.go` | |
| `AddressLists` | `netlist/*.go`, `ip_marker`, `ip_set.go`, `ecs_zone.go` | |
| `Hosts` | `hosts.go` | |
| `BufferPool` | `pool/bytespool.go` | |
| `Messages` | `msg.go`, `name.go`, `question.go`, `rr.go` | |
| `Replies` | `server_utils.go`, the message side of all servers | `Messages` |
| `RouterData` | - | the five modules of data above, and `Replies` |
| `PipelineTransportProofs` | theorems | `ConnPool`, then `PipelineTransport` on top of them |
| `UpstreamHealthProofs` | theorems | `UpstreamHealth` |
| `RouterHandleProofs` | theorems | `RouterHandle`, `ResponseCache` |
| `QuicTransportProofs` | theorems | `QuicTransport` |
| `UpstreamProofs` | theorems | `Upstream`, `ReuseConn`, `Bootstrap` |
| `ServersProofs` | theorems | `RouterServers`, `UdpServer`, `StreamServer`, `ServerHandler` |
| `MessagesProofs` | lemmas | `Messages`, `Replies` |
| `RouterDataProofs` | theorems | `RouterData` on top of `MessagesProofs`, and `DataReload` |

`MC*` modules give the constants small values, symmetries and views. Conventions: a variable has
the name of the field it stands for and the comment beside it says which; a critical section is
one action, and what the code does after unlocking is another; identities (`Conn`, `Loop`) are
reused once nothing refers to them (`Fresh`), so that a small set stands for an endless supply;
a caller that has returned may start again where the comment says so.

### ConnPool

A dialing call and the connection it makes share the identity `c`. `Get` is five actions with
disjoint guards: `GetBusy`, `GetIdle`, `GetQueue`, `GetDial`, `GetNone`. Iteration over Go maps
is a choice of the set `V` of connections that are visited first. `waitConn` is `WaitDelivered`,
`WaitFailed` and `WaitTimeout` (which contains `cancelDial`); `dialingCall.dial` is `DialReturn`,
then `DialDiscard` or `DialCommit` under the lock. `Release` is `ReleaseAbsent`, `ReleaseDead`,
`ReleaseShared` or `ReleaseLast`, the last one with the trimming of idle connections. Connections
taken out of the maps are `doomed` until `CloseDoomed` closes them outside of the lock.
`available` is what a connection's `Status` says; it may change at any time, and the transport
module ties it to the real computation.

`StreamPool` is the pool as its callers see it: a connection is "dialing", "usable" or "out", and
a caller has a seat on one or none. It has no busy, idle or dialing maps, no waiting and no
counts. `ConnPool` implements it with `offer[c]` read off from the maps, `closed` and whether the
connection is dead (`Offer`), and `seat` being `at`, the connection a caller was given, waits for
or uses. `GetDial` is `Dial`, the three other ways to get a connection are `Join`; `WaitFailed`,
`WaitTimeout` and every `Release` are `Leave`, the last of which may take idle connections away;
the end of a dial and the death of a connection are `Changes`; delivering a connection, opening a
stream and closing what was doomed are nothing to be seen. That no connection has more than
`MaxStream` callers (`StreamLimit`) is part of `StreamPool`, so the run checks it there.

### PipelineTransport

Each step of the pool is conjoined with what it does to the `pipelineConn` and to the caller.
The server may answer any query it has seen on the wire, again and again, in any order, or
never. Query ids run from 0 to `MaxQid`, 65535 in the code, and an id is used once on a
connection. `available` is tied to `Status` of the connection by `Published`.

### UpstreamHealth

Processes are queries and ping loops. `hcLock` sections are single actions; `lbsLock` and `idxM`
are variables, because a rebuild holds them while it reads the status of each backend in turn.
`continuousErr` saturates at `MaxFails`. The choice of a backend from a sampler (weights, hashes,
rate limits) is abstracted to any of its members.

### DataReload

A file's content is a version or `Broken`. Loading a file, reading and staging it, is a step, and
so is the commit of each loader. Files are edited at any time. `newHash` and `before` are history
variables that the properties compare with.

### ResponseCache and RouterHandle

A response keeps its origin, its birth, and what the cache and the rules test: rcode, whether it
has records, whether an address of it is in the `resp_ip` set. A goroutine stops where the code
waits or where another goroutine may come in between: before redis is read, before the memory
cache is filled from it, before the upstream answers, between the stamp of an answer and its write
to memory (`Answered`, `StoreMemory`), between the writes to the two backends.
`Evict` and failing redis commands are always possible.

### QuicTransport and ReuseConn

In both, a goroutine that works for a caller is separate from the caller, who may leave at any
time (`Return`, `GiveUp`). `QuicTransport.ReadConn` is the read of `t.c` after `t.m` was released;
the state "panic" is the nil dereference that follows when the field was cleared in between.
In `ReuseConn` the variable `hand` says which goroutine has the connection, and `inFlight` whether
a response is still to come on it. `closeIfIdle` decides under the connection's lock
(`IdleTimeout`) and closes the socket later (`TimerCloses`).

### Bootstrap and Upstream

`Bootstrap` has one host: `inflight` is the entry of the host or none, `cache` the ticks its
addresses are still good for. `Resolve` is the critical section of `resolve`; publishing the
result (`close(q.done)`) and deleting it from the map are separate steps, because a caller may
come in between. `Upstream` conjoins the steps of `ReuseConn` with a lookup for each dial, and
adds `udpWithFallback`: its UDP half is seen from outside as an exchange that ends with an error,
an answer or a truncated answer; `PipelineTransport` is the module about its inside. `Resolves`
is as the code has it, so a dial of a unix socket is resolved when there is a resolver.

### ServerHandler, UdpServer, StreamServer, RouterServers

A query is received, passes the limit middleware (`RateReject`, `LimitReject`, `LimitEnter`) and
has a response (`HandlerReturn`); the rest of the handler is the subject of `RouterHandle`.
`UdpServer` has the reader, the handlers that put responses into `send`, and the write loop that
fills reused messages (`wms`) and writes them as a batch, of which the kernel may take only a
part; `WriteOne` is the loop of other systems. `StreamServer` has accepting, `connTracker`, the
channel `concurrent` as a number of `slots`, and the end of a connection in the order of each
protocol. `RouterServers` starts a configuration's servers one by one, lets any of them fail, and
closes what was noted.

`DnsService` says that a query is taken once and then dropped, or answered by one response that
goes to its client. `RouterServers` is checked to implement it, with the status of a query read
off from where it is and what was delivered (`Status`). One step may answer several queries (a
batch) or one and drop another, which `Settle` allows.

### The data modules

The parts of `RouterData` run in one goroutine each and share nothing, so a behaviour exercises
one of them (`part`), starting from an empty table or message. `DomainMatcher` builds the tree
rule by rule, compiles it with every order in which Go may range over the children of a node, and
reads it back; the sections are sequences and a segment an offset and a length, as in the code,
and sorting the labels of a segment gives any ascending arrangement of them. The loops of these
modules are recursive functions or folds, which the proofs can reason about.
`AddressLists` and `Hosts` read files line by line. `BufferPool` uses the real sizes. In
`Messages` a packed message is a sequence of tokens that know their size and offset: names are
compressed with real offsets, a pointer is read by looking for a token that starts there, and a
pointer or a length that is wrong by one byte finds none. `Replies` judges a request as each
server does, lets the router answer with any records, and finishes the reply.

## 3. Runs

| Run | Instance | Shows |
|---|---|---|
| `pool` | 3 connections, 3 callers, `MaxConn` 2, `MaxStream` 2, ratio 1 | counts, the limit of connections, no leaked connection, reservations, trimming; `StreamPool`, and with it the limit of streams |
| `pipeline` | 2 connections, 2 callers, ids 0..2, 1 retry | own answer, closing behind the last id, reservations, waiting ends, `Close` reaches every exchange |
| `health` | 2 upstreams, 2 balancers sharing one, 2 queries, 2 loops, `MaxFails` 1 and 2 | one watcher, samplers settle |
| `health_live` | 2 upstreams, 1 balancer, 1 query, 2 loops | recovery without queries, ping loops end |
| `reload` | a group of two files and one of a single file, 2 requests, 2 versions | failures apply nothing and reloads do not overlap, convergence |
| `reload_stale` | the same | violated: a successful reload applies what it loaded |
| `handle` | 1 handler, 2 prefetchers, 1 question, 2 upstreams, rules of all kinds, 2 replies, 3 instants | cache and rule properties |
| `quic` | 2 callers, 3 connections, 1 retry | one connection, waiters hear of dials |
| `upstream` | 2 callers, 1 retry; udp with its fallback (2 TCP connections), tcp or tls (3), dialling a name with and without a resolver, or a unix socket | idle connections are quiet, no assertion fails, no socket is lost, one lookup that tells all its followers |
| `servers` | 4 queries, one server of each kind, or UDP and TCP; a channel of 1, batches of 2, 1 slot, limit 1 and a rate | `DnsService`, slots, every query ends, closed servers stop |
| `data` | 6 rules with 3 siblings, 6 prefixes and 6 ranges over 4 and 16 addresses in 2 files of 3 lines, 5 host lines in 2 files, 11 sizes at the borders, 9 requests, 11 front ends, answers of 3 of 11 records | lookups are exact, buffers fit, messages read back, replies match requests |
| `messages_truncated` | the replies of `data` | violated: a cut reply has TC |

### Why these bounds are enough

* Pool: three callers are the least with which two share a connection, or queue on one dial, while
  a third gives up or releases; three identities let a dial, a busy and an idle connection exist
  while an older one is being closed. `MaxConn` 2 and `MaxStream` 2 are both reached and refused
  at. The pool has no behaviour that depends on a limit beyond comparing with it.
* Pipelining: with three ids a connection is used up in a few queries, so that the run sees the
  closing of an exhausted one and a new one taking over. 65536 ids differ only in how long that
  takes.
* Health: with two queries and two loops a late result meets a new status; an upstream behind two
  balancers makes one rebuild visit several, and two upstreams in one balancer make two rebuilds
  meet in it.
* Reload: two files in a group are needed for one to be staged when the other fails.
* Handler: prefetchers run the same exchange and store steps as handlers, and are what races with
  one; a second handler adds no new pair of steps. One second of ttl, one of optimism and three
  instants give a fresh, a stale-but-served and an expired entry, and let a goroutine be overtaken
  between the stamp of its answer and its write by another that stamps a later one. Upstreams give
  two replies, a good one in the `resp_ip` set and a failure outside it: whether an answer is
  good and whether `resp_ip` drops it are tested by different steps, so of each test both
  outcomes are taken, and a rule's fallback serves the good one.
* QUIC and upstream: with three connections one may be dead but in use, one current and one
  dialled. One retry shows what is kept and reset by a retry. A udp upstream gets two TCP
  connections, because its two callers are busy with the UDP half as well; two are the least with
  which an abandoned exchange and its successor exist. Ttls of 0 and 2 ticks are an answer that is
  not kept and one that outlives a lookup.
* Servers: a channel of 1 is full as soon as two queries meet, a batch of 2 is filled and is also
  written half full, and its messages are reused by the next; one slot makes the reader wait for a
  handler; the limit of 1 is met by the second query. Two servers share the limit's counter and
  the router's closing.
* Data: a node with three children is the least on which a bisection can go wrong twice. Addresses
  of 2 and 4 bits have a border inside, beside and around every kind of range. Messages use a
  scaled wire: labels of 2 to 12 bytes, names of at most 20 (`NameMax`), 2 pointers (`MaxPtr`),
  offsets up to 40 that can be pointed to (`MaxOffset`) and limits of 50 to 80 bytes stand for
  1..64, 255, 10, 16383 and 512..65535, and three records are enough to pass all of them. The
  messages of upstreams and of the cache come with the question of the request, with another one
  or with none (`OtherQuestions`), and a request may have an opcode that is not a query's. The
  sizes of buffers are those at the borders of the real classes.
* Deadlock is checked where the system never stops. The pool and the transport over it stop when
  all callers have returned and nothing is left to close; the servers stop when the router is
  closed; a data part stops when its files are read or its reply is sent. Their configurations say
  so.

### Fairness

* Dials and exchanges with an upstream have timeouts, so a goroutine that dials returns; Go's
  scheduler runs every goroutine that can run. Each of these gets weak fairness of its own.
* Callers' contexts are never assumed to end: the liveness properties hold without a deadline.
* Go's mutex hands over to a waiter that has starved for 1 ms, hence strong fairness of taking
  `lbsLock` and `idxM` (`UpstreamHealth`).
* `select` chooses at random among ready cases: a ping loop whose context is done takes that case
  in the end, also if the timer is ready again each time, hence strong fairness of `LoopCancelled`.
* `Converges` assumes that reloads are requested again and again and that each goes on.
* In `RouterServers` the handler of a query ends within `queryTimeout`; a write to a peer that
  does not read ends within `TCP_USER_TIMEOUT`; a batch is written after a millisecond; loops whose
  socket was closed return; `closeImpl` goes on. Each has weak fairness of its own. Nothing is
  assumed of `Run`, of clients or of failures.
* No fairness is assumed of servers of others, of files, of redis, or of time.

## 4. What is proved

The theorems hold for all values of the constants that the named assumptions of the modules
allow. Each safety theorem follows from an inductive invariant of its module, which holds
initially, is kept by each action (one lemma or step per action), and implies the property. TLC
has checked these invariants on the instances of section 3, all but `SurviveIInv`, which speaks of
limits and prefixes of any size; TLC has checked what it implies, `MessagesSurvive`.

| Module | Theorem | States |
|---|---|---|
| `PipelineTransportProofs` | `PoolInvariant`, `TypeCorrect` | `IInv`, `TypeOK` |
| | `AccountingCorrect`, `StreamLimitHolds`, `ConnLimitHolds` | `StreamAccounting`, `StreamLimit`, `ConnLimit` |
| | `ReserveMatchesHolds`, `NoConnLeakHolds` | `ReserveMatches`, `NoConnLeak` |
| | `TrimSparesStreamsHolds` | `TrimSparesStreams`, an action property |
| | `PoolKeepsPromise` | `Spec => ImplementsPool`, the refinement of `StreamPool` |
| | `PipelineInvariant`, `PipelineTypeCorrect` | `PipelineInv`, `PipelineTypeOK` |
| | `PipelineOwnAnswer`, `PipelineExhaustedCloses`, `PipelineReservationsBacked` | `OwnAnswer`, `ExhaustedCloses`, `ReservationsBacked` |
| | `PipelineKeepsPool` | the accounts, limits and connections of the pool under this transport |
| | `PipelineKeepsPromise` | `PipelineSpec => ImplementsPool` |
| `UpstreamHealthProofs` | `HealthInvariant`, `HealthTypeCorrect` | `HealthInv`, `TypeOK` |
| | `HealthOneWatcher`, `HealthSamplerSettles` | `OneWatcher`, `SamplerSettles` |
| `RouterHandleProofs` | `HandleTypeCorrect`, `HandleNoMatchedServed`, `HandleSingleFlight` | `HandleTypeOK`, `NoMatchedServed`, `SingleFlight` |
| | `CacheCoherent`, `CacheNothingOutlives` | `Coherent`, `NothingOutlives` |
| | `CacheOlderOnlyOvertaken`, `CacheNegativeKeepsPositive` | `OlderOnlyOvertaken`, `NegativeKeepsPositive`, action properties |
| `QuicTransportProofs` | `QuicTypeCorrect`, `QuicOneConnection` | `QuicTypeOK`, `OneConnection` |
| `UpstreamProofs` | `ReuseTypeCorrect`, `ReuseOwnership` | `ReuseTypeOK`, `Ownership` |
| | `ReuseIdleIsQuiet`, `ReuseNoPanic`, `ReuseSocketsTracked` | `IdleIsQuiet`, `NoPanic`, `SocketsTracked` |
| | `UpstreamSingleLookup`, `UpstreamFollowersAreTold` | `SingleLookup`, `FollowersAreTold` |
| `ServersProofs` | `ServersInvariant`, `ServersSlots` | `ServersInv`, `SlotsMatchHandlers` |
| | `ServersImplementService` | `ServersSpec => ImplementsService`, the refinement of `DnsService` |
| `RouterDataProofs` | `BufferInvariant`, `DataBuffersFit` | `BufferIInv`, `BuffersFit` |
| | `AddressInvariant`, `DataAddressesExact` | `AddressIInv`, `AddressesExact` |
| | `DomainInvariant`, `DataMatcherExact` | `DomainIInv`, `MatcherExact` |
| | `HostsInvariant`, `DataHostsExact` | `HostsIInv`, `HostsExact` |
| | `RepliesInvariant`, `DataRepliesMatchRequests` | `RepliesIInv`, `RepliesMatchRequests` |
| | `DataLengthsHold` | `LengthsHold`, the part of `MessagesSurvive` about sizes |
| | `SurviveInvariant`, `DataMessagesSurvive` | `SurviveIInv`, `MessagesSurvive` |
| | `ReloadTypeCorrect`, `ReloadsApart` | `TypeOK` of `DataReload`, `OneReload` |
| | `ReloadFailureKeepsData` | `FailureKeepsData`, an action property |

### The arguments

**Connection pool.** `StreamAccounting` is not inductive alone: `WaitDelivered` and `Release` rely
on a caller referring only to a connection that was delivered, and `DialCommit` on the call being
in `dialingCalls` and in neither of the other maps. `Lifecycle` states these facts; `IInv` is
`TypeOK`, `Lifecycle` and `StreamAccounting`. The lemmas rest on how the set `Users(c)` changes
when a caller joins or leaves. The key to `StreamLimit` is that every way to join a connection
tests a count that `IInv` identifies with the number of callers; for `ConnLimit`, that the three
maps are disjoint, so a move between them keeps the sum. In the refinement of `StreamPool` the
same two facts are the guards of `Join` and `Dial` (`PromiseCounts`); that trimming meets nobody's
seat, and that a connection that was taken away stays away, are those of `Leave`.

**Pipelining transport.** The lemmas about the pool are stated for `PoolMoves`, a step of the pool
in which `available` may change in any way. Every step of the transport is one
(`PipelineMoves`), so what was proved of the pool holds under it without another proof. For
`OwnAnswer` the invariant says who is registered under an id (`Queues`) and who sent what is on
the wire under it (`Wires`): an id below `nextQid` is free or still with the caller that got it,
so a late answer finds that caller or nobody. For `ReservationsBacked`, `pipelineConn` counts at
most the `Reserve` calls of the pool (`Booked`), of which the pool's `ReserveMatches` says who
made them.

**Health.** `OneWatcher` needs that `cancelPingLoop` is set exactly while the upstream is offline
(`Watched`). `SamplerSettles` is not inductive: a build that is on its way may have read the
status before it changed, and when it stores its sampler the one process that was to refresh it
is gone. `StaleBuildsFollowed` says what saves it: such a build is followed by another for the
same upstream that has not taken `idxM` yet, because the change that made it stale requested one.
`SeenWasRead` says that what a build holds was read from the backends it has passed.

**Reload.** One request runs at a time (`OneReload`, from `reloading`), and until it commits the
data are those it found (`LoadingKeepsData`); a failed request never commits.

**Query handling and cache.** The properties speak of the cache, but a step stores what a goroutine
carries, so the invariant says the same of entries in flight (`Carries`): an entry belongs to the
key of the question and rule its goroutine stands at, was born no earlier than its expiry allows,
and, if it is about to be served, was checked. Between its stamp and its write an entry may age, so
the invariant speaks of its stamp and not of the present. It holds of expired entries too (`GoodEntry`),
which `Coherent` and `NothingOutlives` do not mention, since time passing must keep it.

**QUIC transport.** While a dial is in flight the transport has no connection, and it is the only
one (`OneDial`). An open connection is the transport's or one whose dial has yet to install or
discard it (`OpenIsOwned`). Together they give one connection.

**Reusing transport and resolver.** `Ownership` ties the goroutine that has a connection to the
caller that waits for it, until the caller leaves. `Serving` and `Socket` say for each hand a
connection can be in what its flag, its socket and the sets may be; the strengthening that was
needed is that a connection being dialled is in no set and has no socket. The steps of `Upstream`
are steps of the transport, of the resolver, of both, or of neither, so the invariants of both
are kept apart.

**Servers.** For the slots: the handlers of a connection form a finite set that grows and shrinks
with the channel. For the refinement, the send channel holds each queued query once (`ChannelOK`),
the messages of the batch that are filled are of distinct queries and addressed to their own
clients, and outside of a batch there are none (`BatchOK`); so a write of any part of a batch
answers each of its queries once, however many it settles in one step of `DnsService`, and no
query that has been answered is among them (`AnsweredOnce`).

**Induction over data.** The library's induction theorems take an operator as a parameter, which
the provers cannot instantiate. `MessagesProofs` and `RouterDataProofs`, which extends it, go
through sets instead: a non-empty set of naturals has a least element (`Least`, from the well-foundedness of `<`), so a set with 0 and the
successor of each of its elements has all naturals (`Induction`). That gives what the data modules
need: a function defined by recursion over a count has a solution, which keeps any invariant its
step keeps; `2^k` obeys the laws of powers, since it counts the subsets of a set of `k`; a function
from a finite set into one no larger is onto when it is one-to-one.

**Buffers.** A size lies between two powers of two and its class is the upper one, so a buffer has
room for it; a capacity that is a class's own has that class again, so what is released is found
by the next `get` of the same class and never by another (`BufferIInv`).

**Address lists.** While a file is read each range stands for its line. A list that was built has
one range for each line of its file (a bijection), ascending and apart: apart follows from the
test after sorting, and is what the bisection needs to find the only range that can hold an
address. Addresses under a prefix are those between its first and last one by the laws of powers
of two. A file is refused as overlapping only if two of its lines cover a common address.

**Domain matcher.** `TreeShape` says that the tree has every ancestor of its names and numbers
its nodes without a gap, so that sections indexed by these numbers are filled exactly; `RulesKept`
that it has the last rule of every name. While it is compiled, each node is `Indexed` (its segment
holds exactly its children, in strictly ascending order of labels) or `Pending`, at or below a node
still to be visited; when nothing is left to visit, all are indexed. Bisection then finds the child
with a label or none, by induction over the width of what is left to search; and by induction over
the labels of a name, the search stands at the node of each prefix, or the tree has no such node.

**Hosts.** The map of each file has the names of its lines, and each family of a name the addresses
those lines give it (`Recorded`); merging the maps of all files and leaving out repetitions
preserves this.

**Messages and replies.** Packing is a sequence of steps that each add no more bytes than were
measured for them beforehand, because a suffix remembered can only shorten a name, and exactly as
many when nothing is remembered (`Adds`). Through questions, bodies, records and sections this
becomes `DataLengthsHold`: what is packed fits the buffer `MaxPackLen` asked for. A record that
does not fit is taken back, so a message meets its limit but for the OPT record, which is packed
after the limit was tested; the properties say by how much. `RepliesIInv` carries at most one OPT
through the building of an answer; the token of the header stays the first one, so the id and the
opcode that are sent are those `resp` was given.

**The round trip of messages.** A packed message is explained by a reading of each of its tokens
(`Explains`): for a token at which a name can start, the name that begins there, the pointers that
lead through it and where it ends; a pointer has the reading of an earlier label. The compression
map is sound when each suffix it remembers is the reading of the label it points to. Every stage
of packing keeps both (`Sound`), only appends tokens, or patches the length of the record it has
just written; so what explains the whole message explains each of its prefixes, and there is only
one such explanation. The loop of `Name.unpack` follows the reading turn by turn (`LabelRead`,
`PtrRead`, `EndRead`), and ends well exactly when the name is not too long and the pointers
are not too many. A record, a section and a message are then read back field by field
(`RRBack`, `SectionsBack`, `WholeBack`): each ends where the packing of it ended. `Hops`, by which
the property says which names are read, is the number of pointers of the reading. What is left out
is told by `cut`: it is never taken back, so when it is not set nothing was left out of any
section, and the OPT record, packed after the others, was the last one anyway (`OptLast`).

### The assumptions

* Connections and callers of the pool, and queries of the servers, are finite sets: sizes of sets
  are compared with limits, and a process has finitely many of each.
* "None" values are not elements of the sets they are used beside; limits are naturals, those that
  the code defaults are positive.
* A query comes from UDP or from a stream (`ServersAssumption`).
* Buffers: the classes end at 256 bytes and at `2^30`, as in the code; sizes asked for are naturals
  (`SizesAssumption`).
* Addresses: IPv4 addresses are mapped to a block inside the IPv6 ones, a prefix is no longer than
  its family's addresses, lines have addresses of a family, which is what `netip` parses
  (`WidthAssumption`, `LinesAssumption`); host lines have a sequence of such addresses
  (`HostsAssumption`).
* Names are sequences of labels, which are numbers as far as their order matters
  (`DomainAssumption`).
* Messages: a label takes at least a byte with its length, limits are naturals, a name may be
  longer than the root's one byte (`NameMax > 1`), and `MinSize`, 512 in `Pack`, leaves room for a
  header (`MessagesAssumption`); requests are messages, the fronts have the parts the handlers
  test, what another message may ask is a sequence of names (`OtherQuestions`), and a record given
  by the router has the body its type reads (`Bodied`), as the fields of each type in `rr.go` see to
  (`RepliesAssumption`).
* Groups of files are non-empty and every loader is in one (`ReloadAssumption`); what a rule holds
  fits its kind (`RulesAssumption`), as the configuration code sees to.

No theorem assumes anything of fairness. TLC evaluates the assumptions in the runs.

### Only model-checked

* Liveness: `WaiterAnswered`, `CloseUnblocks`, `Recovers`, `PingsEnd`, `Converges`, `DialHeard`,
  `QueriesEnd`, `ClosedServersStop`. Liveness under fairness is out of reach of the proof system.

Every other property of a passing run, an invariant, an action property or the safety of a
refinement, is the statement of a theorem.

## 5. Divergences between code and documentation, and slips of the code

Shown by runs:

* `reload_stale`: a failed `FileLoaderGroup` is not discarded, and what its first files staged is
  committed by a later reload that did not load it. `docs/wiki.md:328` promises that changes are
  applied only when everything was loaded.
* `messages_truncated`: `Msg.Pack` promises that a message that met its limit is marked truncated
  (`msg.go:270`). The flag is set in a copy of the header that is not packed, and the counts are
  those from before anything was left out. Smaller records after the first that did not fit are
  still packed.

Stated by a property that does not hold of the model, which no run checks:

* `PickedGetsQid` (`PipelineTransport`): `ConnStatus.Available` promises that a connection
  reported available can take one more request (`connpool/pool.go:37`). `Status` and `Reserve` of
  `pipelineConn` differ by one at the last id, so several callers are given it.
* `RejectedForALimit` (`ServerHandler`): the limit middleware does not take back its count of a
  rejected query, so queries are rejected that meet no limit.
* `ClosedOnceStarted` (`RouterServers`): the router is closed while `Run` still starts servers,
  when one of them fails at once; later closers are never called.
* `IdleRatioRespected` (`ConnPool`): the code restores `MaxIdleBusyRatio` lazily, in `Release`; its
  comment can be read that way, so this is not listed as a finding.

In the model as the code has it: `QuicTransport.getConn` may return nil, and waiters of a dial are
not told when the transport was closed; refused DoH queries are answered with a TCP length before
the message; the last message of a UDP batch is not released; a unix socket is resolved as a host
name; a name of 255 bytes, or compressed through more than ten pointers, is packed but not
unpacked; the target of SRV is compressed against its comment; a `full:` rule narrows an earlier
`domain:` rule of the same name, though `docs/wiki.md:338` lets each rule match what it says.
`MatcherExact` excepts this case, and only this one: a compiled file matches no name its lines do
not list, and matches every listed one but those only such a narrowed line lists. No lock joins
the stamp of an answer (`cache.go:157`) and its write to memory (`cache.go:184`), so a goroutine
overtaken between the two puts an older answer over a newer one; `OlderOnlyOvertaken` says that
this is the only way. The question of an upstream's or a cached message is never compared with the
query's (`router_handle.go:111`, `234-241`) and is sent as it came, so `RepliesMatchRequests` says
nothing of the question of such a reply. `PROJECT.json` lists these and the smaller slips met while
reading, with lines.

## 6. Plan

Done: `ConnPool` and the `StreamPool` it implements, `PipelineTransport` over it,
`UpstreamHealth`, `DataReload`, `ResponseCache` and `RouterHandle`, `QuicTransport`, `ReuseConn`;
the upstream around it with `Bootstrap`, the servers and their refinement of `DnsService`, and the
data modules; theorems about all of these.

Next, in this order:

1. The weighted choice of a balancer as a function, against its weights.
2. An abstract cache, an answer per key with an age, implemented by the two backends of
   `ResponseCache`.

## 7. Not modelled

* The ECS option codec, zone overwrites and the choice of a query's prefix: formats, and one
  lookup that `AddressLists` models.
* The DoH transport keeps no state; connections, retries and concurrency are those of `net/http`
  and quic-go. The same goes for the http and http3 servers but for their messages (`Replies`).
* The reverse lookup middleware: one map in an external cache, written behind answers and read by
  PTR queries; any interleaving is legal by its comment (`rvlookup.go:197`).
* Configuration, command line, logging, metrics, the API server: input and output.
* TLS, socket options and address parsing; presentation formats of names; pools of objects, which
  are `sync.Pool` as they are. Object lifetimes (who releases a message or a query context) are
  local to one goroutine and are left out.
* The eviction policy of the memory cache, replaced by eviction at any time. The clock is one for
  the whole model, so clocks that differ between hosts sharing a redis are not covered.
* `PipelineTransport.DeleteQueue` closes an exhausted connection in the step that finds it
  exhausted, while `deleteQueueC` unlocks in between (`pipeline_conn.go:260-264`). Such a connection
  gives out no more ids, so that nothing but its being closed depends on when that happens.
