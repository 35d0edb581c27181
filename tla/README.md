# foxhttp in TLA+

foxhttp is a C++ HTTP library on Boost.Asio and Boost.Beast: sessions read
requests in coroutines, a middleware pipeline produces the response, helpers
around them route, parse, configure, time and limit.  This directory models its
components, model-checks them on small instances with TLC and proves with TLAPS,
for all instances, nearly every safety property that TLC checks.  Paths in this text are relative
to the repository.

## 1. The system

| component | state | operations | what is hard |
|---|---|---|---|
| `MiddlewareChain` (`src/middleware/middleware_chain.cpp`) | the sorted list of middlewares, timeouts, `active_runs_`, `paused_`; per request a `PipelineExecutionState` with `current_index`, flags and two timers | `use`, `insert`, `remove`, `clear`, setters, `execute`, `execute_async`, `cancel`, `pause`, `resume` | callbacks on any thread, two timers, errors and `cancel` race to finish one run |
| `Session`, `SslSession`, `SessionBase` (`src/server/`) | request, response, `read_abort_`, three timers, `requests_served_` | the coroutine `run`, the timeout handlers | a queued handler can no longer be cancelled; the chain may complete inside the call |
| `await_middleware_chain_async` | a timer that never expires by itself | suspends `run` until the chain completes | the lost wake-up |
| `WsSession`, `WssSession` | buffer, idle timer | accept, echo loop | the idle timer, the buffer between messages |
| `Server`, `SslServer`, `IoContextPool`, `SignalSet` | acceptor, `stopping_`, one thread per `io_context` | accept loop, `stop` | `stop` racing an accept |
| `RouteTable`, `Router`, `Route` | static map by path, dynamic routes in order of specificity | registration, resolution | precedence, methods, normalisation |
| `TimerManager`, `TimerBucket` | tasks by bucket, one timer per bucket | schedule, cancel, stop, process | a mutex taken twice, cancel during a callback |
| `StrandPool` | strands and their statistics, hash ring | five strategies, `resize` | stale indices |
| `ConfigManager`, `ConfigWatcher` | document, snapshot, subscribers, a watcher thread | load, validate, notify, watch | a load seen half way, a failed load not tried again |
| `ConnectionPool`, `HttpClient` | idle connections, two counters; a transfer | acquire, release, clean up; send | counters that wrap around; one outcome per request |
| parsers, rate limit, auth, other middlewares, `RequestContext` | per request, or a counter per key | parse, decide | limits, bodies cut into chunks |

How they interact: `Server` accepts a socket and starts a session; the session
reads a request and hands it to the server's one `MiddlewareChain` with
`execute_async` through `await_middleware_chain_async`; the chain calls the
middlewares, the router's dispatch among them, and calls the completion handler;
the session writes the response and reads again, or hands the socket to a
WebSocket session.  All sessions of a server live on the `io_context` of its
acceptor, which a single thread of the pool runs; middlewares may call back from
threads of their own.

What makes each part correct is in section 3; `PROJECT.json` lists the hazards at
their lines, each with the properties that would catch it.

## 2. Modules

| module | models |
|---|---|
| `MiddlewareChain` | the registry, and runs of `execute` and `execute_async` with arbitrary middlewares |
| `RunOutcome` | the abstract promise of `execute_async`: one answer, kept |
| `Session`, `WsSession` | one HTTP or HTTPS connection, over `RunOutcome`; one WebSocket connection |
| `Connection` | the two composed: a session that hands its socket over on an upgrade |
| `Routing` | `RouteTable`, its routes and their order |
| `Requests` | requests through the library's own middlewares down to the dispatch, over `Routing` |
| `StreamParser` | `MultipartStreamParser` over bodies cut anywhere |
| `Parsers` | forms, queries, cookies, targets, credentials, plain texts, JSON's preprocessing, boundaries and URLs as operators |
| `HttpClient`, `ConnectionPool` | the client library |
| `TimerManager`, `StrandPool` | the services beside the server |
| `ConfigManager` | the configuration, its subscribers and the watcher thread |
| `Shutdown` | `Server` or `SslServer`, `IoContextPool` and `SignalSet` together |
| `MC*` | instances for TLC |
| `MiddlewareChainProofs` | theorems about `MiddlewareChain` |
| `ConnectionProofs`, `RequestsProofs` | theorems about `Connection` with its two sessions, and about `Requests` with `Routing` |
| `ClientProofs`, `ServicesProofs` | theorems about `HttpClient` and `ConnectionPool`, `TimerManager` and `StrandPool` |
| `ConfigProofs`, `ShutdownProofs` | theorems about `ConfigManager` and `Shutdown` |
| `BodiesProofs` | theorems about `StreamParser` and `Parsers` |

`MiddlewareChain` implements `RunOutcome`, and `Session` uses `RunOutcome` in
its place, so the session is checked against everything the chain may do.
`Requests` is the same chain with the middlewares made concrete: none of them
suspends, so a whole run is one call stack, and what is kept instead is what
they do to the response.  `MCServer`, `MCMessages` and `MCLibrary` put
modules that share no state into one run each: a behaviour moves one of them
while the others rest in an initial state, so that nothing is checked of a
combination the code does not have.  `HttpClient` opens its own connections and
does not use `ConnectionPool`; `Shutdown` has its own picture of a session, as
the interleavings within one are those of `Connection`.

Operators that stand next to the one they resemble and describe a wrong variant
("A limit that is off by one") are used by no specification.  They are the
variants of the code that the properties have to tell from the real one.

The model is of the C++20 build with TLS.  The C++17 branches of `session.cpp`,
`ssl_session.cpp`, the WebSocket sessions, the servers and `http_client.cpp` are
left out: they do not compile as written, and in `session.cpp` the request's
context would be a local variable that is gone when the chain calls back.

### MiddlewareChain

Every call of the code belongs to an *owner* of a run: 0 is the call of
`execute` or `execute_async`, `i` the i-th middleware of the snapshot with
everything called from it, `Global` the handler of the global timer.  An index
is popped once per run, so a program counter per owner stands for the call
stack; `ret` and `child` say where an owner goes on when the call it waits for
returns.  The points of the counter are the places where another thread can come
in between: before and after the mutex of a step, around the exchange on
`finished`, before and after a middleware's body, between creating and arming a
timer.

| code | module |
|---|---|
| `use`, `insert`, `remove`, `clear`, setters | `Use`, `Insert`, `Remove`, `Clear`, `SetGlobalTimeout`, `SetIoContext` |
| the snapshot and registration in `execute_async`, `execute` | `ExecuteAsync`, `ExecuteAsyncEmpty`, `Execute`, `ArmGlobalTimer` |
| `execute_next_sync`, `execute_next_async_step` | `StepStops`, `ReadVerdict`, `StepTimesOut`, `StepPops`, `StepReturns`, `SkipMiddleware`, `EnterBody` |
| `Middleware::operator()`, `next`, callbacks | `CallNext`, `SyncReturns`, `SyncThrows`, `AsyncReturns`, `AsyncThrows`, `AsyncCallback` |
| `setup_middleware_timeout` | `SetupMiddlewareTimeout`, `StartWait`, `OnMiddlewareTimeout` |
| `try_finish_run`, `complete_async_run` | `TryFinishRun`, `CompleteRun` |
| `cancel`, `pause`, `resume` | `Cancel`, `CancelRun`, `Pause`, `Resume` |

Abstractions: a middleware is a model value with a priority and two attributes,
asynchronous or not, with a timeout or not; the response's content, statistics,
the error and timeout handlers and `io_context` objects other than "there is
one" are left out.  Timers and clock tests may expire at any time.  Two things
are coarser than the code: `CompleteRun` removes the run and calls back in one
step, and `CancelRun` marks a run and cancels its timers in one step.  Left out:
a middleware that calls its callback twice or throws after calling it, and
exceptions not derived from `std::exception`.

### Session

`pc` is the point at which `run` is suspended, `op` the operation of the socket
that is outstanding, `armed` the timers with a pending wait, and `queue` the
handlers whose operation has completed and which have not run.  Handlers run one
at a time from the front of the queue, each one action, up to the next
suspension.  Cancelling a timer only removes it from `armed`; cancelling the
socket only completes what is outstanding.  A handler that is queued runs, and
that is where the races are.  `async_read` is several reads of the socket, so a
`"more"` completion starts the next one.

| code | module |
|---|---|
| `start`, top of the loop | `Init`, `OnStart`, `StartRead` |
| after `async_handshake` | `OnHandshake` |
| after `async_read`: error, request | `OnReadFailed`, `OnRequest` (`OnReadMore` is inside it) |
| `await_middleware_chain_async` | `OnRequest`, `Completion`, `ChainCompletes`, `OnPosted`, `OnResume` |
| after `async_write` | `OnWritten`, `OnWriteFailed`, `OnReplied` |
| `on_activity`, `on_timeout_*`, handshake timer | `OnActivity`, `OnTimeoutIdle`, `OnTimeoutHeader`, `OnTimeoutHandshake` |
| the destructor | `Leave`; `OnDangling` for handlers that outlive it |

Requests and responses are a version and a Connection field.  The chain is
assumed to leave the response's version alone, as every middleware of the
library does.  `set_limits` on a running session is left out.  The session that
a queued timer handler outlives is destroyed, and what that handler does is
undefined; the model lets it go without effect.

### WsSession and Connection

The same style on a smaller scale: accept, read, write, and an idle timer armed
once.  Messages carry their kind and their contents, so that the echo can be
compared with what was sent.  `Connection` runs `WsSession` on variables of its
own once the HTTP session has reached `"upgraded"`; handlers of the HTTP session
that were queued before still run.  Bytes that the HTTP read took in beyond the
upgrade request are lost in the code, and are not in the model.

### Routing and Requests

A path is the sequence of the pieces between its slashes, so normalisation,
segments and the regular expression of a pattern are operators on sequences.
`std::sort` is not stable: `Sorted` is the set of all orders it may leave.
`routes` is `all_routes_`, which only `clear` empties, and serves as the history
against which resolution is checked.  The dispatch of the examples either has a
router of its own, which knows methods and answers 405, or asks the global one,
which finds only routes for any method; `GlobalRouted` is the set of the chains
that end in the latter.

`Requests` keeps, of one request at a time, the position in the chain, the calls
that have to be unwound (`next()` returns into the middleware that called it),
which middlewares were entered, and the response as a record: who wrote it, its
status, the coding of its body, the Content-Encoding it is labelled with and the
header fields set.  `Ends`, `Calls` and `Unwind` are the two calling conventions:
under `execute` a middleware that does not call `next()` ends the run; under
`execute_async` the default asynchronous operator reports Continue and steps the
run once more.  The limiter's buckets and the clock outlive requests.

| code | module |
|---|---|
| `RouteTable::add_*`, `clear`, `resolve_route_with_method` | `AddStaticRoute`, `AddDynamicRoute`, `Clear`, `Resolve` |
| `execute_next_sync`, the default asynchronous operator | `Enters`, `SkipMiddleware`, `Calls`, `Ends`, `EndOfChain`, `Unwind`, `Finish` |
| the middlewares | `Static`, `BodyParser`, `Auth`, `RateLimit`, `Cors`, `Wraps`, `CompressResponse`, `AfterNext` |
| the examples' router dispatch, with a router of its own or the global one | `Dispatch`, `Found` |

### StreamParser and Parsers

`StreamParser` has the parser's states, its buffer and the position in a body
that a client made from parts; `FeedData(n)` hands over the next `n` symbols.
The body's contents include one that looks like a boundary, one with a line
break and one over the limit.  The code's 100 and 10 are the constants `Slack`
and `Margin`.  `Parsers` translates each pure function and states what it must
compute without scanning: a decoder against an encoder, the two independent
decoders against each other, a list of fields against the pairs that were sent.
The two decoders convert an escape with different library functions, a stream
and `std::stoi`, and so with an operator each (`StreamHex`, `StoiHex`): they pass
over blanks, take signs and stop at a character that is no digit alike, but part
on the prefix `0x`.  JSON is preprocessed under the default settings, which allow
neither comments nor trailing commas.
Its behaviours write a text byte by byte, so every text up to the bound is a
state.

### HttpClient, ConnectionPool, TimerManager, StrandPool

`HttpClient` has one program counter per builder, whose stages are those of the
transfer coroutine; copies of a builder share their `RequestSpec`, `content`
counts changes of it.  `ConnectionPool` keeps both counters modulo `SizeT`.
`TimerManager` has a mutex per bucket as state: whatever is done under it is one
step, except `add_task`, which goes on to lock it again.  `next_expiry_time_` is
never assigned, so this happens for every task with a deadline, and
`process_expired_tasks` is never reached with a task; that is why it is not
modelled.  `update_config` takes any `bucket_count`: `BucketIndex` and `BucketOf` are the
indices `schedule_impl` and `cancel` compute from it, and `Enter` goes on in the
bucket or, where there is none (a division by zero, an index behind `buckets_`),
sets `noBucket`, after which the behaviour is undefined and the model stops.
`StrandPool` keeps strands with identities, so that indices gone stale during a
shrink can be told from the strands they were meant for.  A size may be 0; an
index that the code then computes from nothing is `NoIndex`, and using one sets
`noStrand`.  The weighted strategy that finds no weight calls round robin with
the lock held: it `FallBack`s, and then either goes on (`RoundRobinAgain`) or
waits for ever behind a writer that waits for it (`WaitBehindWriter`); the C++
standard calls it undefined, and which of the two happens is the library's choice.

### ConfigManager

A document is the set of the sections it has and a map from leaves to values.  A
load reads and merges outside the lock (`Load`), swaps under it (`Swap`), copies
the list of subscribers and calls them one by one outside it, reading `document_`
again each time (`Notify`, `CallSubscriber`).  `Merge` returns the file's
document as it is: the defaults of the header are an array, by a misplaced brace,
into which nothing is merged.  A leaf that a section leaves out converts to the
default of the struct it is read into; a value of the wrong type, or a section
that is missing, throws after the swap (`Converts`): on the program's thread the
load fails, on the watcher's thread the process ends (`dead`).  The watcher looks
at the file's time and records it (`Poll`) and reads the file after that
(`WatcherLoads`); the file is edited in between, or at any other moment, by an
environment that may also make it unreadable.

### Shutdown

Context 0 runs the accept loop and the sessions, the next one the signal set; a
context takes one handler at a time (`Take`) and none after `io_context::stop()`.
The signal handler and an application thread both call `Server::stop()` and then
`IoContextPool::stop()`, as the graceful-shutdown example does.  `interrupted` is a
history variable: the requests that were in a handler when a signal was raised.

## 3. Runs

| run | question | instance |
|---|---|---|
| `ChainRun` | Is a run stepped, stopped, answered once and unregistered? `TypeOK`, `CompletionInv` (the inductive invariant of the proofs), `NoLostRun`, `ContinueMeansAllStarted`, `CompletesAtMostOnce`, `RegisteredWhileUnfinished`, `StartedAtMostOnce`, `SyncStopsPipeline`, `ImplementsRunOutcome` | 3 middlewares, the second asynchronous with a timeout, with or without a global timeout, one control call |
| `ChainLive` | Is every run with a global timer completed, and every snapshot in order, while the registry changes? `EveryRunCompletes`, `StartsByPriority` | 2 middlewares, one asynchronous, 3 configuration calls |
| `ServerRun` | Is a connection always watched, a response safe from read timeouts, an aborted read answered, the right response written, a message echoed, and does every connection end? `AlwaysWatched`, `TimeoutsSpareTheResponse`, `PlainAbortedReadAnswered`, `WritesTheAnswer`, `EchoesExactly`, `ConnectionEnds` | plain and TLS, 3 requests of four kinds, limit 2, upgrade with 2 messages |
| | Does `run_blocking` block until it is stopped and then return, and does the accept loop end? `BlocksUntilStopped`, `LoopEnds`, `SignalEndsRun` | 2 contexts, 1 client, 1 accept error, 2 signals |
| `MessageRun` | Does the best route answer, does Allow tell the truth, is a refusal final, the encoding labelled, the security headers kept, the rate bounded? `ResolvesBest`, `AllowIsHonest`, `RefusalIsFinal`, `EncodingIsTrue`, `SecurityKept`, `RateBound` | up to 3 routes, 3 chains, one with the global router, 9 kinds of request, no Brotli, windows of 2 ticks |
| | Is every field found however the body is cut, and do the parsers compute what they should? `FindsEveryField`, `ParsersAreRight` | 2 parts, 5 contents; texts up to 5 bytes over seven alphabets of 5 to 10 bytes |
| | Is a strand index valid and a session kept through growth? `InBounds`, `GrowthKeepsSessions` | sizes 0 to 3, 4 strands made, 3 hashes, 3 strategies, 2 pairs of bounds |
| `LibraryRun` | Is a snapshot whole, do subscribers know the document, is a change loaded? `SnapshotIsWhole`, `SubscribersAgree`, `ChangeIsLoaded` | 2 sections, 2 leaves, 7 files, 2 edits, one load by the program |
| | Is what was started sent, with one outcome, and does it end? `SendsWhatWasStarted`, `OneOutcome`, `EveryRequestEnds` | 2 builders, one edit each |
| | Has a pooled connection one owner? `OneOwner` | 2 connections, 2 hosts, counters of 3 bits |
| | Is a stopped bucket empty, a task found by cancel, and who may block? `StopLeavesNothing`, `CancelFindsTask`, `HeldByItsWaiter` | 2 threads, 2 buckets, 2 tasks, counts of 0, 1, 2 and 3 |

Seven runs show the code disagreeing with what the repository says of it.  Each
is expected to find its property violated; `PROJECT.json` quotes the lines.

| run | what TLC shows |
|---|---|
| `StopDoc` | under `execute_async` an answer given with Stop is replaced: the middleware in front reports Continue and the dispatch is entered |
| `ShutdownDoc` | a request that is in its handler when a signal is raised is never answered: the signal's handler stops the pool before the response is written |
| `TlsTimeoutDoc` | a handshake timer that expires as the handshake completes aborts the first request read; no 408 is sent |
| `MethodsDoc` | example 10 registers GET and POST on one static path; only the last registered is answered, the other gets 405 |
| `WindowDoc` | a "sliding window" limiter of two lets three requests pass within one window's time |
| `CommasDoc` | "remove trailing commas" leaves the one in `,]` |
| `DefaultsDoc` | "defaults used for safe merging" are merged nowhere: a file without a section throws once it was swapped in |

**Conditions in the properties.** Several properties hold only with a condition
that names a known weakness, and say so: `FindsEveryField` excepts a chunk that
ends inside the `--` of the end boundary (the parser then never completes),
bodies that fill the buffer (`flushed`: the tail is lost) and LF line ends (the
name is lost); `SendsWhatWasStarted` and `OneOutcome` except copied builders;
`CancelFindsTask` excepts a change of `bucket_count`; `HeldByItsWaiter` excepts
the thread that adds a task with a deadline; `InBounds` excepts a pool of size 0, and `GrowthKeepsSessions` a
pool that a shrink by stale indices has left with more strands than its size;
`SnapshotIsWhole` excepts a document that does not convert; `SubscribersAgree`
excepts overlapping loads and a load that threw; `ChangeIsLoaded` excepts a file
that cannot be loaded, overlapping loads, and a process that ended in the
watcher; `EveryRunCompletes` is checked without middleware timeouts and control
calls, with which it fails; `ContinueMeansAllStarted` excepts a run that pause
cut short; `RefusalIsFinal` and `EncodingIsTrue` are about `execute`, since
`execute_async` breaks both, and `EncodingIsTrue` excepts the label of a coding
that the build cannot make (`Unmade`); `PlainAbortedReadAnswered` is about plain
connections; `UrlIsRight` excepts authorities with two colons, so IPv6 literals;
`LoopEnds` excepts a context that was stopped first.  Of `ParsersAreRight`,
`DecodingIsRight` lets the two decoders differ on the escape `%0x`, which
`std::stoi` takes for the byte 0 and a stream rejects, and `JsonIsRight` is about
texts without `,]`, which `CommasDoc` shows to stay; that `//` is cut in strings
too is what the code does.

**Bounds.** `MaxLen` bounds the chain and thus the owners of a run: three
middlewares are needed for an outer one, one that is pending and one that is
started too early.  `MaxConfig` and `MaxControl` bound the calls from outside:
three configuration calls make `insert`, `use`, `remove` sequences possible, one
control call may come at any moment of a run.  `MaxReads` is three with a limit
of two, so the request at, before and beyond the limit occurs.  Two messages show
one left in the buffer meeting the next.  Three routes are enough for a static one
over two dynamic ones and for a replaced one.  `MessageRun` is the
default build, without Brotli, in which a request that prefers `br` occurs.  `MaxCalls` is, by the number of
routes, how many requests and ticks of the clock there may be: seven on an empty
table, where two windows of the limiter meet, and one with one route.  Texts of five bytes hold
a percent triple with a separator, `%0x`, two pairs, a repeated name, `a[]=`, a
cut UTF-8 sequence, `h:80/`, `,}` and `,]`.  `ValBits` stands for the width of `int` in base64,
cut to what TLC can compute.  `SizeT` is eight, so that counters wrap within a
few calls.  Three hashes lie between, on and beyond the nodes of three strands, and
four strands may be made, so that a pool that shrank can grow again.  Of the
strategies, `ConsistentHash` is left to `StrandForSession`, which looks up the same,
and `Random` draws below the size as round robin does.  The counts
given to `update_config` divide by zero, lead behind the two buckets, or are
valid.
Two edits and one load make a load overlap an edit and another load.

**Fairness.** `MiddlewareChain`: a thread that has a step to take takes it, an
invoked middleware returns, and the `io_context` dispatches expired waits;
nothing makes an asynchronous middleware call back, or anybody call `execute` or
`cancel`.  `Connection`: the io thread runs what is queued, timers expire, the
kernel ends the operations of a socket that was shut down, and the chain
completes (`ChainLive` shows when it does).  `HttpClient`: the executor runs,
name resolution ends, the stream's deadline ends the other stages.
`ConfigManager`: both threads are scheduled and the watcher polls.  `Shutdown`:
threads run what their contexts hold, and who has begun to stop goes on.  No
client is ever assumed to send, read or leave, and no signal to be raised.

**Deadlock** is not checked: a run that has been answered, a connection that has
ended, a bound that is reached and a stopped server stop.  `NoLostRun` and the
temporal properties say that nothing else does.

## 4. Proofs

Each theorem holds for every value of the constants: any number of runs,
middlewares, threads, requests, routes, builders and strands, any bound.  Most
state a property that a run checks.  The others are of two kinds.  Liveness is
beyond the prover, and `DeadlineIsKept`, `RunIsNeverStranded`,
`EchoIsNeverStranded` and `StopIsCarriedOut` prove its safe half: in every state
what has to happen next has somebody who is about to do it.  And the last eight
state conjuncts of `ParsersAreRight`, which TLC checks up to a length, for texts
over all bytes and of any length.

| theorem | states | for |
|---|---|---|
| `TypeCorrect` | `TypeOK`; with it `current_index` stays within the snapshot | `MiddlewareChain` |
| `CompletionCorrect` | `CompletionInv`, the inductive invariant of the next five | |
| `AnsweredAtMostOnce` | `CompletesAtMostOnce`: the completion callback is called at most once per run | |
| `NoRunIsLost` | `NoLostRun`: a run with nobody left to call has been answered | |
| `RegisteredExactly` | `RegisteredWhileUnfinished`: `active_runs_` holds the runs that are not over | |
| `StartedOnce` | `StartedAtMostOnce`, an action property | |
| `ChainRefinesRunOutcome` | `ImplementsRunOutcome`: every behaviour is one of `RunOutcome` under `Answer` | |
| `DeadlineIsKept` | a run with a global timer, not answered and not cancelled, has the timer before it or is being answered, unless a middleware's timer took its place (half of `EveryRunCompletes`) | |
| `RunsInPriorityOrder` | `StartsByPriority`, an action property | |
| `ContinueIsWhole` | `ContinueMeansAllStarted` | |
| `HaltStopsPipeline` | `SyncStopsPipeline`, an action property | |
| `WritesAreSpared` | `TimeoutsSpareTheResponse` | `Connection` |
| `PlainReadsAnswered` | `PlainAbortedReadAnswered` | |
| `AnswersAreWritten` | `WritesTheAnswer` | |
| `IdleTimerWatches` | `AlwaysWatched` | |
| `EchoIsExact` | `EchoesExactly` | |
| `RunIsNeverStranded`, `EchoIsNeverStranded` | a suspended coroutine has what will resume it (half of `ConnectionEnds`) | |
| `RefusalHasLastWord` | `RefusalIsFinal` | `Requests` |
| `SecurityHeadersSet` | `SecurityKept` | |
| `ContentEncodingTrue` | `EncodingIsTrue`, for every build and whatever compressors fail | |
| `AtMostTwoWindows` | `RateBound` | |
| `ResolutionIsBest`, `AllowNamesHandlers` | `ResolvesBest`, `AllowIsHonest` | |
| `RequestIsFrozen`, `CallbackOnce` | `SendsWhatWasStarted`, `OneOutcome` | `HttpClient` |
| `ConnectionHasOneOwner` | `OneOwner` | `ConnectionPool` |
| `StopClears`, `CancelLooksRight` | `StopLeavesNothing`, `CancelFindsTask` | `TimerManager` |
| `HeldForEver` | `HeldByItsWaiter`: only a task with a deadline blocks a bucket | |
| `StrandsInBounds` | `InBounds` | `StrandPool` |
| `GrowthIsConsistent` | `GrowthKeepsSessions`, an action property | |
| `SnapshotCorrect`, `SubscribersKeepUp` | `SnapshotIsWhole`, `SubscribersAgree` | `ConfigManager` |
| `RunBlockingBlocks` | `BlocksUntilStopped` | `Shutdown` |
| `StopIsCarriedOut` | a closed acceptor releases the loop, and a stop that has begun has a caller who goes on with it (half of `LoopEnds` and `SignalEndsRun`) | |
| `EveryFieldFound` | `FindsEveryField` | `StreamParser` |
| `DecodingIsExact`, `Utf8IsExact` | `DecodingIsRight`, `Utf8IsRight`, for all texts | `Parsers` |
| `TargetIsWhole`, `UrlIsExact` | `TargetIsRight`, `UrlIsRight` | |
| `BoundaryIsExact`, `JsonIsExact` | `BoundaryIsRight`, `JsonIsRight` | |
| `ProcessingIsExact`, `LinesAreExact` | `ProcessingIsRight`, `LinesAreRight` | |

**Assumptions.** The named assumptions of the modules give the constants their
types and are evaluated by every run.  Those that say more: `PriorityAssumption`,
the chain a behaviour begins with is in order, because `mws_` starts empty and
`use` sorts; `RequestsAssumption`, a chain holds no middleware of the library
twice and the limit and its window are not zero; `TimerAssumption`, the manager
is constructed with at least one bucket, which its constructor does not check
(with none, `schedule` divides by zero at once; a later count may be any);
`StrandAssumption`, every strand has a node on the ring, where the code places a
hundred; `"none"` is no builder and no host; `StreamAssumption`, the names of the
fields are none of the symbols that stand for the syntax of a body.  No theorem
has hypotheses of its own beyond these.

**The middleware chain.** *At most once* is not inductive: it says nothing of the
owners that are on their way to `complete_async_run`.  `CompletionInv` adds, for
each run: a run with an empty snapshot (not started yet, or over the empty chain,
which is answered on the spot) has idle owners, no timer and no registration
(`EmptyRun`); `finished` is set exactly by one owner, which then either is at
`"finishing"` or has delivered (`OneFinisher`); a run that is not finished has an
owner that is going to step or complete it, or waits for a callback (`Driven`);
and an owner that was not called is idle and an index beyond `current_index` was
not called (`NotYetCalled`).  The last is what makes the pop of an index its
first start, `Driven` is what `NoRunIsLost` needs, and `OneFinisher` carries both
*at most once* and the refinement.  `MiddlewareChainProofs` splits `TypeOK` into
its parts and proves each kept by every action, then proves a
few lemmas on how an owner may move (`SameView`, `SameFinisher`, `OwnerMoves`,
`OwnerWins`, `OwnerDelivers`, `OwnerPops`), applies them action by action in
`OwnStep`, shows that a step of one run leaves the others alone in `OtherRun`,
and derives the theorems.  The last ones have invariants of their own:
`SortedInv`, `mws_` is in order until `insert` is used; `VerdictInv`, whatever
verdict an owner carries is justified by flags that do not go away between the
two times the code reads them; and `SyncInv`, the calls of a synchronous run are
nested, all but the innermost wait (`Nested`), and once one has halted the run
none is at a place that steps it (`Quiet`).  `DeadlineInv` says who may take a
run's deadline away: the timer is started before anybody else is called, an
index has no timer before it was started (`TimerKept`), and the mark `timed_out`
comes from a middleware timer's handler or from the global one's, which goes on
to complete the run.

**A connection.** The properties hold because of what can be queued behind what.
`SessionInv` therefore says of every handler in the queue that it fits the state
it will run in (`Fits`), and of every two in which order they may be (`Ordered`):
one completion of the socket and one resumption at a time, and no header timeout
behind the posted completion of the chain.  That last clause is the argument the
code relies on when it cancels a timer whose handler may be queued already.
`WsInv` ties the message in the buffer to what was received and echoed.  That no wakeup
is lost (`WillResume`) follows from the same two clauses: a handler leaves the
queue only by running, and when the chain's completion runs, run() has suspended
on the done timer already.

**Requests and routes.** `FlightInv`: only what the index has passed was entered,
a refusal holds the index at the one who refused, and the security headers are
set or their middleware is on the stack.  `EncodingInv`: nothing is compressed
before the first return, and under `execute` nothing is entered after it.
`RateInv`: the times of the requests that passed are in order, the last `count`
of them are the current window, the one `RateMax` places before its first is a
window older (`Windowed`), and so two that have 2 * `RateMax` - 2 between them
are a window apart (`Spread`); the bound follows from the cardinality of an interval of
indices.  `RouteInv`: the static and the dynamic container hold exactly what
`all_routes_` says, in the order of specificity, whichever order an unstable sort
leaves among equals.

**The client.** `ClientInv`: a `RequestSpec` that was not copied belongs to one
builder and is not changed while its transfer runs (`Ownership`, `Transfer`), and
the callbacks made fit the stage (`Outcomes`).  `PoolInv` is `OneOwner` with the
shape of the state.  What `cleanup_pool` keeps is a recursive function over the
queue; that it keeps no connection twice and adds none (`FreshKeeps`) is proved
by a least counterexample, since the library's induction takes an operator.

**The services.** `TimerTypeOK` of `TimerManager` is not inductive without the ids the
calls carry (`CallsName`); `Placed` says a task is where its id says.  `StrandInv`
adds that the ring is the one of the current size and that a shrink by stale
indices leaves at least as many strands; growth is consistent since
the smallest node above a hash is either an old one or one of a new strand, and
smallest nodes exist because the naturals are well-founded (`NatMin`, `PairMin`).

**Configuration and shutdown.** `SnapshotInv` adds that a document waiting for
the lock was validated.  `AgreeInv` says what a subscriber knows while the loop
is on its way: the old value or the new, and the new once it was visited.
`StopInv` adds the work guards and how far each caller of `stop` is.  `CallerInv`
and `StopDriven` add the order in which a caller proceeds: the flag before the
acceptor, the guards before the contexts; and that a signal's handler is not
entered again before its `stop` has returned.

**Bodies.** `StreamInv`: with CRLF line ends and no spoiling cut, the rest and the
buffer are windows of the body (`Window`), and the parser has either thrown a
buffer away (`flushed`) or has read the first `k` parts and waits for more of the
next one (`Good`, `Waits`).  The body is described by the offsets of its parts
(`Layout`), which exist and are unique, so that a round of the parser is an
argument about places: `BoundaryRound`, `HeadersRound` and `ContentRound` say
where it finds what it looks for.  A call of `feed` makes as many rounds as the
buffer holds, and ends since a round that goes on takes something from the buffer.  Where
induction is needed it is over a set of naturals (`Induction`, from the least
element of its complement), since the library's rule takes an operator.

**Whole texts.** The recursive scans are *walks*: at each place something is
put out and some bytes are passed (`Walk`); a walk exists and is unique
(`WalkExists`, `WalkUnique`), so two scans agree if they agree at each place.
What `FlattenSeq` puts together is located by offsets (`FlatAt`), and the bytes
that are kept of a text by a strictly increasing map (`Kept`, `KeptAt`).  The
decoder undoes the encoder since it stands at the beginning of an encoded byte
after each step; a scan for UTF-8 stands between two characters (`CharStep`);
comments are removed from outside a comment to outside the next one (`Outside`,
`CommentsAreRemoved`), and a comma before a brace is one before and after they
are removed (`TrailingStays`).  Normalizing and trimming a text change nothing
about UTF-8 since they keep the bytes that are no white space, and which of them
are neighbours (`Match`, `MatchSame`); the line ends are counted by a bijection
between where they begin and the line feeds that are left (`LinesStayAsMany`).

**Only model-checked.** Liveness (`EveryRunCompletes`, `ConnectionEnds`,
`EveryRequestEnds`, `ChangeIsLoaded`, `LoopEnds`, `SignalEndsRun`), since fairness and `ENABLED` are beyond the prover.  Of
`ParsersAreRight`: forms, cookies and credentials (`FormIsRight`,
`CookiesAreRight`, `CredentialsAreRight`), which are folds and filters that take
an operator, and base64, whose groups are arithmetic with powers of two.

**Worth proving next.** Those three, of which the pieces a text is cut into come
first: forms and cookies are built on them.  The type invariants of the other
modules are proved as parts of the invariants above, not as theorems.

## 5. Weaknesses the models show

Beyond the seven runs above, the models contain these behaviours of the code.
They are stated here because they are not findings of a run of their own, or
because a condition of a property names them.

- A middleware's timeout marks a run as timed out without completing it, and the
  global timer then does nothing (`middleware_chain.cpp:587`).
- The header timer also runs while the body is read, and the body timer is never
  armed (`session.cpp:74`); a timeout between two reads of the socket cancels
  nothing (`session.cpp:252`); the request's Connection field and version do not
  decide whether the connection is kept (`session.cpp:112`).
- A WebSocket connection is shut down `idle_timeout` after the upgrade, however
  busy it is (`ws_session.cpp:26`).
- A static route hides dynamic routes that have the right method
  (`route_table.cpp:139`); of the dynamic ones only the first that matches is asked.
- Under `execute_async` refusals by authentication and the rate limiter do not
  stop the run, and `EncodingIsTrue` fails.
- What the limiter does keep is 2 * `max_requests` - 1 requests within one window's
  time (`RateBound`).
- The default build has no Brotli (`CMakeLists.txt:24`) but offers it
  (`compression_middleware.hpp:17`): the fallback sends gzip, which is labelled
  `br` (`compression_middleware.cpp:115`, `:194`).  A compressor that fails has the
  same effect: a failing Brotli sends gzip labelled `br`, a failing deflate the
  plain body labelled `deflate`.  `MessageRun` contains the first; `Unmade` in
  `EncodingIsTrue` names both.
- The two decoders of URL escapes differ on `%0x` (`form_parser.cpp:222`,
  `request_context.cpp:13`).
- `add_task` locks its own mutex twice (`timer_manager.cpp:131`).
- `total_connections_` is never incremented (`connection_pool.cpp`), so the
  pool's limit does not limit, until the counter wraps and nothing is kept.
- `update_config` of the timers accepts any `bucket_count`: after it, `cancel` may
  miss a task, and both it and `schedule` may divide by zero or look behind the
  buckets (`timer_manager.cpp:312`).
- `resize(0)` is accepted where `min_size` is 0; with a strand left over by stale
  indices the strategies then use an index that does not exist
  (`strand_pool.cpp:154`).  A leftover strand also comes back into use when the
  pool grows, under an index that was another's (`strand_pool.cpp:178`).
- The weighted strategy locks a `shared_mutex` it holds (`strand_pool.cpp:313`).
- A load that throws on conversion leaves `document_` swapped beside the old
  snapshot, and ends the process when the watcher did it; the watcher does not
  try a failed load again; of two loads that overlap, a subscriber may be left
  with the value of the one that lost.
- The built-in YAML loader makes a string of every scalar, so a YAML file that
  sets a number throws on conversion (`config_manager.cpp:34`).
- A repeated accept error that does not go away makes the loop spin
  (`server.cpp:65`).

## 6. Not modelled, and why

- `nlohmann::json`, zlib, Brotli, OpenSSL, `std::regex`, the file system: external.
- `JsonParser::validate_schema`, `MultipartParser::parse_field` and the decoders
  behind it, `ClientOptions`: nothing calls or reads them.
- Static files' path checks and ranges, log lines, metrics and statistics, TLS
  settings, handler interfaces: formatting, options or data that no two requests
  or threads share.
- `TimerBucket::process_expired_tasks`: no task reaches it (see above).
- The typed values of `RequestContext` and header lookups: accessors.
