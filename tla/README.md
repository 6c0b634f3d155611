# A verification of jkit in TLA+

jkit is a C++ library of fiber-based building blocks: an HTTP server, an HTTP
client with a connection cache, helpers that wait for several fibers, a frame
that runs fibers on several threads, and a database layer. The modules here
model its concurrent parts as state machines and its conversions as functions,
TLC checks them on small instances, and TLAPS proves the safety of all its
concurrent parts, three refinements, and what the conversions of texts, of columns
and to SQL compute, for every value of the constants.

`PROJECT.json` lists the parts of the system, the runs, the source lines behind
each definition, the hazards of the code with the properties that cover them,
and the theorems.

## Inventory

| Part | State | Operations | What makes it hard |
|---|---|---|---|
| `HttpApiServer` (`src/http/http_api_server.*`) | `m_running`, `m_session_number`, `m_threads`, `m_acceptor`, `m_io_cxt` | `start`, `stop`, destructor, the accept fiber, one detached fiber per session | `stop` closes, joins and drains while fibers come and go; a second `start`; accept failures |
| Routing in `HttpApiServer` | the resources and the two default answers | `handle_request`, `call_resource` | exceptions of user code, default and bad answers, when the connection closes |
| HTTP/1.1 cache of `MultiClientHttp` (`src/http/multi_client_http.*`) | `m_h1_conns`, `m_h1s_conns`, `in_use`, `last_use` | both `h1_req`, get, release, delete of connections | expiry, search and insertion are separate critical sections; each step may fail or time out; the clock |
| HTTP/2 cache of `MultiClientHttp` | `m_h2s_conns`, nghttp2 sessions | `h2_req`, `on_connect`, `on_error`, response handlers | connections are shared; callbacks of a failed session race the push |
| `wait_stuff.hpp` | channel, `nchannel::limit_`, `Done`, barrier, futures | `wait_first_*`, `wait_all_*` | a bounded channel that is closed while fibers push; an unsynchronised counter; exceptions |
| `FiberFrameContext` | `m_running`, `m_cnd`, the threads | `init`, `notify_stop`, `wait` | a stop that comes before or during the waits |
| `use_fiber_future` | promise and future of an asynchronous operation | initiation, completion, `get` | completion on another thread, handlers that outlive the frame |
| `DBHelper` (`src/db/soci_pgsql.hpp`) | a pool of sessions | `start`, both `session`, the deleter | a lease blocks a thread with all its fibers |
| Type conversions of `soci_pgsql.hpp` | none | `from_base`, `to_base` | NULL, and what a variable held before |
| `json2sql`, `LUrlParser`, `web_utility` | none | text conversions | boundary cases of parsing |
| logger, `exception_trace`, examples | none that others depend on | - | - |

What must hold: the server counts its sessions, drains before it stops the io
context, loses no wake-up and releases its threads; cached connections are
exclusive (HTTP/1.1), do not leak, and do not multiply; each request returns;
each waiting helper answers what it promises, and ends; a result reaches the
call it belongs to; a session of the database has one user; `notify_stop` ends
`wait`; the conversions lose nothing but what is named.

## Modules

### HttpApiServer, HttpRouting and ServerLifecycle

`HttpApiServer` has one action per step of the owner (`Start`, `StartThread`,
`StopBegin` ... `StopJoinThread`, `Destroy`), of the accept fiber (`AcceptOpen`
... `AcceptCount`), of a session fiber (`SessionStart` ... `SessionEnd`) and of
the environment (`Connect`, `IoAccept`, `IoAcceptFails`, `ThreadExit`). Variables
keep the names of the members. `owner`, `apc` and `session` are the program
counters. A critical section of `m_session_mutex` is one step. An asynchronous
operation of a session and the `get()` that waits for it are one step that needs a
thread inside `m_io_cxt.run()`. The accept operation is split: `stop` may close
the acceptor between its completion and the moment the accept fiber resumes.

`m_running` starts with either value, because the constructor leaves the atomic
uninitialised. `late` is a history variable for the property `DrainBound`.
`terminated` says that an exception has left a fiber or that a joinable thread
was destroyed; both end the process.

`HttpRouting` gives `handle_request` as a function of what the control flow
tells apart in a request: whether its target is an absolute path that can be
parsed, whether a resource matches and its handler throws, and keep-alive.

`ServerLifecycle` is the abstract specification: a server is down, up or
draining, a connection is served once and never while the server is down, and
the drain ends only when no connection is left. `HttpApiServer` implements it
with `mode` taken from the owner's position, `live` from the session fibers that
have not ended and `served` from those that have.

### HttpConnPool and LeasePool

Each element of `Reqs` is a fiber that calls `h1_req` again and again. The two
overloads, for http and https, are the same text apart from TLS; the module has
one set of actions, and the endpoint decides which list and which phases a
request goes through. Where the two copies agree, the map names one of
them. A connection is reused by host and port; neither the certificate nor the timeouts
take part in the search, nor in the model. `End` is the destruction of a
connection whose last pointer is gone: its identity may be used again.

`clock` is `second_clock::local_time()`, which may also go back (`ClockJumps`).
`now_pt` is the local of `delete_timeout_...`, read before the mutex is taken; a
connection that passes the limit between that reading and the search is still
reused, so `ReuseWithinTimeout` measures its age at `now_pt`.

`LeasePool` is the abstract specification: leases are exclusive, and only idle
connections are reused or expire.

### Http2Pool

The same for `h2_req`, for one endpoint. The list is a set: the search takes any
match, where the code takes the first, so every order of the list is included, and
`TypeOK` says that no connection is pushed while it is listed. The session of a connection is connecting, up,
dead (failed, `on_error` still to run) or closed (it has run). `promise` is the
promise of `on_connect`, which `on_error` never fulfils. A connection that
neither the list nor a request refers to takes no part any more (`Forget`).

### WaitChannel and WaitSimple

`WaitChannel` has the helpers that collect results through a bounded channel, one
mode each: `wait_first_value`, `wait_first_outcome`, `wait_first_success`,
`wait_all_values`, `wait_all_until_error` and `wait_all_collect_errors`.
`parallel` says whether several threads run the fibers; then the read and the
write of `limit_` in `nchannel::push` may be torn apart by another fiber (a data
race; the outcomes modelled are those of a separate load and store).

`WaitSimple` has `wait_first_simple` (`Done`), `wait_all_simple` (barrier) and
`wait_all_members` (one future per function).

`MCWaitStuff` is the instance of both: a behaviour is a call of one helper of
either module. The variables of `WaitSimple` have a prefix there, and the other
module stutters in its initial state.

### FiberFuture

The `use_future` token: `use_future`, `create_promise` and `async_result` are the
parts of `Initiate`; `promise_handler_0`, `_1` and `_n`, each in three variants,
say what a completion with a given signature stores; `promise_invoke_and_set` does
so for a packaged function, in two steps (`InvokeFunction`, `SetResult`), since
the caller may run between them. One fiber makes one call after the other, of four
shapes: a plain future, a packaged function with `get`, `HttpCache::resolve` and
`h2_req`, the two that wait with a deadline. `slot` is the local the handler
writes to through a reference. When a call has timed out its frame is gone, and
such a write may land in the frame of a later call or nowhere (`Write`, a
nondeterministic choice). The resolver's destructor cancels the look-up, which
still completes. Allocators and executors other than the own one are left out.

### FiberFrame, DbPool and FiberProcess

In `FiberFrame` `init` starts the threads, each of which waits on the condition
variable, as the caller of `wait` does; `notify_stop` clears `m_running` under the
mutex and notifies after releasing it.

`DbPool` is `DBHelper`: `start` in two kinds of steps (`ResetPool`, and one `Open`
per session, which may throw), `session` with and without a timeout (`Call`,
`Lease`, `TryLeaseFails`), and the deleter (`GiveBack`).

`FiberProcess` composes the two. Each element of `Users` is a fiber that leases a
session, may suspend while it holds it, and gives it back. What connects the two
components is the thread, and this part is external, modelled from Boost.Fiber
and soci as the code uses them:

- a thread runs one fiber until it suspends;
- under `work_stealing` any thread may take a fiber that is ready, but a suspended
  fiber stays attached to its thread and only that thread makes it ready again;
- a thread whose function has returned runs on until nothing is attached to it;
- `soci::connection_pool::lease` and `std::thread::join` block the thread, not
  the fiber.

The composition implements `LeasePool`, the abstract specification of the HTTP
cache, with sessions in place of connections and without reuse.

### UrlParser, WebUtility, JsonSql and SociConversions

Pure functions, one per function of the source. Texts are sequences of character
codes where the code looks at characters. A statement of `JsonSql` is a sequence
of tokens, a JSON value its type and the characters of its dump. Where the code
decrements `end()` of an empty map, a builder has two outcomes, since the unused
iterator may be optimised away: it dies, or goes on. The conversions of
`SociConversions` map a value and an indicator; `Fetch` reads rows one after the
other into one variable. The loops that append to a string or a stream are
`Flatten`. `MCConversions` types the inputs character by character; what it checks of
them, each function against a reference definition, is in `TextProperties` and
`SqlProperties`, which share the variables of `ConversionInputs`.

## Runs

| Run | What it checks | Instance | States |
|---|---|---|---|
| `server_safety` | `SessionCount`, `NoLostWakeup`, `IoOutlivesWaiters`, `StopOutcome`, `DrainBound` | 3 connections, 2 threads, 2 starts, every failure | 79,927 |
| `server_live` | `ImplementsLifecycle`, `StopEnds`, no deadlock | 2 connections, 2 threads, 2 starts, session timeout, no early `stop` | 16,756 |
| `server_close` (violated) | `DeliberateCloseEnds` | 1 connection, no failures | |
| `server_early_stop` (violated) | `CloseEndsAccept` | 1 connection, `stop` before `listen` | |
| `pool_safety` | `InUseMeansHeld`, `PoolBound` | 3 requests, 4 connections, https, clock that goes back | 98,922 |
| `pool_live` | `ImplementsLeasePool`, `ReuseWithinTimeout`, `RequestReturns` | 2 requests, 4 connections, http and https | 432,380 |
| `h2_pool` | `ListSound`, `EntersOnce`, `RequestReturns`, `DeadDropped` | 2 requests, 3 connections | 56,338 |
| `wait_stuff` | `ClosedOnlyWhenFull`, `ChannelAnswers`, `SimpleAnswers`, `CallEnds` | 3 functions, capacity 1, every helper, one thread and several | 31,505 |
| `wait_race` (violated) | `ValuesReturned` | 2 functions, two threads | |
| `future` | `FailureConveyed`, `OwnFrame`, `SatisfiedOnce`, `CallsReturn` | 3 calls of every shape | 227,732 |
| `process` | `NoLostStop`, `PoolLeases`, `StopEndsUnlessBlocked`, `BlockedOnlyWhenStarved` | 3 threads, 3 fibers, 1 session, 1 stopper | 56,156 |
| `conversions` | `UrlRead`, `PercentRoundTrip`, `QueryParameters`, `ValuesRead`, `StatementsRead`, `FetchSeesStored` | every input up to the bounds below | 75,620 |

Several of these are conjunctions whose parts are definitions with comments of their
own: `InUseMeansHeld` has `ExclusiveUse`, `HeldStaysListed` and `NoLeak`, `CallEnds` what
each waiting helper promises of its end. The runs of state machines also check the type invariant of their module. The
three violated runs are the findings below.

What the properties of the newer runs say of the code, beyond that it is right:

- `OwnFrame`: after a timeout in `resolve` or `h2_req`
  a handler may write through a dangling reference; nothing else lets it, and
  a wrong result in a local is always due to such a write.
- `StopEndsUnlessBlocked` and `BlockedOnlyWhenStarved`: `notify_stop` alone does not
  end a process that uses the database. A fiber that is suspended with the last
  session, on a thread where another fiber then calls `session()`, never runs
  again; so it is with a fiber suspended on the main thread once that is in
  `join()`. These are the only ways in which the process stays.
- `PercentRoundTrip`: `encode` does not encode the percent sign, so `decode` takes it
  for an escape whenever two characters follow.
- `ValuesRead`, `StatementsRead`: an array of arrays is no array literal;
  an update without a condition and an upsert that excepts its only member are
  no statements, if the builder survives.
- `FetchSeesStored`: NULL leaves a ptime or json variable as it was, and a ptime loses
  its fraction of a second.

### Bounds

- Three connections let one session end, one be served and one be accepted
  while `stop` is under way. Two threads and two starts are the least for which
  joining a thread again differs from joining a new one.
- Three requests are the least for which two meet in each of the critical
  sections while a third holds a connection. `pool_live` adds the second list,
  with two requests. Identities of connections suffice when a request that needs
  a new one always finds one: a request that searches holds none, so each other
  request and each listed connection needs one. With fewer, `RequestReturns`
  fails in the model because `NewConnect` is blocked by the bound.
- `UnuseTimeout` and `MaxClock` are such that a connection is used at once,
  at the limit, and past it.
- In `wait_stuff` there are more functions than the channel holds.
- Three calls of `future` let the handler of the first, which timed out, write while
  the third uses its result, with one of another shape in between.
- In `process`, one session is the least that is contended, and three fibers on three
  threads let one hold it while one blocks the holder's thread and one waits elsewhere.
  The main thread and two others make join order and stealing matter.
- In `conversions`: five characters after `scheme://` over the delimiters and a
  letter hold every pair of delimiters with text around one of them; four characters
  hold an escape with something before or after it; five characters of a query hold two
  parameters with a value; objects have up to three members over six kinds
  of values, enough for a first, a middle and a last one; three rows
  hold a value, a NULL and another value.

### Deadlock

It is checked where the system must always be able to go on. An early `stop`
may hang, the waiting helpers and the calls of `future` end, a frame nobody stops
waits, and an input is complete at some length; those configurations say so.

### Fairness

Weak fairness of the steps of each fiber and thread: the fiber scheduler runs
ready fibers in turn, and threads are preempted. Deadlines count as steps of
the fiber that set them (`expires_after`, `wait_for`), and `m_io_cxt` runs
handlers that are ready. Nothing is assumed of clients, name servers and peers: a
request that returns, or a `stop` that ends, does so although they stay
silent. `StopEnds` therefore needs `m_timeout # 0`; without it an idle
keep-alive connection may hold `stop` for as long as it likes.

In `FiberProcess` a fiber ends under strong fairness: it may suspend while it holds
its session, but only finitely often, so it gives the session back if
its thread keeps running it. A timed lease times out. Nobody has to call
`notify_stop`; once called, it is carried out.

## Findings

1. `server_close`: `stop` that closes the acceptor while the accept fiber is
   between two accepts makes the next one fail with `bad_descriptor`; only
   `operation_aborted` ends the loop, any other error is thrown out of the fiber
   and ends the process.
2. `server_early_stop`: `stop` right after `start` closes an acceptor that is
   not open yet; the accept fiber then opens it and `stop` waits for ever.
3. `wait_race`: on several threads a lost decrement of `limit_` leaves the
   channel open, and `wait_all_values` waits for a close that does not come.

Besides these, `ThrowsOnlyAfterRestart`, a part of `StopOutcome`, states exactly when `stop` throws: on a
server that was started twice, because `m_threads` is never cleared.

## Proofs

Eight modules hold proofs; each extends what it proves something about. Nothing in
them bounds the number of fibers, threads, connections, functions, calls, rows or
characters. The assumptions are the named `ASSUME`s of the models: sets of actors and
identities are finite and do not contain the value for "none", counts and limits are
naturals, the channel's capacity is at least 1, switches are Booleans, and the order in
which objects are iterated (`NameOrder`) has every name once, the names of the run's
objects among them.
`ConnIds`, `MaxClock`, `MaxStarts` and `MaxCalls` bound the models, not the code; the
theorems hold for every value of them.

| Module | Proved, beyond the types |
|---|---|
| `HttpApiServerProofs` | `SessionCount`, `NoLostWakeup`, `IoOutlivesWaiters`, `StopOutcome`, `DrainBound`, `ImplementsLifecycle` |
| `HttpConnPoolProofs` | `InUseMeansHeld`, `PoolBound`, `ReuseWithinTimeout`, `ImplementsLeasePool` |
| `Http2PoolProofs` | `ListSound`, `EntersOnce` |
| `WaitStuffProofs` | `ClosedOnlyWhenFull`, `ChannelAnswers`, `SimpleAnswers` |
| `FiberProofs` | `SatisfiedOnce`, `FailureConveyed`, `OwnFrame`; `NoLostStop`, `PoolLeases`, and that the leased positions are those the fibers hold |
| `ConversionLemmas` | what `ParseURL`, `parse_target`, `Percent`, `parse_query_string` and `Fetch` compute |
| `StatementLemmas` | what the builders of `JsonSql` say |
| `ConversionsProofs` | `UrlRead`, `PercentRoundTrip`, `QueryParameters`, `FetchSeesStored`, `ValuesRead`, `StatementsRead` |

A proof that a step keeps an invariant goes by cases on the actions; a lemma
`...Step` per part of the invariant holds these cases, and a lemma `NextCases` the list
of actions where quantifiers and nested disjunctions would get in the way.

### HttpApiServer

`IoOutlivesWaiters` is the conjunction of `DrainedBeforeIoStop` and
`WaitersHaveIo`, and `StopOutcome` that of `StopReleasesThreads` and
`ThrowsOnlyAfterRestart`; each part has a theorem of its own. None of the properties
is inductive. `IndInv` adds:

- `PhaseInv`: how the positions of owner, accept fiber and its operation
  constrain each other. Without it nothing excludes an accept fiber that
  spawns a session after `stop` has looked at the counter.
- `CountInv`: the counter is the number of live sessions, less the one the
  accept fiber has spawned and not counted; past the drain there is none, and
  a waiting owner saw a counter that is not zero. The lost wake-up is excluded
  here: while the owner waits, the accept fiber has been joined, so the counter
  is exact, and the last session finds `m_running` false and notifies.
- `ThreadInv` (`LenInv`, `JoinInv`): the first start owns the first
  `ThreadCount` threads, and the index of `stop` is the number joined. It gives both
  `StopReleasesThreads` and `ThrowsOnlyAfterRestart`.
- `LateInv`: a session that has answered after `m_running` was cleared is past
  its last request.

`LiveSpawn`, `LiveEnd` and `LiveGoto` say what an action does to the number of live
sessions. The refinement takes the same invariant: `CountInv` is what makes the end of
the wait in `stop` the abstract `FinishStop`, and `PhaseInv` what keeps a session from
being admitted while the server is down. One lemma each shows that the steps of the
owner, the accept fiber, a session and the environment map to a step or a stutter.

### HttpConnPool

`PoolInv` relates the phase of a request, its `conn_ptr`, the mark and the lists: a
connection being made is unlisted, unmarked and known to one request; one that is used
is listed and marked; one that is marked, or exists outside of the lists, has a request
that refers to it. `InUseMeansHeld` follows. For `PoolBound`, a request makes a
connection only when each one to its endpoint is marked or being made; each of those
has a holder of its own, and the request is not among the holders (`HeldBound`, by
an injection of connections into requests).

`ReuseWithinTimeout` has the hypothesis `~ClockJumps`: with a clock that goes back it
is false, since a request that read the time before the clock went back finds what
is released afterwards older than it is. `AgeInv` says that between its two critical sections a
request has no idle connection in its list too old for the time it read, and that the
clock is never behind a time that was read: what others release meanwhile is younger.

The refinement of `LeasePool` needs `PoolInv` where a step drops or reuses a
connection: what expires or is found is idle because a lease marks it.

### Http2Pool

`HoldInv` says who knows a connection: a request that waits for `on_connect` or is
about to push is alone with an unlisted one; what is listed has connected and has a
session. `EntersOnce` is an action property from it. The bound of `ListSound` (listed
and unlisted connections being made, together, are no more than the requests) is itself
inductive with `HoldInv`, because a request makes one only when it found none.

### WaitChannel and WaitSimple

`CountInv` is the argument about the data race of `nchannel::push`: racing decrements
may lose one another, so `limit_`, and every stale copy a fiber is about to write back,
may be too large but never smaller than the number of functions that have not counted
yet. The channel is therefore never closed too early; that it may stay open is the
finding `wait_race`. `ItemInv` says that a result is pushed and taken at most once and
that a `when_all` helper loses none, `AnswerInv` what the loops have seen when they end;
`ChannelAnswers` follows from the three. `BarrierInv` counts the fibers that have not
arrived. `ChannelPart` shows that a call in the composition `MCWaitStuff` is a behaviour
of `WaitChannel`, so its theorems carry over (`CallChannelCorrect`).

### FiberFuture

`Progress` ties the position of the caller, the phase of an operation, its promise and
the outcome of its call together: a promise is empty exactly until its handler is
through or destroyed, and an operation still under way belongs to the call that waits
or to one that timed out. `SatisfiedOnce` follows. `Errors` adds what each of
the handlers stores for which signature, and `SlotInv` that a handler that has run
within its call has left its result in the local, unless a late one came in between.

### FiberFrame, DbPool and FiberProcess

`NoLostStop` is inductive with the types: a thread that goes to sleep has read
`m_running` under the mutex, and whoever clears it has the notification
still to do. `LeaseInv` says that a position is taken exactly while one fiber holds it.
It is kept whatever the threads do, and with it every step of the composition is a step
of `LeasePool` or a stutter.

### The conversions

`UrlParsed` holds of every sequence of character codes without 0: if `ParseURL` accepts
it, the parts it returns with their delimiters are the text again, up to the case of
the scheme; each part is free of the delimiters it is cut at; and the error for a
missing at sign is never returned. The proof follows the function: one lemma for what
follows the slash (`PathParsed`), one for host and port (`HostParsed`), one for user
and password (`UserParsed`), each about the rest of the text from a position on, and
`Composed` puts them together. `Fetch` is a recursive function over the rows;
`RowsFetched` is proved by an induction on their number.

`PercentUndone` says for which texts `decode` undoes `encode`, and for no other: those in
which no percent sign is followed, once encoded, by two characters. `encode` and `decode`
are loops that append: `AppendsExist` shows that the equation of such a loop has a
solution and `AppendsShift` that a loop over the same text further on appends the same,
so that both can be followed one character at a time. `QueryParsed` rests on
`Reading` and `Collected`, what `parse_query_string` knows after c characters: where the
name and the value it reads began, and that its result is what the pieces which have
ended say.

`UpdatesSay`, `UpdateWhereSays`, `InsertsSay` and `DoUpdateSays` hold of every object and
every list of different columns. Their hypotheses about the data, in `MembersIn` and
`ObjectIn`, are that the names have places in the order of iteration and that literals
carry their tag, which `LiteralTagged` shows for values of every type. They read a
statement as `Reads` does. First the loops: a loop over different items leaves a list of
them (`ListReads`, by an induction from the last item), an object is iterated with every
name once (`NamesOnce`), and the two loops of an insert put a name and its value at the
same position (`OnceOdd`). Then the statement is cut at its words: the text between two
words is what the builder put there because neither word is in a list (`CutMade`,
`AfterMade`, `NoToken`). `InListsSame` compares two ways to write a list for `in`;
`Splitting` is what `boost::split` knows after c characters.

The library's induction theorems cannot be used, since they take an operator; `Induction`
states it for sets and is derived from the well-foundedness of the naturals. The lemmas
of `StatementLemmas` about loops have the principle as a hypothesis, `Inductive`: the
provers get every theorem in scope with every obligation, and the library that
`Induction` needs would slow down all of them. `InductionHolds` discharges it in
`ConversionsProofs`, where the results stand without it. `Counting`, what the lemmas on
`parse_query_string` take of finite sets, is treated alike. For the same reason the facts about
sequences that the two modules of lemmas use are proved in them.

The invariants of `MCConversions` then take an invariant of their own, `TextInv`: a text
typed is a text over its alphabet, and the arguments of the builders stay what was chosen.
The values of the objects stay the six of the run in `ValuesRead` and `StatementsRead`;
`UpdatesSay` and the others above do not depend on them.

### Only model-checked

- All liveness properties (`StopEnds`, `RequestReturns`, `DeadDropped`, `CallEnds`,
  `CallsReturn`, `StopEndsUnlessBlocked`, `BlockedOnlyWhenStarved`): fairness and `ENABLED`
  are out of the prover's reach.
- The three findings, which are counterexamples.

## Not modelled

- In the models of server and caches an asynchronous operation and its `get()` are one
  step of the fiber, except for accept; what a late handler does to the frame of its
  caller is in `FiberFuture` alone.
- The timeouts that reuse overwrites in a shared HTTP/2 connection: the models
  have deadlines but no durations.
- `HttpCache`'s threads, which run from the first use to the end of the process.
- A second `start` of `DBHelper`, which would destroy the sessions in use and make
  their deleters give positions back to the new pool: the class is started once
  (listed as a hazard). The fail-over callback runs inside soci.
- `clParseURL::GetPort`, a range test; its comment calls 0..65535 valid while the code
  refuses 0. `mime_type`, a table. The hash and the comparison of
  `CaseInsensitiveMultimap`: `parse_query_string` inserts and never searches.
- `assign_json_value` and `select_not_in_array`, loops that copy members.
- Quotes inside texts that become SQL: the builders pass them on as they are, and
  the inputs of `conversions` have none.
- A composition of server and frame: `examples/http/server_main.cpp` starts the
  server and never stops it, so that the two do not meet in their shutdown.
- logger, `exception_trace`, examples: no state that others depend on. In
  `client_main.cpp` a session that throws is not counted and `main` waits for ever.
- Empty argument lists of the `wait_*` helpers, which their comments rule out.

## Plan

Every part with a state of its own has a module, and every invariant and action property
of the runs is proved. What is left to model-checking are liveness, which needs another
prover, and the findings.
