# A TLA+ development for cweb

cweb is a small web framework in C: a libevent server, routing, sessions, a
static file cache, an asynchronous HTTP client, a template compiler and a
console tool that generates projects; `src/app` is the sample application.  This
directory models the parts of it whose correctness depends on *order*: which
callback runs before which, who still holds a pointer when, and what is left
behind in a table.  TLC checks the models on small instances, and TLAPS proves the
main invariants for every value of the constants.

Everything runs in one thread on one event loop.  Callbacks never overlap, but
several of them share state that outlives each: a response is created in a read
callback, finished in a transfer's callback, sent from a timer callback, and its
connection may disappear in an event callback anywhere in between.  That is what
makes this code hard to test and worth modelling.

## Inventory

| Component | Source (`src/`) | State | Operations | Interacts with |
|---|---|---|---|---|
| Request path | `framework/src/Server/server.c`, `server_pending.c` | bufferevents; list of `pending_response_t`; persistent timer; event base | accept, read, send, disconnect, queue, cancel, timer walk, cleanup | calls parser, router, handlers, timing, leak tracker; called by libevent |
| HTTP messages | `framework/src/Http/http.c`, `include/cweb/http.h` | `Request`, `Response` (state, body, `isliteral`, `async_cancel`) | parse, create, free, headers, serialise | allocated by the request path, finished by handlers |
| Routing | `framework/src/Routing/routing.c` | `routes[128]`, fallback handler, asset functions | add, rewrite, dynamic flags, look up, clear | read by the request path at each request |
| Sessions | `framework/src/Sessions/session.c` | hash table of chained `Session`s | get or create, get/set value, destroy | request path |
| Static files | `framework/src/filecache/*` | `file_cache[1024]`, configuration, cache file on disk | build, save, load, clear, serve from memory or disk, exclude patterns | request path; file system |
| Fetch client | `framework/src/fetch/*` | client (curl multi, timer event), request (easy handle, buffers, callback), socket events | create, execute, cancel, destroy; socket and timer callbacks; JSON view | libcurl, libevent; pages and plugins |
| Request timing | `framework/src/SpeedBench/speed_benchmark.c` | `active_timers[256]`, ring of 2048 samples | start, end, snapshot | keyed by the addresses of requests and of `fetch()` transfers |
| Leak tracker | `framework/src/leak_detector/leakdetect.c` | growing array of records (DEV mode only) | record, release, count, report | called at allocations throughout |
| `/easyfetch` | `app/routes/easyfetch/easyfetch.page.c` | one context per request, cancel hook | handler, transfer callback, cancel | fetch client, request path |
| `/fetch`, `/longtime` | `app/routes/fetch`, `app/routes/longtime` | one static `g_response` each | handler, transfer callback | fetch client, request path |
| `/datahub` | `app/routes/datahub`, `app/plugins/*` | context with a two-operation join; driver of the non-blocking MariaDB client | handler, two completions, cleanup | fetch client, MariaDB client, request path |
| Deferred calls | `framework/src/async/async.c` | none | run a callback at the next tick | event base |
| Compression | `framework/src/compress/*` | none | negotiate, gzip, brotli, minify | `cweb_send_response` |
| Template engine | `framework/src/templatengine/*` | none at run time | lex, parse, generate C | build time |
| Cwagger, path utilities, logger, autofree, mode | `framework/src/*` | a documentation table, a mode flag | registration, strings, printing | start-up |
| Plain pages | `app/routes/*`, `app/templates` | none | GET answered at once; POST mostly left unfinished | request path |
| Console tool | `console/*` | none | create and build projects | file system, compiler |

What makes each correct, and what makes that hard:

* **Request path.** Every response is owned by one entry until it is sent or
  dropped; it is written at most once, on the connection its request came on,
  never on one that was freed; a finished one is settled at the next walk.  Hard:
  disconnects, handler completions and timer ticks come in any order, the list is
  modified during the walk, the shutdown cuts everything short.
* **Handlers that answer later.** The context shared with the transfer's callback
  and the cancel hook is freed once and never used afterwards; exactly one
  completion finishes the response.  Hard: completion before, after and between
  disconnect and tick; operations that never start.
* **Timing and leak tracking.** Both identify what they measure by its address; the
  answers must be about what has the address now.  Hard: requests and transfers
  share the slots, addresses come back, slots run out, the ring wraps, records move.
* **File cache.** The table holds what the configuration allows and the disk had,
  also after a crash during a save.  Hard: partial files, skipped entries, limits.
* **Routing.** A path reaches the route registered for it, before any file.  Hard:
  order of registration, two passes of lookup, flags set after the fact.
* **Fetch client.** One callback per execution, no use of a request or a client
  after it was destroyed.  Hard: transfers end inside calls made for other
  transfers, and a callback may destroy what it is called for.
* **Template compiler.** All content of a template is written, once, in its order
  and inside the loops and branches around it.  Hard: two output functions filled
  by two recursions that must agree on every nesting of styles and branches, and a
  lexer whose two copies of one condition must agree.
* **Datahub.** Two operations, either of which may be refused, and one of which may
  end inside its own start call; the join must fire once, after both.  The driver of
  the query must use the client library by its rules on every path and call back once.

`PROJECT.json` lists every hazard at its line, with the properties that cover it
or the reason why none does yet.

## Modules

| Module | Models | Note |
|---|---|---|
| `RequestService` | the promise of the request path to a client | abstract |
| `ServerPending` | `server.c`, `server_pending.c` | implements `RequestService` |
| `EasyFetch` | `/easyfetch` composed with `ServerPending` | extends it |
| `GlobalResponse` | `/fetch` and `/longtime` composed with `ServerPending` | extends it |
| `AsyncQuery` | the promise of `mariadb_async_query` to its caller | abstract |
| `MariaDriver` | `mariadb_async.c` | implements `AsyncQuery` |
| `Datahub` | `/datahub` and `async_state_machine.c`, composed with `ServerPending` | extends it |
| `FetchClient` | `framework/src/fetch` under libevent and libcurl | |
| `FileCache` | `framework/src/filecache` | state, operations, replies |
| `Routing` | `Routing/routing.c` | state, operations, lookup |
| `Site` | what a server replies to a path | composes `FileCache` and `Routing` |
| `TemplateParser` | `templatengine/parser.c`, `codegen*.c` | recursive functions over a tree |
| `TemplateLexer` | `templatengine/lexer.c` | |
| `SpeedBench`, `LeakTracker` | the two instruments | state and operations only |
| `Instruments` | the request path and `fetch()` driving both instruments | composes them |
| `MC*` | instances for TLC | |
| `*_proofs` | theorems and proofs | |

### ServerPending

State follows the code: `bev` is the set of bufferevents with their life cycle,
`pending` the singly linked list (its head is the *last* element of the sequence,
as `cweb_add_pending_response` pushes in front), `mem` and `state` the
Request/Response pair and its `ResponseState`, `hook` the responses whose
`async_cancel` is set, `timers` the requests that hold a slot of
`active_timers`, `replies` the `bufferevent_write` calls.  Two variables have no
counterpart in memory: `running` (a handler's operation is under way) and `told`
(its hook was called).

Each callback of the loop is one action, except the timer's: `CheckStart` begins a
walk and `CheckFinished`/`CheckUnfinished` each treat one node, with `cursor`
naming it, so that the order in which nodes are unlinked is visible.  All other
callbacks wait while `cursor` is not 0, as they do in the code.

`conn_read_cb` appears as three actions with a common part, one per outcome:
nothing parsed (`ReadUnparsable`), answered at once (`ReadProcessed`: the GET of most
pages, static files and the 404), or queued (`ReadPending`).  The last is
nondeterministic in what the handler left behind: the response's state, whether
it registered a hook, and whether anything is under way that will finish it.
Request identities are handed out in increasing order; the C code has no such
number, and a freed pair's address may come back, which the timing slots can
tell (`AddressReuse`).  Out-of-memory paths of `malloc` in the read callback
are left out, and so are the branches that no call reaches: `cweb_send_response`
is never called with a response that is not PROCESSED, and
`cweb_serialize_response` does not return NULL.

`Stop` is the end of `event_base_dispatch` and the cleanup that follows; the
second cleanup in `cweb_cleanup_server` finds an empty list.

### EasyFetch

Adds the context `github_cb_ctx_t` per request, where `res->body` points and the
flag `isliteral`.  The handler's four outcomes and the callback's are actions
built from those of `ServerPending`; every other step is a server step that leaves
the page's state alone, the cancel hook included: `ctx->cancelled` is membership
in `told`.  Only this page (and the 404) is served in this model, so that what is
proved about it does not lean on what other pages do.

### GlobalResponse

The pages that pass their response through a static variable.  Writing through a
dangling `g_response` is undefined behaviour; the model lets the write be lost or
hit any live response allocated later, which are the outcomes an allocator that
reuses blocks produces.

### MariaDriver

One query, from `mariadb_async_query` to the callback.  `state`, `waiting`, `event`
and `rowCount` are the fields of the context; `caller` tells whether the loop of
`mariadb_async_drive` runs inside the start call or inside the watcher's callback.
The client library is external and has one variable, `lib`: which operation is
suspended, or "confused" once it was started while another was suspended, or
continued when it was not or when nothing had happened.  Each pass of the loop is an
action; an operation may suspend a bounded number of times before it ends, in any
state, with or without error.  Rows are counted, their contents left out.

The result is followed as memory: `memory` has the blocks that are allocated, one for
the column names and one for the values and lengths of each row, and whether each was
freed at most once.  `columns` and `rowCount` are what `ctx->result` describes, and
thereby what `mariadb_result_free` of it frees.  `Finish` is the code's three steps: on
success the result is handed to the callback and `ctx->result` emptied (lines 279-284),
the callback frees what it got (`async_state_machine.c:108`), and the context frees
what it still has (line 267).  A row that cannot be copied (lines 546-563) may leave a
block that `row_count` does not cover yet (`RowFails`).
  A result
set that the library does not return is an error (the client library returns none
for a statement that has columns only with an error set), so the branch at lines
475-476 is not taken.

### Datahub

The state machine of a page is a record with the fields of `AsyncStateMachine` that
decide something, and the functions of `async_state_machine.c` are operators from
one record to the next, so that a start call inside which the callback runs is the
composition of two of them (`StartDb`).  The handler is one of four actions:
no machine was set up, nothing to wait for, waiting, or `ReadFreed`.  The last is the
case in which the transfer was refused and the query ended inside its start call:
the callback has freed the context, and `datahub_page` reads `pending_count` from
it.  What it reads is a choice; the request is put into `undefined` and the
properties of the counter say nothing of it any more.  `FetchEnds` and `DbEnds`
are the two callbacks from the loop.  The module uses of the query exactly what
`AsyncQuery` says: refused, ended at once, or ended later.

### FetchClient

`client` and `request` are the life cycles of the two structs, `executing` and
`cancelled` the requests whose flag is set.  `buffer` is `response_buffer`: of a string of
bytes it is known how many they are, and how many come before the first NUL.  `Copied`
is what `strdup` makes of it, so that `body` and `json`, which are C strings, count the
bytes before a NUL, and `bodySize`, copied from `response_buffer_size`, all of them.
libcurl is
external: `multi` is the content of the multi handles, `ended` the completion
messages that wait, `watched` the sockets with an event.  Any call of
`curl_multi_socket_action` may end transfers of the same client other than the one
it is made for, which is why messages wait for a loop started by someone else.

`fetch_check_multi_info` is cut at the points where the application runs: `Report`
calls the callback, `CallbackReturns` ends it, `EndPass` or `EndPassFreed` is the
rest of the pass.  In between the application may do all it may do elsewhere, and
destroy the request or the client the callback is for.  `EndPassFreed` is then
undefined behaviour: the process dies, or the calls find a handle they refuse.
A use of freed memory is recorded in `touched`.

The application destroys a client only after its requests: all callers do, and
libcurl demands it.  It has no pointer to what `fetch()` made, except in the
callback (`Known`, `Reachable`).

Inside its own callback a request may be cancelled, which clears `is_executing`, and then
executed again.  The rest of the pass takes that new execution out of the multi handle
(`fetch_event.c:126-129`): `lost` has the requests this happened to.  `is_cancelled` is
never reset, so whatever the request executes from then on is passed over (`PassOver`),
counted in `silent`.

### FileCache, Routing, Site

`table` and `count` are `file_cache` and `cache_count`; they are two variables since an
entry that is too large leaves a slot with a name and without data, and is not counted,
so that the last slots of the table are not searched.  `header` and `saved` are the
cache file: missing, cut in its header, or a number of whole entries.  One process after
another starts, with any mode and limit, loads or scans and saves, possibly dies in the
save, and stops; in between files are edited and the cache file is removed.  `main`
initialises the file server once per process, and so does the model.  Names are model
values: one longer than MAX_FILENAME, which loading cuts, is outside the model.  The
scan takes any files in any order, for a file may be unreadable and the table full.

A path is a sequence of segments, with or without a query.  `Routing` has the list
of routes with the five calls that change it; `Found` is the lookup in its two
passes.  `Site` puts the two behind `conn_read_cb`: a handler first, the fallback
included, then static files, then 404.

### TemplateParser, TemplateLexer

The parser is a recursive descent; the model reads a token per action, and `open` is
the stack of the calls that have not returned.  Text, C code and variables are one
kind of token, as the parser and both generators treat them alike.  The tree is
what the code builds; the two generators are recursive functions over it that return
the list of what is written, each with the tags around it.

The lexer is a state machine over symbols instead of characters, with a buffer of a
few symbols.  The look-ahead of at most 100 characters for a variable is left out:
both copies of the condition have it.  `<style>` and `<script>` are one symbol, and
`</cstyle>`, which also ends a style in the look-back of `lexer.c:101`, is not in the
alphabet: `LexerReadsAll` does not depend on which of them ends a style.  The
buffer's last cell, which a tag that fills the buffer would write (`lexer.c:302-308`), is not distinguished.

### Instruments

`SpeedBench` and `LeakTracker` are the two tables with their operations. `Instruments`
drives both over a set of addresses: any free address may be the next one, so address
reuse is the normal case.  A read callback records its buffer and its request and starts
the request's timing; while the handler runs it may call `fetch()`, which starts the
timing of a transfer in the same slots (`fetch.c:48`) and may fail, freeing the transfer
with its slot left behind.  A request's timing ends when it is answered, a transfer's
when `github_apicall` ends it (`easyfetch.page.c:48`, `118`); the callback of
`/longtime` has no such call, which is a transfer that never takes `TransferEnds`.
`fetch()` never frees a transfer it has started, so its address does not come back.  A
sample is abstracted to the request or transfer it measures, which is what decides
whether the history is right.  The leak tracker acts in DEV mode only, so the model is
of a server in that mode; the timing does not depend on it.

## What the runs check

| Run | Instance | Result |
|---|---|---|
| `server_pending` | 2 connections, 3 requests, up to 2 pipelined, 2 timing slots | holds |
| `easyfetch` | 2 connections, 3 requests, 1 unread request each | holds |
| `easyfetch_bodies` | 1 connection, 2 requests | violated, see findings |
| `global_response` | 1 connection, 2 requests | violated, see findings |
| `mariadb_driver` | results of up to 2 rows, operations that suspend up to twice | holds |
| `mariadb_inline` | 1 row, 1 suspension | violated, see findings |
| `datahub` | 2 connections, 2 requests, 1 unread request each | holds |
| `instruments` | 4 addresses, 5 requests and transfers, 2 slots, ring of 2 | holds |
| `fetch_client` | 2 clients, 2 requests, 2 executions of each, bodies of one piece, with or without a NUL | holds |
| `fetch_cleanup` | 1 client, 1 request, 1 execution | violated, see findings |
| `site` | 3 files in 2 editions, table of 2, 2 routes, 7 paths | holds |
| `template` | templates of 6 tokens; inputs of 5 symbols, buffer of 2 | holds |

**server_pending.**  `PendingOwnsLive`: the list owns exactly the live pairs, each
once, so nothing is leaked, freed twice or reached after it was freed.
`NoDanglingBev`: an entry's bufferevent is open and the right one, or the entry is
cancelled.  `HandlerWritesLive`: a handler that finishes later still finds its
response.  `HooksFollowConnections`: hooks belong to unfinished responses of open
connections and are called once.  `SettledRightly`: at most one write, to the
request's own connection, after which the slot is free; an unwritten release has
a reason.  `FinishedIsSettled`: a PROCESSED response is freed eventually.
`ImplementsService`: refinement of `RequestService` with its fairness.

*Bounds.*  Two connections let one disconnect while the other has work in the
same list.  Three requests give a list with a first, a middle and a last node, in
every mixture of finished, unfinished and cancelled; three are also one more than
the timing slots.  Nothing in the code depends on a larger number of either.  The
input buffer holds two requests at most: one read drains it whatever it holds.
`Unfinished` is `{NPROCESSED}`: the request path compares with PROCESSED only, and
the proofs are for any subset of the other states.

*Deadlock.*  The deadlock check is off: the server may stop, and the numbers of
requests and connections are bounded.

*Fairness.*  `WF(CheckStart)`: the timer is `EV_PERSIST` and libevent keeps
activating it while the loop runs (`server_pending.c:95-98`).
`WF(CheckFinished \/ CheckUnfinished)`: a walk that has begun is a `while` loop of
one callback.  Nothing is assumed of clients, of libcurl or of handlers: an
operation may never end.  These conditions give the fairness of the
abstract `Settle`, which is checked by TLC.

**easyfetch.**  `CallbackMemory`: the two callbacks that hold raw pointers never
meet freed memory.  `GoneNeverAnswered`: a client whose handler was told of the
disconnect is never written to, whichever of completion, disconnect and tick came
first.  `CallbackBodies`: after the callback, `isliteral` says where the body lives.

**mariadb_driver.**  `LibraryProtocol`: no operation is started while another is
suspended, none continued without an event, and between two callbacks a live query
has a pending watcher.  `ResultComplete`: success means all the rows, however they
arrived.  `ResultReleased`: no block of the result is freed both by the callback and by
the context, and when the query is over none is left; the exception, which the
property names, is the one block of a row whose copy failed.
`ImplementsQuery`: an accepted query calls back exactly once, and does.  Two rows
distinguish none, the first and a further one; two suspensions, the first and a
repeated wait.  Fairness: `WF(Drive)`, as the loop is in one callback, and
`WF(EventFires)`, since the caller sets all three timeouts
(`datahub.page.c:241-243`), with which the library asks for a time limit on
every wait.

**datahub.**  `AnsweredWithBoth`: the page is rendered once, when both outcomes are
there.  `PendingCounts`: the counter is the number of operations under way for as
long as the response waits, and never zero then.  `OperationMemory`: an
operation's callback finds its context and a response neither freed nor sent,
although the page has no cancel hook and the client may be gone.  `PageSettles`:
a page that does not wait for its transfer is answered or released.  Two requests
suffice, since requests share nothing but the pending list.  Fairness: that of
the timer, and `SF(DbEnds)`: `MariaDriver` shows that a query ends, and the walk of
the timer, several steps here, disables its callback only in between.  None for
the transfer: libcurl's timeouts never reach the event loop (`fetch_core.c:64`), so
a page that waits for its transfer may wait for ever.  `PageSettles` is about the pages
whose caller is told of a refused start; `fetch()` tells nobody (see Observations).

**instruments.**  `HistoryIsRight`: `/speedtest` shows exactly the last timed requests
that were answered and timed transfers that called back, in the order in which they
ended, oldest first, each with its own measurement.  `OneSlotPerKey`: no
key has two slots.  `RequestsTracked`: the records named "Request" are those of the
allocated requests.  Four addresses and two slots let a discarded request leave a
slot behind, its address come back, as that of a transfer too, and the table be full;
five timings let a ring of two fill, wrap and wrap again.

**fetch_client.**  `ExecutingIsInMulti`: the flag and libcurl agree, so that a handle is
never added twice or left behind.  `EventsFindMemory`: whatever may still call back
belongs to a live request of a live client.  `RunsAccountedFor`: each execution is under
way, was reported once, or was silenced by a cancellation, also when messages come from
executions that failed at once or while the messages of another are read.  Two outcomes
are accepted as what the code does: a request that was ever cancelled is passed over for
good, and what a request begins in its own callback after cancelling itself there is
taken away unreported; the property says that there is no third, and at most one of the
second kind for a request.  `FirstRunIsExact`: a request executed once shows its
callback the size of what it received, and as body and JSON its bytes up to the first
NUL; a second execution appends to the first, which nothing forbids and no page does.
`OnlyOwnCallbackHarms`: destroying in one's own callback is the *only* way to a use of
freed memory.  `LoopTakesAll`: a waiting message is taken by the next loop over its
client.  Two requests are one that is called for and one that ends at the same time, on
one client or on two; a second execution shows what the first left behind.  A piece of a
body is one byte of text, or that and a NUL, so that what a string copy keeps and what
the size says may differ.  Fairness: a loop inside one C function goes on, and callbacks
return.

**site.**  `TableFollowsCacheFile`: the table starts with the entries of the cache
file, slot by slot, however the file came to be and whatever the limit is now.
`FileReplyIsOwn`: no file is answered with the contents of another.
`HybridNeverMisses`: what the table lost to a crash, a limit or a hole, the disk
gives.  `RoutesTakeWhatTheyDeclare` and `AddingRoutesIsStable`: which paths
a route takes, and that a new route takes none from another but the path it names.
Three files give a plain one, one that only a prefixed path reaches and an excluded
one; two slots give a hole before a loaded entry and a full table.  No fairness: these
are safety properties.

**template.**  `ContentWrittenOnce`: for every sequence of tokens, well nested or not,
every piece of content is written by exactly one of the two functions, once, in
order.  `NestingAsWritten`: in a well-nested template it is written by the function
its outermost style calls for and inside just the tags around it, where both are read
off the source by counting tags, without the parser.  `LexerReadsAll`: the end of the
input is reported only there, and HTML is cut only by a full buffer.  Six tokens
hold a style in a branch in a loop with content and a second branch; five symbols hold
a style with a brace in it, and runs longer than the buffer.

*Deadlock.*  The check is off in these runs: numbers of executions, tokens and
symbols are bounded, and a server may be left alone.

### Findings

* `/easyfetch` answers a POST with a string literal and `isliteral` 0
  (`easyfetch.page.c:146`), so the literal is passed to `free()`; the same happens
  in `longtime.page.c:32,44` and `datahub.page.c:186,196,210`.
* "Clean up request" in `fetch.page.c:83`, and the same in
  `plugins/fetch/github_fetcher.c:92`, destroys the request (there its client too)
  in its own callback, after which `fetch_check_multi_info` uses both
  (`fetch_event.c:126-128`, `89`).
* `/fetch` and `/longtime` keep their response in one static variable
  (`fetch.page.c:11`, `longtime.page.c:3`): of two overlapping requests one is
  finished twice and the other never.
* `mariadb_async.h:60-61` promises that the callback runs on the event loop;
  a query that ends without waiting calls it from inside `mariadb_async_query`
  (`mariadb_async.c:655`).  `/datahub` then reads a freed context
  (`datahub.page.c:255`).

### Observations

Seen while modelling, and not stated as properties:

* `fetch()` cannot report that it started nothing (`fetch.c:22-57`); `/easyfetch` and
  `/fetch` then leave a response that nobody finishes.
* `speedtest.page.c:18-24`, the POST of the pages `onek` to `twohundredk`, and all of
  `tmplateroute.page.c` return without setting PROCESSED: such a response waits until
  its client leaves.
* A transfer that `fetch()` cannot execute is freed with its timing running
  (`fetch.c:48-53`), which holds a slot until the address is timed again; the callback
  of `/longtime` never ends its timing, and as `fetch()` never frees a transfer it has
  started, that slot is never given back.
* A NUL in a fetched body cuts `response.body`, while `body_size` is that of the whole
  (`fetch_event.c:103-104`).
* A request that cancels itself and executes again in its own callback gets no
  second callback: the end of the pass removes the new execution
  (`fetch_event.c:126-129`).  As `is_cancelled` is never reset, every later execution of
  a request that was cancelled once is passed over (`fetch_request.c:298`,
  `fetch_event.c:96`).
* An execution that fails at once leaves its message for the next event of its client;
  if it is the only one, there is none (`fetch_request.c:288`).
* When a row cannot be copied, what was allocated for it is not freed
  (`mariadb_async.c:546-563`): `row_count` does not cover it yet.
* `fileserver.h:45-46`, `54` and `serve.c:12`, `92` speak of path normalization and of
  serving from memory or from the file system.  Modes MEMORY and FILESYSTEM look the
  whole path of the request up (`serve.c:103-109`), so that `/assets/foo`, which stands
  for `foo`, is found in mode HYBRID only.  `Body` has all three modes.
* The read buffer is recorded as "server.data" and released without the leak
  tracker being told (`server.c:115-120`).
* `CURLMOPT_TIMERFUNCTION` is given a function with the signature of a libevent
  callback (`fetch_core.c:64`); nothing adds `timer_event`, so a transfer without
  socket activity has no timeout.
* `auto_reload` is read by `update_filechache` only, which has no caller: once a cache
  file exists, edits below the static directory are seen when it is removed.
* Excluded files are kept out of the table, but answered from disk in mode HYBRID.
* A fallback handler hides all static files, as it counts as a handler.
* C code longer than the lexer's buffer is cut, and its rest becomes HTML
  (`lexer.c:210`).
* A template that holds an external style only inside an inline one gets a CSS
  function that writes nothing.
* The buffer templates write to is global (`runtime.c:14`): a template called from
  another one empties the buffer of its caller.

## What is proved

The proofs assume only the named assumptions on constants (`ServerAssumption`,
`BenchAssumption`, `InstAssumption`, `DriverAssumption`, `FetchAssumption`,
`CacheAssumption`, `RoutingAssumption`, `LexerAssumption`): any number of connections,
requests, slots, addresses, rows, suspensions, clients, files, editions, routes and
symbols, and any capacity.

**`ServerPending_proofs`.**  `Invariance` is `Spec => []IInv`, where `IInv` is the
conjunction of the checked invariants and `Bookkeeping`.  They are proved together
because each needs others: that `Unlink` keeps the ownership of the rest needs
that no two entries own one response; that `HandlerDone` writes to live memory
needs that only PROCESSED responses are freed, which in turn needs that a running
handler's response is not PROCESSED; that a send goes to an open connection needs
`NoDanglingBev`, kept by `CancelPending`.  `Bookkeeping` says that an identity not
yet in use has left no trace in `told` or `timers`, without which a new request
could inherit them.  There is one lemma per action, and under it one step per
conjunct.  `TypeCorrect`, `OwnershipCorrect`, `NoDanglingBevCorrect`,
`HandlerWritesLiveCorrect`, `HooksCorrect` and `SettledRightlyCorrect` are its parts.
`Refinement` shows that initial states map to initial states and every step to a
step of `RequestService` or a stutter, under `IInv`.  `WalkSettlesAllCorrect` is the
safety part of `FinishedIsSettled`: when a walk of the timer ends, nothing that is
finished is left.  Its invariant, `PassedAreUnfinished`, speaks of the nodes behind the
cursor, whose positions change with every node unlinked (`WalkKeeps`).  What is left
to TLC of `FinishedIsSettled` is that walks begin and go on.  `FreedIsFinalCorrect` is the
action property behind "at most once": no later step touches what was freed.

**`EasyFetch_proofs`.**  Every step of the page is a step of the server
(`PageStepIsServerStep`), so `IInv` is inherited; `PageInv` adds that an allocated
context has no body yet, that running and hooked requests have one, and that a
request whose handler was told has lost its connection.  From it follow
`CallbackMemoryCorrect`, `GoneNeverAnsweredCorrect` and `CallbackBodiesCorrect`.
`PageRefinement` carries `Refinement` over to the page.

**`MariaDriver_proofs`.**  `DriverInv` relates the driver to the library:
`waiting_for_io` holds exactly while the operation of the present state is suspended,
a suspended operation is resumed only from an event, and a state up to
STORING_RESULT has no row yet.  `LibraryProtocol` alone is not inductive, since it
says nothing of the driver while the loop runs.  `ResultCompleteCorrect` needs that
FINISHED is reached with all rows or without a result set.  `ResultReleasedCorrect` needs
that the allocated blocks are those the context describes at every step, but for the
one of a row that failed, which is there in state ERROR only: then handing over,
emptying and freeing leave nothing and free nothing twice.  `QueryRefinement` maps
the phases of a query to `AsyncQuery`.

**`Datahub_proofs`.**  The page's steps are steps of the server or stutter
(`HubStepIsServerStep`), so `IInv` holds.  `StartedWorks` goes through the ten ways
the two start calls can go; `CallbackWorks` shows that a callback completes the page
exactly when it is the last.  `HubInv` ties the counter to the cardinality of the
operations under way, and these to the server's `running`; `OneRequest` lets each
step be looked at for its own request only.  `HubRefinement` carries `Refinement` over
to this page.

**`Instruments_proofs`.**  `HistoryIsRight` speaks of the snapshot only and is not
inductive: when the ring is full, the next write goes over a cell and the property says
nothing of where the others are.  `RingHolds` says where each element of the log is,
before and after the ring has wrapped; `RingStep` shows one more measurement keeps it,
`RingReads` that the snapshot reads the log's tail. `SlotsCurrent` says that a slot
keyed by the address of a live request or transfer holds *its* measurement, which is why
a slot left behind by a discarded request or a failed `fetch()` does no harm.
`TimedHaveSlots` says that whatever runs has a slot exactly if it got one at its start,
so that the log has an entry when the ring has.  `TrackWorks` and `UntrackWorks` are the
corresponding facts about the tracker's array.

**`FetchClient_proofs`.**  The invariant adds to the checked properties what the loop
needs: while messages are read the client is live or was destroyed by the callback
that runs, the current request is the one whose callback was called, and a handle is in
the multi handle only while its request is live.  The last is why a destroyed request
leaves no event behind (`Remove`), and why `touched` can only grow by what is in
`killed`.  `RunsAccountedFor` needs that an ended transfer is still in the multi handle
until its pass ends, and that the request being reported is still there too, unless it
was cancelled in its callback and has begun nothing since.

**`Site_proofs`.**  `FirstWorks` shows that the first of a set of positions is one of
them, by the least number of the set; all facts about lookups rest on it.
`LoadedWorks`, `ScannedWorks` and `SavesWorks` say what loading, scanning and a save
cut anywhere do to table and file.  The invariant says of every slot with data, and of
every entry saved, that the data are of the file it is named for: `FileReplyIsOwn`
follows since the reply's name is the name that was looked up.

**`Template_proofs`.**  Nothing is assumed of `MaxTokens`: the theorems hold for
templates of any length and nesting, a stray or missing tag included where the property
allows it. The two properties compare what recursive functions over a tree list with a
reading of the source, so the proof has three parts.

*The functions.*  `RecursionWorks` shows that a recursive function with the step of the
code exists: a node's children have greater numbers, so that it can be put together
from `Len(nodes)` down.  `PageOuts` and
`CssOuts` then say without recursion what a node outputs: which texts of its subtree,
each under which tags of the path to it.  `FunctionsList` shows that the functions list
just that, in order.  It needs that the subtrees of the children follow one another, that
a condition's second branch comes last, and that what `Pruned` leaves out has no text that
would be written, which is where the two recursions of the code must agree.

*The tree.*  `ContentWrittenOnce` says nothing of how the tree came about and is not
inductive.  `TreeInv` is: nodes are in preorder and a condition's second branch is its
last child (`Tree`), each token that makes a node has one (`Recorded`), the open calls are
the path to the current node (`OpenPath`), and a condition that has its second branch is
open for that branch only (`SecondBranches`).
`TreeInvariant` proves it for every sequence of tokens, well nested or not, and
`ContentWritten` follows.

*The nesting.*  `Enclosing` counts tags and never looks at the tree.  `NestInv` says that
in a template without a misplaced tag so far the tags counted around a token are those
on the path to its node, the second branches left aside.  `ReadToken` is its step: one more
token opens a tag, closes the innermost one, or leaves all as they were; `NothingSkipped`
shows that the parser drops none of them.  `NestingWritten` compares the
tags of a path with `Wrapping`, where most of the work is in which condition a `<celse>`
belongs to.

*The lexer.*  `LexerReadsAll` is not inductive: that the next token is not an end of
input in the middle depends on why the last one ended.  `LastToken` adds where it ended
and, for HTML, the reason.  `HtmlStops` needs that the condition that ends a run of HTML
and the one that starts a token agree, and that the buffer holds a symbol.

**Only model-checked.**  The liveness properties: `FinishedIsSettled` and `PageSettles`,
`LoopTakesAll`, and the fairness part of `ImplementsService` and `ImplementsQuery`,
since the proof system does not handle ENABLED.  Its induction theorems take an operator
as a parameter and cannot be used either; where an induction over numbers is needed,
the proofs take the least or the greatest counterexample instead (`LeastElement`,
`GreatestElement`).  The four runs that end in a violation have nothing to prove.  The type
invariants are proved and not listed in the runs.

## Plan

In this order, the most important behaviour first.

1. *Done*: `RequestService`, `ServerPending`, `EasyFetch`, `GlobalResponse`,
   `SpeedBench`, `LeakTracker`, `Instruments`, and their proofs.
2. *Done*: `AsyncQuery`, `MariaDriver`, `Datahub` and their proofs.  The join has no
   abstract module of its own; `AnsweredWithBoth` and `PendingCounts` state it.
3. *Done*: `FetchClient` and its proofs.
4. *Done*: `FileCache`, `Routing`, `Site` and their proofs.  There is no abstract map
   from paths to contents: `FileReplyIsOwn` and `HybridNeverMisses` say what such a map
   would, of the files of all modes and of the paths of HYBRID.
5. *Done*: `TemplateParser`, `TemplateLexer` and their proofs, the pure part of the
   repository in which two recursions must agree.

Left for later: an abstract statement of what the fetch client owes its caller, with
`FetchClient` shown to implement it while no callback destroys what it is called for;
and request parsing and the other text functions against reference definitions.

## Not modelled

* **Sessions.**  No request reaches the store: `using_session` of a new request is 0,
  `conn_read_cb` tests it before the route lookup (`server.c:134`), and the lookup
  copies the request's value into the route instead of the reverse (`routing.c:156`).
  A model would be of code that does not run.
* **HTTP text.**  Parsing a request and serialising a response are sequential
  processing of one message; their outcomes are choices of `ServerPending`.
* **Compression and minification.**  Pure functions of one body around zlib and brotli.
* **Templates at run time, signatures, the list of forbidden C calls**: text copied
  or compared.
* **Fetch requests' contents** (headers, fields, query, options) and the JSON helpers:
  setters and conversions that decide nothing of the life cycle.
* **A second initialisation of the file server, `update_filechache`, runtime
  excludes, `cweb_async`, `cweb_shutdown_speedbench`**: no caller in the repository.
* **Cwagger, logger, console tool, benchmark generator**: they print or write files,
  sequentially and without shared state.
* Sockets below bufferevents, libcurl and the MariaDB client below their callbacks, and
  the file system's reordering of writes after a power failure, are external.
