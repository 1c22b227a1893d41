# TLA+ specifications of yeti-lnp-resolver

yeti-lnp-resolver answers number-portability (LNP) and caller-name (CNAM)
lookups. A client sends a UDP datagram that names a database id; the resolver
sends a provisional reply at once, asks the driver configured for that id (an
in-memory CSV table, a SIP redirect server or an HTTP service), sends the final
reply and stores tagged results in a PostgreSQL cache. This directory models
that program from its source, checks the models with TLC and proves, with TLAPS
and for every instance, every safety property that does not speak of recursive
data: the invariants of seven of the eight state machines, and the datagrams,
addresses and text formats.

## The system: inventory

| Part | Source (under `src/`) | State | Operations | Interacts with |
|---|---|---|---|---|
| Resolver | `src/resolver/Resolver.cpp` | `mDriversMap`, `waiting_requests` | `on_data_received`, `resolve`, `make_http_request`, `on_http_response_received`, `parse_response`, `configure`, replies | called by Transport and AsyncHttpClient on the dispatcher thread, by the SIGHUP handler on any thread; calls drivers, cache, exporter |
| AsyncHttpClient | `src/drivers/modules/AsyncHttpClient.cpp` | libcurl multi handle, sockets, timer, `response_queue`, an eventfd | `make_request`, `check_multi_info`, timer, socket and notifier handlers | libcurl callbacks, dispatcher; hands responses to Resolver |
| Drivers | `src/drivers/*.cpp` | their configuration row | `resolve`, `parse` | Resolver, SIP client, CSV client, HTTP |
| Driver configuration | `src/drivers/DriverConfig.cpp` | the detected table format | `getID`, getters | `loadResolveDrivers` |
| SIP client | `src/drivers/modules/SipClient.cpp` | libre stack, one session | `perform`, reply and close handlers | blocks the dispatcher thread |
| CSV client | `src/drivers/modules/CsvClient.cpp` | a hash of rows | `load`, `perform` | CSV driver |
| Cache writer | `src/cache.cpp`, `src/thread.*` | queue, two conditions, a connection | `sync`, `run`, `on_stop` | dispatcher thread, writer thread, signal handler |
| Dispatcher | `src/dispatcher/*.cpp` | epoll set, terminator | `loop`, `stop`, `link`, `unlink` | every event handler |
| Transport | `src/transport/Transport.cpp` | UDP sockets | `recv_data`, `send_data` | dispatcher, Resolver |
| Signals, start-up | `src/sig.cpp`, `src/yeti_lnp_resolver.cpp` | | `sig_handler`, `main` | everything |
| Prometheus exporter | `src/statistics/prometheus` | counters, static labels | increments, `driver_init_metrics`, `label_func` | drivers, configuration file |
| Configuration file | `src/cfg_reader.cpp`, `third/confuse/src/confuse.c` | the options and their values | `load_cfg`, `cfg_parse` | start-up; calls `label_func` while it reads |
| JSON | `src/libs/cJSON.c`, `src/libs/jsonxx.*`, `src/drivers/JsonHelpers.cpp` | items in linked lists | parse, print, the tree interface, casts | drivers and their configuration |
| URI helper | `src/libs/uri_parser.c` | | `parseAddr` | Transport |
| Logging | `src/log.cpp` | the level | printing | everything |

What is hard here:

* **Who an answer belongs to.** Requests, transfers and responses are matched
  by a 32-bit id that each client picks for itself. Retransmissions and clients
  that use the same number put several lookups under one id.
* **A lookup spans two handlers.** Between `make_http_request` and
  `parse_response` a SIGHUP may replace or remove the driver.
* **Half-done set-up.** The request is stored before the transfer is started;
  if that fails, in either of two ways, the entry stays.
* **Notification and drain.** Completed transfers are queued and announced
  through an eventfd that is read once for the whole queue.
* **Three threads around the cache queue**, with a condition that is set and
  cleared under different locks, and a database that comes and goes.
* **Stopping**: `stop()` waits for a thread while holding a mutex.
* **Signal handlers that take locks.**
* **Tables and files of several formats.** The format of the driver table is
  detected once per process, rows are read by five different rules for cells
  that are missing, empty or of another type, and static data survives a load
  that failed.
* **Text handled by position and size**: lengths that must not wrap, buffers
  sized before what goes into them is known, parsers in which one token ends
  two things.

Every one of these has entries under `hazards` in `PROJECT.json`, at the line
where it bites, with the properties that cover it.

## Modules

| Module | Models | Kind |
|---|---|---|
| `Resolver` | Resolver, the request path through drivers and AsyncHttpClient, SIGHUP | specification |
| `MCResolver`, `Resolver_*.cfg` | small instances | model checking |
| `ResolverProofs` | theorems about `Resolver` | proofs |
| `CacheWriter` | `lnp_cache`, the writer thread, its start and stop | specification |
| `MCCacheWriter`, `CacheWriter_*.cfg` | small instances | model checking |
| `CacheWriterProofs` | theorems about `CacheWriter` | proofs |
| `HttpService` | what Resolver relies on in AsyncHttpClient and the loop | abstract specification |
| `EventLoop` | Dispatcher, EventHandler, LoopTerminator, AsyncHttpClient's sockets, timer and notifier; libcurl external | specification, implements `HttpService` |
| `MCEventLoop`, `EventLoop_*.cfg` | small instances | model checking |
| `EventLoopProofs` | theorems about `EventLoop`, the safety part of its refinement | proofs |
| `Signals`, `Signals_*.cfg` | `sig_handler` on any thread, and the mutexes of the program that it meets | specification |
| `SignalsProofs` | the order of the locks | proofs |
| `SipClient`, `SipClient_calls.cfg` | `CSipClient`: its one instance and its calls; libre external | specification |
| `SipClientProofs` | theorems about `SipClient` | proofs |
| `DriverConfig` | `CDriverCfg`, the drivers' constructors, `loadResolveDrivers`, `configure`, the exporter's series | specification |
| `MCDriverConfig`, `DriverConfig_loads.cfg` | tables with one bad cell | model checking |
| `DriverConfigProofs` | theorems about `DriverConfig`, for every table | proofs |
| `ConfigFile` | libConfuse's parser as `load_cfg` uses it, `label_func`, `load_cfg` | specification |
| `ConfigGrammar` | the grammar and the meaning of a file, as recursive functions | reference for `ConfigFile` |
| `MCConfigFile`, `ConfigFile_files.cfg` | one option of each kind | model checking |
| `ConfigFileProofs` | theorems about `ConfigFile`, for every file and set of options | proofs |
| `JsonForest` | ordered trees of items | abstract specification |
| `JsonTree` | cJSON's items: allocation, links, references, copies, deletion | specification, implements `JsonForest` |
| `MCJsonTree`, `JsonTree_ops.cfg` | small instance | model checking |
| `JsonText` | cJSON's parser and printer | functions |
| `Inputs` | the one input of a behaviour of the next two | shared state |
| `Wire` | datagrams, listening addresses, and what is promised of them | functions |
| `Formats` | the loops that read CSV files, URL templates and operator maps, and what is promised of them | specification |
| `Codecs`, `Codecs_inputs.cfg` | small inputs for the last three, and the reference definitions for JSON | model checking |
| `CodecsProofs` | theorems about `Wire` and `Formats`, for every input | proofs |

`Resolver` takes a transfer for granted that ends once; `EventLoop` shows, by
refinement of `HttpService`, that the loop and libcurl's callbacks deliver it.
`CacheWriter` has the writer's own interleavings, `Signals` the lock order of
all threads together, with the writer reduced to the locks it takes.
`DriverConfig` is the inside of the step `configure` of `Resolver`: its
`LoadIsTheTable` justifies that a load there replaces the whole map or changes
nothing. `Wire` is the inside of "well or badly framed", `JsonTree` and
`JsonText` that of the outcomes of the drivers' `parse`.

### Resolver

All handlers run on the dispatcher thread, so each branch of a handler is one
action: `on_data_received` has one action for each way out of `parse`,
`resolve` and `make_request`; `on_http_response_received` one for each way out
of `parse_response`. The loop over the response queue is cut between two
responses, because SIGHUP may be handled there by another thread; while it runs
(`draining`) no other handler does. `configure` may happen between any two
steps and replaces the whole map; a load that fails changes nothing and is a
stuttering step.

State. `mDriversMap` and `waiting_requests` are the members of that name;
`waiting_requests[i]` is the request stored under id `i`, named by its
*receipt* (the position of its datagram in `received`), 0 for none.
`transfers` is what libcurl runs, `response_queue`, `notified` (the eventfd is
readable) and `draining` are AsyncHttpClient's. `received`, `provisional`,
`finals`, `synced` and the three counters record what the program did to the
outside; no guard reads them, except the bound `MaxRecv` on `received`. A final
reply records the receipt it is sent to (`req`) and the receipt whose arrival
or response caused it (`cause`): the program itself cannot tell these apart,
and the properties are about when they differ.

Abstractions. A datagram is a record with one field for how it is framed. A
driver is its class, its type and whether it has a timeout; its `resolve` and
`parse` are the sets of outcomes the code allows. What a response says is
"an answer its own driver accepts", "a body its own driver rejects" or "a
transport error"; a body given to another class of driver may be accepted or
rejected. The SIP call blocks the dispatcher and is part of one step. The
reply to a request of type −1 (a datagram below the common header) is, as in
the code, no reply.

### CacheWriter

Steps are cut where a lock or a condition is released. `sync()` is two steps
(push under `q_m`; `q_run.set`). `run()` is cut at the wait, the test of
`gotostop`, the check of the connection, the renewal, the queue, the update.
`stop()` is cut at the lock of `_m_td`, the flag, the wake-up and the wait. The
connection is `null`, `ready`, `unprepared` (an exception other than
`broken_connection` and `undefined_function` left it without its statement) or
`freed` (the pointer is not NULL but the object is deleted). Using a freed
connection leads to the state `undefined`. An exception that leaves the thread
ends the process (`aborted`). The database goes down and comes back at any
time; libpqxx reopens a lost connection when it is used again, so a check or an
update fails exactly when the database is down at that moment, or, for an
update, on an SQL error; on an `unprepared` connection the server refuses the
update, which fails like any other.

### EventLoop and HttpService

`epoll_wait` picks a `batch`; the events of a batch are handled one by one, in
any order. Between two of them an earlier handler may have unlinked a
descriptor, reused its number, set the timer again or ended the loop, so
`is_can_handle` is evaluated when an event's turn comes. `events_map` is both
AsyncHttpClient's map and the epoll set; `watch` is what libcurl asked for. The
timer is off, armed or expired and not read; `told` is the timeout libcurl last
announced, because libcurl calls `timer_cb` only when that changes.
libcurl asks for reading, writing or both (`CURL_POLL_INOUT`), within `Asked[f]`
for socket `f`. For the sockets of `LinkFault`, `EPOLL_CTL_ADD` and
`EPOLL_CTL_MOD` may fail at any time. The result is not looked at, so a socket
is then missing from the epoll set or keeps its old events; `refused` is the
set of sockets whose last `epoll_ctl` failed, and `SocketsFollowCurl` is exact
for all others. `CurlFault` makes `curl_multi_socket_action` fail. `EBADF` from
`recvfrom` ends the loop, other errors of it change nothing. A transfer of libcurl is modelled by what the
program can see of it: it goes on with a socket or ends, when its socket has an
event or its time has come. Datagrams come at any time and may add a transfer.

`HttpService` has only: a submitted transfer is answered at most once, and a
timed one is answered unless the loop ends or a timeout was lost. The mapping is
`idle`/`pending`/`answered` from `transfer`, `ended` from `stop` and `broken`
from `broken`, a history variable set where `curl_multi_socket_action` fails
for a timer that was already read (`AsyncHttpClient.cpp:425`): from then on a
transfer without socket events may wait for ever.

### Signals

A thread is a stack of frames, each the list of operations on locks and
conditions that is left to do; a handler is a frame on top of what it
interrupts. The fifteen locks are the mutexes of the singletons' instances, of
the driver map, of the exporter and of its metric families (`family_m` stands
for the four, never held two at a time), of the SIP client's instance and of
its thread's start, of the writer, of its queue and of its conditions. A load
goes row by row: each driver made has its metrics set up, the first SIP driver
starts the client, and the load may fail at any row, which leaves the map alone
(at start-up, it ends `main`). Metrics are served by a library's thread at any
time. `AtRest` restricts delivery to threads that wait for events and hold
nothing; without it a signal may interrupt any step. `signal()` blocks only the
signal being handled, so SIGINT may nest in SIGTERM. Signals are sent once the
loop has begun: before that, `Dispatcher::stop` has no terminator.

### SipClient

`perform` is cut at the wait; `sipsess_connect` may fail at any time, and then
it throws. The close handler is cut between its two writes into the reply
buffer. The buffers of successive calls are the same piece of stack. A
handler that is running when `perform` returns is recorded in `overtaken`.
`getInstance` stores the instance before it initializes it; `InitFault` lets
the initialization fail before the session socket exists or before the main
loop runs, and `no_socket` or `no_loop` is what later calls find.

### DriverConfig

A load is `exec` (or `exec_fails`), one `load_row` for each row, `configure`.
A row is the state of its cells, and all good cells of a row hold the row's own
value, so that a driver made of foreign cells shows. `instantiate` and the
constructors are operators that give a driver or `Throw`; `as_string`,
`as_number`, `item_string`, `item_number` and `getJsonValueByKey` are the five
ways the code reads a cell, each with its own idea of what is missing or of
another type. Numbers are reduced modulo `PortMod` and `TimeoutMod`, the widths
of `uint16_t` and `uint32_t` scaled down. A type whose number is outside
`uint16_t` throws in `getID` and ends the load (`bad_id`; `Numbered` says
that a table has none). A type that is not in the list leaves
`find_if` at the end of the array, which is dereferenced: the identifier is then
any. `restart` is the end of the process and its next start, which is what
resets the static variables. `TableAssumption` says what a row of
`load_lnp_databases()` is: a text column holds a text, an empty one or NULL, a
number fits its type where its cell is good; every other cell may be anything.

### ConfigFile

One action for each state of `cfg_parse_internal`, on a stack of its
activations; a file is a sequence of tokens that TLC chooses one by one. A name
is a path of any length through the sections (`cfg_getopt`). A number is kept
as a `long` and narrowed where the code narrows it (`to_int` for the log level,
then clamped). `convertible` needs no `errno`: the scanner clears it before it
fills its buffer, and a number that sets it to `ERANGE` ends the parsing. The
values of the options and `CFGF_RESET` are as in the code. The history variable
`seen`, which no guard reads, keeps beside each token the activation that read
it, so that the properties can say what the file gives an option without
reading the file a second time: `Assigned(k)` are the positions of the
assignments to `k`, `Given(k)` those of the values behind the last one, and
`HasItsValues(k)` says that the option has its default, if it was never
assigned, followed by the values given, in their order. `OptsAssumption` is what
`cfg_reader.cpp` declares: sections only in the root, at most one default for an
option that is no list. `LevelAssumption` says that the levels fit an `int`.

`ConfigGrammar` is a second, independent reference: `Body` reads the same tokens
as a grammar, by recursion over statements instead of states, and `Applied`
gives an option its meaning from the list of statements. Both compare the
options' values after every statement, not only at the end of the file.

### JsonTree and JsonForest

One action per function of the interface; the memory is one value that every
function takes and gives back, so that a function that calls others is one
step. `left` lets any allocation of a call fail. The caller is one that uses
the library as documented: it adds items it owns and does not change a list
through a reference. `lost` records what nobody can free any more. References
(`cJSON_AddItemReferenceToObject`, as the CNAM driver uses it) share children
and the text of a string (`shared` names the item whose text it is);
`EverythingOwnedOnce` says that deletion is still exact. Copies and comparisons
are claimed to be right only for what holds no reference to something freed,
which the code would read. The refinement maps an item to the sequence of its
children along `next`; an insert may go to any place in `JsonForest`, so the
position it takes is not part of what `ImplementsForest` shows.

### JsonText, Wire, Formats and Codecs

`JsonText` and `Wire` are functions from the text or lengths the code is given
to what it does with them: offsets, bytes written and allocated included. The
three formats of the drivers are read by loops, and `Formats` has a step for
each turn of the loop (a line or a field of a CSV file, a character of a URL
template, a member of the operators map) on the variables the code has there.
A behaviour of `Codecs` is one input and the turns it takes; a text or a
datagram takes none. The references are a grammar for the parser, UTF-16 and
UTF-8 for escapes, parse-of-print for the printer, the split by commas for CSV,
a tiling of the template by its parts, and so on. The sizes of buffers and
integers are constants, scaled down.

cJSON's parser takes more than JSON, and the reference grammar says so: every
character up to the blank is white space, a byte order mark is skipped at the
beginning of a text, and a number is what `strtod` reads of the next
`NumberSize` characters that can be part of one, so `01` and `1.` are
numbers (`NumbersAreRead`). `ensure` may fail to reallocate, and then frees the
buffer once. Members are looked up without regard to case. An address whose
host is too long and has no port behind it overruns the structure on the stack
of `bind_endpoints` (`uri_parser.c:59`): `bind_endpoints` is then `undefined`
and nothing is claimed of any endpoint. A port is cut to two bytes.

## Runs

`tlc -config <cfg> <module>`; each ends within three minutes with two workers.
A name with others in parentheses is the conjunction of those and the type
invariant, and is what the `.cfg` lists. The `TypeOK` of `Resolver` and of
`CacheWriter` are checked too.

| Run | Shows |
|---|---|
| `resolver_any_ids` | With shared ids, malformed datagrams, both failures of `make_request` and reloads: `HandOver` (map, libcurl, queue and replies agree on each lookup), `OneReplyPerReceipt`, `ReplyKindMatches`, `NoLostWakeup`, `MetricsConservation`, and `NoSecondReply` (a request is answered twice only after a `make_request` that threw) |
| `resolver_unique_ids` | If ids tell requests apart: `AnswerIsForTheNumberAsked`, `CachedForTheNumberAsked`, `NoRequestForgotten`, with retransmissions and reloads, and `EveryRequestAnswered` under fairness |
| `resolver_shared_id` | violation: with a shared id a client gets the answer to another's number |
| `cache_safety` | `NoLostWakeup`, `TakenInOrder`, `UpdateHasConnection`, `QuietAfterStop`, with every database fault and a stop at any time |
| `cache_live` | `EveryEntryTaken` and `StopReturns` under fairness, when stop comes after `set_name`; `NoFreedConnectionUsed` when no connection breaks inside `prepare_queries` |
| `loop` | With `EPOLL_CTL_ADD`, `EPOLL_CTL_MOD` and `curl_multi_socket_action` failing: `LoopSound` (`SocketsFollowCurl`, `NoStrayEvents`), `TimerCoversTransfers`, `StopEndsLoop`, and `EventLoop` implements `HttpService` with its fairness (`ImplementsService`) |
| `signals_rest` | Signals that reach the main thread at rest, or a library's thread at rest, with loads that fail and metrics served meanwhile: `LocksSound` (`NoLockCycle`), `TerminationEndsProgram`, `ReloadCompletes` |
| `sip_calls` | `CallsSound` (`NoWriteAfterReturn`, `AnswerIsOfThisCall`), `EveryCallReturns`, with timeouts racing replies, calls that cannot be made and a failed initialization |
| `drivers` | `LoadIsTheTable` (a load takes effect as a whole or not at all), `StaleFormatIsSafe` (a table of another format makes no driver of foreign cells), `DriversReady` (`SeriesForEveryDriver`, `SipIdentitySet`), over loads that fail anywhere, at a type out of range too, and restarts |
| `config_file` | `ParsesTheFile` (the automaton accepts exactly the grammar and gives the options what its statements say), `ConfigOfTheFile` (`LastAssignmentWins`, `SettingsAreOfTheFile`, `FirstLabelsKept`), for every file of up to twelve tokens |
| `json_tree` | `MemorySound` (`LinksAgree`, `EverythingOwnedOnce`) and `CopiesFaithful` (`CompareIsEquality`, `CopyIsWhole`), with allocations failing and references to freed items about, and `JsonTree` implements `JsonForest` (`ImplementsForest`) |
| `codecs` | `ReadsJson` (`ParsesTheGrammar`, `NumbersAreRead`, `StringFits`, `EscapesAreUnicode`); `PrintsJson` (`RoundTrip`, `PrintsInsideBuffer`); `WireFaithful` (`KeepsLength`, `DataInside`, `Decodes`, `Fits`, `EndpointsIndependent`); `FormatsFaithful` (`FirstRowAnswers`, `TemplateIsWhole`, `UrlHasEveryValue`, `OperatorsResolved`) |

Bounds. Three datagrams (`MaxRecv`) are the least that show a retransmission
overtaken by a response and followed by a third copy; two ids, two database
ids, and two requests under one id give every kind of collision; three driver
maps change the class, the type and the presence of a database id. Three
entries and two outages let an entry be lost, one be written after it and one
wait. Two transfers and two descriptors are the least for one transfer to end
while another goes on, and for a number to be reused within a batch; one
socket's `epoll_ctl` may fail and the other's may not. Each
signal is sent once; a load of one row meets every lock that a longer one meets; three signals over two receivers give every nesting. Three
calls let a late handler of the first meet the second and the third. Three
loads are a first one that fixes the format, one that fails and one behind it;
tables have every single bad cell of every type and format. Twelve tokens hold
two calls of `label`, three assignments, or a list inside a section with
statements behind it; deeper nesting does not exist in this program's options.
Five items and five calls hold a parent, a list of three and a reference to it,
or a string, a reference to it and a copy after the string was freed; two
values, which are symmetric, make two strings that differ. Texts of `Codecs` are
six pieces long, with a nesting limit of two instead of a thousand, so that the
limit is met; a string is five pieces behind its quote, where a piece may be a
complete `\uXXXX`, so that pairs of surrogates come with their closing quote; a
number is five characters long, one more than `NumberSize`. Buffers and
integers are scaled so that their ends are met. The proofs have no such bounds.

Fairness. `Resolver`: a readable notifier is served and the drain goes on,
because the dispatcher thread returns to `epoll_wait` (level-triggered) after
each handler and no handler blocks for ever; a transfer ends if its driver set
`CURLOPT_TIMEOUT_MS` to something other than 0, which libcurl reads as no
limit. Arrivals and reloads are not fair. `CacheWriter`: the three threads are
scheduled and every wait of the writer has a timeout; nothing is assumed of the
database, so `EveryEntryTaken` has "the database stays up in the end" as its
hypothesis. `EventLoop`: the loop's thread is scheduled and time passes; no
server has to answer. This is what justifies the fairness of transfers assumed
in `Resolver`, through `HttpService`. A `CurlFault` breaks it: the timer is
read and libcurl is not run; `HttpService` promises no answers after that, and
`Resolver`'s liveness is for processes that do not meet it. `Signals`: strong
fairness per thread, since a mutex that is released again and again is obtained
in the end, and `epoll_wait` reports the terminator. `SipClient`: both threads
are scheduled and `wait_for_to` ends; `setTimeout` maps 0 to the default, so
there always is a limit.

## Findings

1. A shared id mixes up answers (`Resolver.cpp:288`): run `resolver_shared_id`.

Two more that a changed constant shows; they have no run of their own:

* `_connect_db` stores a deleted connection when `prepare_queries` throws
  `broken_connection` (`cache.cpp:62`), and `run()` uses and deletes it again:
  `PrepareFault <- AllFaults` in `CacheWriter_live.cfg` violates
  `NoFreedConnectionUsed`.
* SIGHUP on the dispatcher thread inside `resolve()` or `parse_response()`
  locks `mDriversMutex` twice (`sig.cpp:15`): `AtRest = FALSE` in
  `Signals_rest.cfg` violates `LocksSound` and `ReloadCompletes`.

Limits of the properties:

* A request whose `make_request` throws is answered with an error while its
  entry stays in `waiting_requests`; the next request with that id is stored
  nowhere and its response goes to the old one. `NoSecondReply` allows exactly
  that; `NoRequestForgotten` is checked without the fault and proved with it.
* After a reload a response is parsed by whatever driver has the database id.
* `stop()` before the writer's `set_name()` holds the mutex that `set_name()`
  needs and never returns; `StopReturns` is checked for a later stop.
* A SIP close handler that is running when `perform()` returns still writes
  into the buffer, which may by then be the next call's.
* An initialization of the SIP client that failed is not repeated.
* A tagged reply of more than 255 bytes of number and tag cannot be decoded
  (`Decodes` says exactly when it can), and a number above INT_MAX goes
  into a CNAM URL as INT_MAX (`UrlHasEveryValue`).
* A timeout of another type in a JSON row is 0, which means no timeout.
* A host without a port is copied without regard to the size of its field.
  `Fits` says which addresses overrun it, and `EndpointsIndependent` claims
  nothing of a configuration that has one.
* A port above 65535 is taken modulo 65536 (`EndpointsIndependent`).
* A socket whose `EPOLL_CTL_MOD` failed goes on with its old events; its
  transfer ends by its timeout (`SocketsFollowCurl`).
* A string of the `db` section that is not given ends the process.

## Proofs

`tlapm <module>` checks a module. Each argument has the same shape: an
inductive invariant, checked first by TLC on the instance of the run, one lemma
per action or group of actions, and a last step that combines them. The
theorems hold for every value of the constants that satisfies the named
assumptions; where a theorem has an assumption of its own, it is stated as
`ASSUME` in the theorem and named here.

### ResolverProofs

It assumes only the named assumptions of `Resolver` (what a datagram, a driver
and a configuration look like). Every invariant that the runs check is proved.

* `TypeCorrect`: `Spec => []TypeOK`. One lemma per group of actions.
* Effects. Between the 14 branches and the invariants stands a layer of
  *effects*: `ArrivalEffect(d)` and `ResponseEffect` say what a handler does to
  the map, the transfers, the queue and the replies, whichever branch it took;
  `ArrivalHasEffect` and `ResponseHasEffect` prove it branch by branch, and the
  invariants are proved from the effects.
* `ReplyInvariant`: `ReplyInv == TypeOK /\ HandOver /\ OneReplyPerReceipt` is
  inductive. `OneReplyPerReceipt` alone is not: that a response causes no
  second reply needs "a lookup in flight has not been answered", which needs
  "a receipt is in flight at most once"; that the reply carries the right id
  needs "a request is stored under its own id". Those are the parts of
  `HandOver`. Freshness of the next receipt comes from `TypeOK`.

From `ReplyInv` follow `LookupsAreHandedOver`, `RepliesOncePerReceipt` and, with
the assumption that ids tell requests apart (`UniqueIds`),
`AnswersAreForTheNumberAsked` and `CacheHoldsTheNumberAsked`: the stored request
and the lookup have the same id and therefore the same number.

* `WakeupsAreNotLost` is inductive with the types, `RepliesAreOfTheKindAsked`
  with `ReplyInv`: the driver is looked up again, with its type, when the
  response is parsed.
* `SecondReplyOnlyAfterRefusal`: `NoSecondReply` needs that a request which
  still waits has been answered at most once (`WaitingRepliedOnce`), or a third
  reply could follow a second.
* `RequestsAreNotForgotten` assumes `UniqueIds` and that `make_request` does not
  fail silently (`"fail" \notin SetupFault`). Without the first, a request
  under an id in use is stored nowhere and its response may find nothing;
  without the second, a stored request has no transfer and waits for ever. The
  run excludes exceptions too, the theorem does not.
* `CountersBalance`: the set of transfers is finite, and a step that takes a
  transfer or a response away counts at most one result.

### CacheWriterProofs

It assumes only the bounds' types.

* `TypeCorrect` needs `EntryHeld`: the writer has an entry in hand whenever it
  is in `update_cache`.
* `WakeupsAreNotLost`: `NoLostWakeup` is inductive with the types.
* `UpdatesHaveAConnection` needs `ErrorIsRemembered`: a NULL or deleted
  connection comes with `db_err`, and with `db_err` set the loop does not reach
  the queue before a check or a renewal has succeeded.
* `QuietOnceStopped` (an action property) needs `StoppedIsOver`: `stop()` has
  returned only when the writer has left its loop.
* `FreedConnectionsAreNotUsed` assumes that no connection breaks inside
  `prepare_queries`, and needs `FreedIsReplaced`: a freed pointer exists only
  between the delete and the renewal. The assumption cannot be dropped, see
  Findings.
* `EntriesAreTakenInOrder`: `TakenInOrder` is stated so that it is inductive
  with the types (`OrderInv`). It says which entries the queue holds, that the
  one in hand is older than those, and that the written and the lost ones are
  older than the one in hand.

### EventLoopProofs

`LoopInv` is `LoopSound` with `TimerFollowsCurl` (libcurl was told the timeout
it has now, and while there is one and nothing is broken the timer is on), that
the transfers alive are finitely many (the count that clears the timer must
mean something) and that a loop that has ended has no events left.
`RunHasEffect` says what libcurl and its callbacks may do when transfers run;
the actions are proved from that. From `LoopInvariant` follow `LoopIsSound` and
`TimerIsOn`; `LoopImplementsService` proves that every step of `EventLoop` is a
step of `HttpService` or changes nothing there, with or without the faults.
`SocketsFollowCurl` is carried through a callback socket by socket (`Follows`):
what a socket has, what libcurl wants and whether it was refused. The
fairness of `HttpService` stays with the run `loop`.

### SipClientProofs

`SipInv` adds to `CallsSound`: only the session of the call that waits is open;
a running handler belongs to that call or to one that it overtook; overtaken
calls are over; and while none was overtaken the buffer holds what the handler
of the waiting call wrote. `CallsAreSound` follows.

### SignalsProofs

`LocksAreSound` assumes `AtRest` (without it `LocksSound` is false, see
Findings) and nothing about which threads receive which signals; the run has
two receivers, the theorem every set of them.

* The order. `Rank` numbers the locks: the map's mutex, the resolver's instance,
  `m_td` and the SIP client's `sMutex` first, then the instances of transport,
  cache and exporter and the exporter's mutex, then the dispatcher's instance,
  the metric families and `q_m`, and the conditions last. The errands below
  come before all of them.
  `Ordered(H, ops, E)` says that operations done by a thread that holds `H` take
  locks upwards only, release what is held, and end with `E` held. It composes
  (`OrderedConcat`), which proves it of every function of the module from its
  pieces (`OrderedMain`, `OrderedResolve`, `OrderedRun`, `OrderedHandler`, ...).
* `LockInv`: what each thread owns is what its remaining operations are ordered
  from; a handler interrupts a frame that holds nothing. Besides locks a thread
  holds two errands, "the writer is to be started" and "a map is to be swapped
  in", which give the bound on `reloads` and that `start` finds a writer that
  does nothing.
* `NoCircle`: in a circle of waiting threads the rank of the lock waited for
  would grow from each thread to the next, and there are five ranks.

`LockInvariant` is about the locks of the model. Those it leaves out are listed
under "Not modelled".

### DriverConfigProofs

It assumes what a row is (`TableAssumption`), that an exception is not a value
(`ThrowAssumption`, `ValueAssumption`, `DriverAssumption`), and the bounds'
types. Tables are arbitrary, of any length.

* `ReadyInv`: every driver in use *and every driver of the load under way* has
  its series and, for SIP, the configured identity (`MapReady` of both maps);
  the second half is what makes the swap safe. `DriversAreReady` follows.
* `TableInv`: the map made so far is that of the rows read so far
  (`PrefixRead`), every driver in it is made of one row's own cells
  (`OwnRows`), a format that is not detected means that no row had one, and no
  row read had a type out of range (`NumberedTo`).
  `LoadsAreTheTable` and `StaleFormatsAreSafe` are action properties that follow
  from it where a load ends. They rest on lemmas about the constructors: what
  one makes is of the row's own cells, in whatever format it is read
  (`MadeIsSound`), in the table's own format one throws only on a row that
  is `Broken` (`ThrownIsBroken`), and `getID` throws exactly on a type out of
  range (`ThrowsIsOutside`).

### ConfigFileProofs

It assumes what words, tokens and options are (`WordsAssumption`,
`OptsAssumption`) and that the log levels fit an `int` (`LevelAssumption`); files
have any length and any tokens.
`ConfigIsOfTheFile` is `Spec => []ConfigOfTheFile`, from the invariant `IInv`:

* `FrameInv` and `StackInv`: what an activation is about is what its state is
  for (in state 3 a list with no values yet, in state 4 one with some, in state
  5 a section of the root), and the caller of an activation is between two
  statements of the root.
* `KeyInv(k)`, per option: either `CFGF_RESET` is set and the option was
  assigned, and then nothing was given since; or the option has its values.
  `HasItsValues` alone is not inductive: between `=` and the first value the
  option still has its old values. An option that is no list and was assigned
  has a value as soon as the statement is over, and has none of the file's
  without an assignment; that is what turns the null pointer of `load_cfg` into
  a string the file does not give (`NullIsMissing`).
* `TopInv` ties `CFGF_RESET` of the current option to the state: it is gone once
  a list has a value, and set where a single value is read.
* `ArgsInv` finds the arguments of the call under way in the file, which gives
  the labels their two words (`LabelsInv`).

`OtherToken`, `AssignToken` and `ValueToken` say what a token adds to the
history, `KeyKept`, `KeyAssigned`, `KeyAdded`, `KeyValue` and `KeyEmpty` what it
does to an option, with `RankGrows` for the number of a value in a set of
positions; the actions are proved from these.

### CodecsProofs

`WireIsFaithful` and `FormatsAreFaithful` prove `WireFaithful` and
`FormatsFaithful` for inputs of every length and every size of the buffers and
integers; `Codecs` checks the same formulas on small ones.

* `Wire` has no steps: `LengthIsKept`, `DataIsInside`, `RepliesDecode`,
  `AddressesFit` and `EndpointsAreIndependent` are about the functions.
  `DataIsInside` rests on `WidthAssumption`: a `size_t` is wider than the
  announced size. The endpoints are independent as long as no address of the
  configuration overruns; which addresses do is part of the statement.
* `CsvInv`: of the line under way the fields read are the first of its split by
  commas and the stream stands behind them, and the hash has the first valid row
  of each key among the lines done. Which field a position belongs to is the
  number of commas before it (`OrdinalUnique`, `BoundOfComma`, `GetlineReads`).
* `TemplateInv`: the parts tile the template up to where the current one begins
  (`TiledAppend`), and the current one has no brace in it.
* `OperatorsInv`: the map and the default are those of the members done.
* `MinOfNat` (a set of numbers that is not empty has a least element) stands for
  induction: it comes from the well-ordering theorem of the library, which takes
  a set and not an operator.

### Only model-checked

* Every liveness property and the fairness of the refinement: the prover does
  not do liveness.
* `MemorySound`, `CopiesFaithful` and the refinement of `JsonForest`:
  `cJSON_Delete`, `cJSON_Duplicate` and `cJSON_Compare` recurse over trees, and
  what they leave of the memory is known only by induction over data, which is
  out of the prover's reach.
* `ReadsJson` and `PrintsJson`, for the same reason: the parser and its grammar
  are recursive.
* `ParsesTheFile`, whose grammar is recursive. That the options have the values
  of the file is proved; that exactly the files of the grammar are accepted is
  not.

## Not modelled

* The synchronous HTTP client: no driver uses it.
* Logging and the exporter's HTTP endpoint: pure output.
* Of libConfuse: titles of sections, unknown options, floats, booleans,
  pointers, printing and raw text, which this program's options do not use, and
  the scanner, which is generated; a file is its tokens.
* Of cJSON: `cJSON_CreateStringReference`, `CreateArrayReference`,
  `CreateObjectReference` and `cJSON_CreateRaw`, allocations that fail inside
  the parser, `cJSON_Minify` and the value of a floating-point text.
* Of the locks: those inside libc and syslog, those of the prometheus library's
  registry and server, which only start-up and its own threads take, the mutex of
  one SIP reply's condition, the SIP thread's own `_m_td`, and `sMutex` in the
  static destructor after `main`.
* Errors of `sendto`, which are only logged, and the text of the drivers'
  headers and results.
* A signal before the loop has made its terminator, and the memory of SIP
  sessions that are given up.

## Plan

1. What is left to prove needs induction over data: cJSON's deletion and copies
   as loops over an explicit stack, one step per item, would make an invariant
   out of what they leave behind, as it did for the text formats.
2. The parsing of SIP contacts and of the drivers' JSON answers against a
   reference, in the style of `Formats`.
