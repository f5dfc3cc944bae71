# Verification of the epoll HTTP server

TLA+ models of the server in `src/src` and `src/include`, TLC configurations
that check them on small instances, and TLAPS proofs of the central properties
for instances of any size. Line numbers refer to the files under `src/`.

## The system

One process. The **main thread** (`server_run`, server.c) owns an epoll
instance: an edge-triggered listening socket and one `EPOLLONESHOT`,
edge-triggered descriptor per client. It accepts connections, turns every client
event into a task of a **thread pool**, and closes idle connections once a second.
The pool's **workers** run `worker_process_request` (epoll_handler.c): read until
EAGAIN, see whether the request is complete, parse, build and write the response,
then close the connection or arm its descriptor again. SIGINT and SIGTERM clear
`running`; the pool is then drained and the connections released.

| component | state | operations | interacts through | hard part |
|---|---|---|---|---|
| thread pool (thread_pool.c) | linked list of tasks, `shutdown`, mutex, condition variable, threads | create, add_task, worker loop, destroy | called by server_run and dispatch; calls the tasks | lost wakeups, draining, unwinding a failed creation |
| connections (epoll_handler.c) | `connections[]`, one `client_connection_t` each, `connections_mutex` | init, accept, dispatch, worker task, close, check_timeout, cleanup, count | shared by main thread and workers; epoll instance; pool | pointers kept outside the mutex, timeout against task, descriptor reuse, edges |
| event loop (server.c) | `running`, `last_timeout_check`, events | init, run, signal handler | calls all of the above | signal at any moment, order of shutdown, start-up errors |
| request framing (epoll_handler.c 51-89, 314, 432) | `read_buf`, `read_pos` | is_request_complete, keep-alive reset | worker task | split and joined requests, full buffer |
| request parser (http_parser.c) | none | parse request line, headers, body | worker task | truncation, malformed lines |
| request handler (http_request.c) | `server_start_time`, `total_requests` | GET, HEAD, /status, errors | fills `write_buf`; counts connections | unsynchronised counter, files that change |
| response builder (http_response.c) | none | http_send_error; send_file and send_head are dead code | fills `write_buf` | says `close` on kept connections |
| command line (main.c) | `config` | parse, validate | gives config to the others | 16-bit port, unused limit |
| logging (utils.c) | stdout, localtime's buffer | log_print | called everywhere, also by the signal handler | mixed lines, re-entrance |
| MIME table (mime.c) | constant | lookup | handler | none |

What makes each of them correct:

- *pool*: an accepted task runs exactly once, tasks start in the order added, no
  worker sleeps while work is queued, destroy returns with everything run.
- *connections*: the descriptor, its place in the epoll instance, its slot and its
  structure live and die together; one thread at a time has a connection; nobody
  touches a freed structure; no event is lost; idle connections are closed and
  busy ones are not.
- *event loop*: the signal ends the server with nothing leaked or dropped.
- *framing, parser, handler, responses*: every complete request gets one response
  that says what the server then does; an incomplete one waits. (A body that comes
  after its head breaks this, see `AnsweredWhole` below.)
- *command line*: only configurations in the documented ranges start a server.
- *logging*: a line is written whole.

## Modules

| module | models | checked by |
|---|---|---|
| `TaskPool` | what the pool promises: submit, start in order, finish, close, release when done | implemented by ThreadPool |
| `ThreadPool` | thread_pool.c | `MCThreadPool_*.cfg`, `ThreadPoolProofs` |
| `Connections` | what the server promises about connections: admit or refuse, serve one at a time, close from there or when idle, end with nothing open | implemented by EpollServer |
| `EpollServer` | epoll_handler.c and the loop of server.c, with the kernel's side of descriptors, epoll and the accept queue | `MCEpollServer_*.cfg`, `EpollServerProofs`, `EpollServerRefinement` |
| `RequestResponse` | what a connection promises any client: answers one by one, never more than the empty lines it has sent | implemented by HttpExchange |
| `HttpExchange` | one connection as its client sees it: read loop, is_request_complete, handling as a choice of outcomes, write loop, keep-alive reset | `MCHttpExchange_*.cfg`, `HttpExchangeProofs` |
| `RequestParser` | http_parser.c, line by line | `MCRequestParser_safety.cfg`, `RequestParserProofs` |
| `RequestHandler` | http_request.c and http_send_error, system call by system call, against a changing file system | `MCRequestHandler_safety.cfg`, `RequestHandlerProofs` |
| `RequestStats` | the counters behind /status under several workers | `MCRequestStats_safety.cfg`, `RequestStatsProofs` |
| `CommandLine` | the loop over argv in main.c | through ServerLifecycle |
| `ServerLifecycle` | the process from its command line to the return of main: start-up with every failure, signal, order of shutdown | `MCServerLifecycle.cfg`, `ServerLifecycleProofs` |

How they fit together: `EpollServer` uses the pool as `TaskPool` specifies it, and treats
what is in a request as a choice; what is left of it without descriptors, events, marks and queue is
`Connections`. `HttpExchange` opens that choice for one connection and
treats parsing and handling as choices of outcome (`Fates`); `RequestParser`,
`RequestHandler` and `RequestStats` open those. `ServerLifecycle` extends
`CommandLine` and stands around all of it.

### ThreadPool

The owner thread is `owner` (its place in create, add, destroy); each worker has a
place `wpc` and its local `task`. Nodes are numbered as they are malloced and `0`
is NULL, so `head`, `tail` and `next` are the pointers of the list, and `live` the
nodes not yet freed. `lock` is the worker in its critical section. The owner's
critical sections (add_task 141-155, destroy 168-172) wait for nothing inside and
are one step, enabled when the lock is free. A worker's is several steps:
`AcquireLock`, then `DecideToWait` and `CondWait`, or `Exit`, or `TakeTask`. The gap
between deciding and blocking cannot be seen by a thread that takes the lock; it
can by `FailSetShutdown` and `FailBroadcast`, which the code does without it
(thread_pool.c:100-101). `SpuriousWakeup` is the return of pthread_cond_wait that
POSIX allows. The error returns of add_task change nothing and are stuttering.

### EpollServer

A connection and its structure are named by the client; `heap`, `inUse`,
`keepAlive`, `readPos`, `age` are the structure's existence and fields, `connections`
the table, `sock` and `watch` the kernel's tables, `queue` the pool's list as
`TaskPool` specifies it. `mpc` and `wpc` are the places of the main thread and the
workers:

| code | actions |
|---|---|
| server_run 170-184, 187-208 | `EpollWait`, `LeaveLoop`, `ListenEvent`, `Dispatch`, `DispatchFails`, `CheckTimeout`, `SkipCheck` |
| epoll_handler_accept | `Accept` (to the store under the mutex), `AcceptDrops`, `Register`, `RegisterFails`, `AcceptStops` |
| server_run 211-216, epoll_handler_cleanup | `Cleanup`, enabled when the pool is drained, as `ReleasedPoolIsQuiet` says of thread_pool_destroy |
| worker_process_request 291-308 | `Take`, `AcquireNothing`, `Acquire`, `Touch` |
| 312-352 | `ReadBytes`, `ReadDrained`, `ReadEnds`, `Close` |
| 354-363 | `Incomplete`, `Rearm`: two steps, without the mutex |
| 366-438 | `Complete`, `Serve`, `ServeFails`, `HandBack`, `Close` |
| clients, clock, signal handler | `Connect`, `Send`, `HangUp`, `Tick`, `Signal` |

Choices made:

- The critical sections of `connections_mutex` do not nest and block nowhere, so
  each is in one step and the mutex is no variable. The whole scan of
  check_timeout is one step too: the only things workers do to its inputs without
  the mutex are `Touch` and `Incomplete`, each on one connection, and either falls
  before or after the scan's look at that connection. Those two unlocked accesses
  (308 and 359 against 467-469) are data races in C; int and time_t are read
  and written whole on the platforms the Makefile builds for, and the model takes
  either order.
- A new structure is private until it is stored, so accept up to line 236 is one
  step. Which free descriptor the kernel gives out is left open: it is the
  lowest, but workers open files too.
- The contents of requests are abstracted: whether one is complete, what it says of
  keep-alive and how its handling fails are choices. `readPos` counts units of the
  buffer. Nothing is ever complete in an empty buffer.
- `Faults` names the calls that may fail.
- When a worker would use a freed structure, or accept would register a connection
  somebody closed under it, the code's behaviour is undefined: the model ends there
  (`Defined`, `Halted`), makes no claim about what follows, and the properties say
  when that cannot happen.
- `overtaken` is a history variable: has a scan closed a connection that had a task
  pending without a mark (queued, or taken and not yet at `in_use = 1`, or past
  `in_use = 0`)? From then on a task can carry the number of another client's
  connection.
- Each client connects at most once; reuse of a descriptor is by another client.

`ImplementsConnections` reads a state of `Connections` off one of `EpollServer`: a worker serves what it
holds between `Acquire` and the end of its task (`ServingMap`), `idle` is `age`, the phase is
the main thread's place (`PhaseMap`). `Accept` is `Admit`, `AcceptDrops` is `Refuse`,
`Acquire` is `Begin`, `Incomplete` and `HandBack` are `Leave`, `CheckTimeout` is `Expire`,
`RegisterFails` and `DispatchFails` are `Fail`, `LeaveLoop` is `Drain` and `Cleanup` is `Stop`;
events, the queue, reading and arming are stutters.
The conjuncts of `Connections` under `overtaken = 0` are exactly what is lost once the
timeout has closed a connection on its way to a worker: one server per connection, no
closing of what another serves. What is not under it holds whatever the timeout does.

### HttpExchange

The client's stream is a line of numbered pieces; a request is the pieces `first..last`, its
head ends at `head`, and `lines` are the pieces that hold an empty line: the end of the head, and
those of a body that has some (multipart, for one). `base` and `got` bound what is in `read_buf` (`read_pos` is `got - base`), so every
cut of the stream into reads is a behaviour. `Send`, `HangUp` and `Receive` are the client and
the network, `Ask` its next request, at any moment.

| code (epoll_handler.c) | actions |
|---|---|
| 312-352, the read loop | `ReadSome`, `BufferFull`, `ReadFails`, `PeerGone`, `WouldBlock` |
| 51-89 is_request_complete, 354-364 | `Complete`, `Incomplete` |
| 366-380 parse and handle | `Handle`; `HandleRemains` when the buffer begins inside a request |
| 382-411 the write loop | `WriteSome`, `WriteBlocked`, `GiveUp`, `WriteFails` |
| 418-438 | `KeepOpen`, `CloseAnswered` |
| 441-476 | `Close`, `Expire` |

`Complete` is the strstr of line 54: any empty line in the buffer will do, one inside a body that comes
after its head was answered too. It ignores the length of bodies because the code does: the name it compares
with at line 66 is written with a U+2011 hyphen. Where the buffer begins inside a request, `HandleRemains` lets the parser make anything
of it, a page included, and `Incomplete` lets strstr miss the empty line: the buffer may begin in the middle of it, or
have a zero byte before it. A head is taken to be without zero bytes. A malformed request leaves `keep_alive` as the connection had it. `answers` is a history
variable, and so is the field `waited` of a request. `Plain` says the client has waited
for each answer and sent no body; several properties are about such clients only,
because the server does not keep them for others (below).

### RequestParser, RequestHandler, RequestStats

*RequestParser*. A request is given by the blanks of its first line, the length of
its URI, its header lines and the bytes after them; a step is a turn of the loop
at http_parser.c:199. A line is the name it is compared with and its value; `NONE` is a
line without a colon. Cutting names and values to their fields is below this grain.

*RequestHandler*. A request names one node of the file system, and with it
`node/index.html`. `Rename` and `Resize` are somebody else at work between any two system calls.
`DirSizes` is what lseek says of a directory, which depends on the file system.
Any open or lseek may fail on what is there, for lack of permission or of descriptors; the code goes on to the
index or makes a 404 of it, as if nothing were there. `shrunk`, `missed` and `refused` (has a call failed
on what is there) are history variables.

*RequestStats*. The counter is changed by `__atomic_fetch_add` and read by `__atomic_load_n`, the
table is scanned under the mutex: a step each. `server_start_time` is plain, so its test, the call of time and
its store are three. A read of it is taken to give a value that was stored: a `time_t` is
written whole on the platforms the Makefile builds for.

### CommandLine, ServerLifecycle

An argument is the option it is spelt as, or a word with the number atoi makes of it and whether it fits
the field `web_root`, which strncpy cuts it to; the limits are the code's own. `ServerLifecycle` goes on from there: `Calls` are the calls of the start-up in
order (`epoll_handler_init` cannot fail and is not among them), `ClosedAfter` what the code closes when one of them fails,
`ShutdownOrder` the last lines of server_run. `CreateHangs` is the other way thread_pool_create can
fail: the violation `CreateFailureReturns` of ThreadPool, after which the process is `Hung`. The signal is the handler once
`setup_signals` has run and the end of the process before.

## Runs

| run | instance | shows |
|---|---|---|
| pool | 3 workers, 4 tasks, 1 spurious wakeup, creation may fail | no task lost, duplicated or dropped; no sleep through work or shutdown; the list's ends never dangle; every step is one of `TaskPool`; fair threads run every queued task and destroy returns |
| server_safety | 2 clients, 2 workers, 3 descriptors for 2 slots, all faults, timeout 1 | types and table bounds, resources, ownership, protection of the held pointer, clean shutdown; every step is one of `Connections` |
| server_liveness | 2 clients, 1 worker, no faults, timeout 0 | bytes are read and hang-ups close, whenever they arrive; the backlog is served; shutdown ends with every task done; nothing stays open for ever unserved |
| exchange | 1 connection, 3 requests of 7 kinds, one with an empty line in its body, buffer of 4 pieces | types and the bound of the buffer, no answer without an empty line of its own, plain clients get exactly their answers, keep-alive keeps its word, no worker is held for ever |
| stats | 2 workers, 2 slots, 3 requests, 3 seconds | what /status says is consistent |
| handler | every method, files of 5 lengths, buffer of 6 with 2 reserved | answers fit and are as long as they say, a 404 means missing or a failed call, no descriptor is lost |
| parser | up to 4 header lines of 8 kinds, a table of 2 | fields, table and body are those of the request |
| lifecycle | up to 4 arguments, 2 connections | a server runs only in range and with the last values given; nothing is left; the signal ends it unless the pool's creation hangs |
| pool_createfail, server_oneshot, server_backlog, exchange_body | smallest that show it | violations, see below |

Bounds. In the pool, three workers are enough for one asleep, one waking and one
running, and four tasks for a list that is empty, has one node, and has a middle while one runs;
spurious wakeups and tasks are counted only so that the state space is finite. In
the server, two clients are the least with which a descriptor is reused while an
old task for it lives, and two workers the least to run both; the third descriptor
reaches the `client_fd >= MAX_EVENTS` branch. `BufferSize = 2` tells an empty, a
partly filled and a full buffer apart. `Timeout = 1` separates fresh, idle and
expired; with `Timeout = 0` every idle second is enough, which keeps the temporal
run small and lets the timeout strike most often. The temporal properties are stated of
`AnyClient`, as clients are interchangeable. Ages stop at `Timeout + 1`, where
they no longer matter. The safety run uses symmetry of clients and workers; the
temporal runs use none. server_liveness has one worker, as it asks whether the one thread that has a connection passes it on, and two clients to compete for it.

In the exchange a buffer of four pieces has room for three, so heads of one to three
pieces leave it partly empty, hold two at once, or fill it; answers of two pieces and a
send buffer of one make every answer wait for the client once; three retries stand for a
thousand. Three requests are the least with one before and one after another. In the
handler, lengths 3, 4, 5 and 7 lie on both sides of what fits with the header (4) and of the
whole buffer (6). In the parser, a table of two and four lines put lines without a colon, and lines
beyond the table, before, between and after those that count; URIs are just short
enough for the line, one too long, and longer than the URI's own buffer. In stats, two workers are all a race
over the start needs, three requests let two overlap and one come after. For the command line the
numbers are the code's limits and their neighbours, and those of 16 bits, and roots fit or not; four arguments are two
options with values, or one repeated.

Deadlock is checked in the server's runs. Elsewhere the system really may stop: the failed
creation of the pool hangs, a client need not go on, a request or a run of main ends.

Fairness. Weak fairness of the main thread and of each worker: the scheduler runs
every runnable thread, epoll_wait returns after at most a second, and the write loop
gives up after a thousand retries. No fairness of the mutexes is assumed beyond that
(a worker may lose the lock to another any number of times while there is work for
both), and TLC shows that none is needed. Nothing is assumed of clients, of the signal, of failures, or of
the owner of the pool. `ZombiesReaped` has the fairness of time as its premise.
In HttpExchange the wake-up of a ready descriptor and the worker are fair (what
EpollServer shows of events and workers); the client, the timeout and failures are not: a
client that reads nothing is dealt with by the retries, not by waiting. In ServerLifecycle the main
thread is fair as long as it is not hung in thread_pool_create, which takes thread_pool_destroy to
return (`DestroyReturns`). The
temporal properties of the server say nothing of behaviours that end in undefined
behaviour (`\/ ~Defined`).

Each property is also tried against a changed definition, a bug one might well
write: the operators commented "Mutant of". They are not part of any specification.

### What the violations show

1. **CreateFailureReturns**: the comment at thread_pool.c:99 says the threads that run
   are woken and made to exit. `shutdown = 1` and the broadcast do not take the lock:
   a worker between its test and pthread_cond_wait misses both and pthread_join never
   returns. thread_pool_destroy takes the lock for the same two steps, and there
   `NobodyMissesShutdown` and `DestroyReturns` hold.
2. **OneThreadPerFd**: epoll_handler.c:239 promises one thread per descriptor. A task
   names a number. Event, timeout before the worker's `in_use = 1`, close, accept of a new
   client on the same number, its event: two tasks on one descriptor, and the old one
   marks and reads the new client's connection. No long queue is needed: it is enough that the
   event of a connection idle for about a minute is dispatched in the round of the loop that goes on to
   check_timeout (server.c:198, then 206), before a worker has set `in_use`. `OneOwner` says that
   this timeout is the only way.
3. **BacklogServed** with one descriptor: epoll_handler.c:172 says accept loops until
   there is no new connection. EMFILE ends the loop as well, and the edge is spent:
   the waiting client is forgotten until another one connects, in TLC's behaviour
   long after the only descriptor has been closed again. With enough
   descriptors the same property holds (server_liveness).
4. **AnsweredWhole**: epoll_handler.c:83 says it judges whether the body is there. The
   header name it looks for has a U+2011 hyphen that no client sends, so a request is
   answered as soon as its head is complete, and what comes of its body later is taken for
   the next request, or for its beginning: a body with an empty line gets an answer of its own.

### What else the models say of the code

These were met while modelling and are in the modules as the code has them. They have no run of their own;
the property in brackets is what does hold.

- What is read together with a request, beyond its end, is thrown away when the answer is out
  (epoll_handler.c:432), so a client that pipelines loses requests (`AnswersMatch` for one that waits,
  `EveryAnswerEarned` for all).
- An empty line in a body that comes after its head is answered like a request (epoll_handler.c:54), so a client may get more
  answers than it has sent requests (`EveryAnswerEarned` and `RequestResponse` count empty lines; `AnswersMatch` for a client
  without bodies).
- A head of `BUFFER_SIZE - 1` bytes is turned away although complete, and `MAX_HEADER_SIZE` (server.h:17) is
  used nowhere (`FittingServed`).
- An error response says `Connection: close` and the connection stays (http_response.c:137; `PagesHonoured` for the others).
- A client that closes its sending side after a complete request gets no answer (334-352).
- A URI that does not fit a line of 1024 bytes is malformed, far below `MAX_URI_LENGTH` (`FieldsAsSent`: never cut).
- A directory is opened like a file; its index.html is tried only where lseek fails on directories (http_request.c:93).
- Any failing open is a 404: no permission, and no descriptor left when many requests are served at once, look like a missing file
  (http_request.c:57, 97; `NotFoundIsMissing` with `refused`).
- Errors of HEAD carry their page (http_request.c:169).
- The first requests at once may move `server_start_time` (http_request.c:205; `UptimeGrows` once it is settled).
- A port beyond 65535, which the message at main.c:56 calls invalid, starts a server on what 16 bits leave of it unless
  that is 0: 65537 on port 1 (main.c:53; `LastValueCounts` for numbers that are ports, and that what runs is in range).
- A root longer than its field is cut, and the beginning of it is used (main.c:69; `LastValueCounts` for those that fit).
- A failing thread_pool_create may hang after setup_signals, and no SIGINT or SIGTERM ends the server then
  (`SignalEndsServer` with `Hung`).
- `max_connections` is validated, printed, and limits nothing (server.h:27).
- `last_active` is set when a task starts only: a slow exchange hands its connection back expired (epoll_handler.c:434).
- `epoll_add_fd` failing in server_run leaves the pool's threads running (server.c:157; `NothingLeft` for all else).

## Proofs

Every safety property that a passing run checks is also a theorem, for every value of the constants that satisfies the
assumptions named in the modules: sizes are natural numbers, `NULL` is no client's name,
a client of ServerLifecycle is none of the process's own resources, the workers and slots of
RequestStats are finitely many, and the read buffer of HttpExchange holds at least one byte
beside its end (`BufferSize > 1`: `FittingServed` speaks of a request that leaves no byte
free). Spurious wakeups, tasks, lines, requests and retries are bounded by constants
that the proofs leave arbitrary. Each module proves one or more inductive invariants and
reads the properties off them.

### Safety and refinement

- `ThreadPoolProofs`: `TypeCorrect`, then `Invariance` of `IInv`, then `TaskOwned`,
  `WorkIsSeen`, `ShutdownIsSeen`, `ReleasedQuiet`. `TaskOwnership` alone is not
  inductive: it needs that the list's nodes are consecutive numbers with `next` of
  each the following one (`head..tail` is the list). `NoSleepOnWork` needs that a
  worker on its way to sleep holds the lock and saw the list empty;
  `NobodyMissesShutdown` needs that it also saw `shutdown = 0`, which is where the
  lock around destroy's broadcast is used; `ReleasedPoolIsQuiet` that a worker exits
  only on an empty list with shutdown set, after which nothing is added.
  `Refinement` is `Spec => ImplementsTaskPool`. A task's status is
  read off the list and the workers (`StatusMap`); `AddTask` is `Submit`, `TakeTask`
  `Start`, `FinishTask` `Finish`, the steps that set shutdown `Close`, the end of destroy and of
  a failed create `Release`; all others stutter. It uses `IInv`: `Start` of the head is
  in order because the list is `head..tail`, and `Release` drops nothing because the
  list is empty then.
- `EpollServerProofs`: `TypeCorrect` and `ResourcesMatched`. Both are unconditional:
  whatever the timeout overtakes, descriptors, epoll instance, table and heap agree.
  `EInv` adds to them that marks belong to
  holders, that `EachOnce` and `AllMarked` hold while `overtaken = 0`, and what the
  drained pool and the empty table are at the end. From it `OneShot`, `HeldProtected`,
  `MarksAreHeld`, `MemorySafe`, `CleanShutdown`. `EachOnce` is the one-shot argument:
  armed, fired, queued, worked on and being registered are disjoint and exactly the
  occupied slots, and each action moves one descriptor from one set to the next.
  `AllMarked` uses it: another worker's close cannot hit this worker's slot, and the
  timeout passes over marked ones.
- `EpollServerRefinement`: `ConnectionsImplemented`, step by step from `EInv`. `Admit` stays
  within the capacity because slots and open connections correspond one to one (`TableIsOpen`, `OpenFits`).
  `Begin` needs that nobody else serves what a worker acquires, and `Fail` that nobody serves what
  could not be passed on: `EachOnce` (`SlotIsFree`). `Close` closes what the worker serves and
  not what has come to its slot since: `AllMarked`. `Expire` leaves alone what is served, because
  that is marked, and leaves nothing else that is overdue, because marks are only on what is served.
- `HttpExchangeProofs`: `XInv` says that the read buffer begins where the last answer ended
  (`Following`: so nothing is answered twice), that there are no more answers than empty lines
  that they cover (`Counted`), and that a plain client is at most one request ahead
  (`OneAhead`). `TypeCorrect` includes that `read` never takes the last byte of the buffer. From them `AnswersEarned`, `Matched`, `PagesKept`, `Fitting`, and
  `Implements`, that every step is one of RequestResponse: an answer is asked for when an
  empty line is sent, and given when the last piece of the answer leaves, which `Counted`
  shows to come after.
- `RequestHandlerProofs`: `HInv` ties the descriptor to the place in the code
  (`OpenBetween`), the size measured to the file (`SizeKept`, unless it has been cut since)
  and the reading to the test for space before it (`Admitted`); `DirStays` follows a
  directory from open to its index. From it `RepliesSound`, `NotFoundMissing`, `DescriptorsClosed`.
- `RequestStatsProofs`: three arguments. `TInv`: the total is the requests finished plus those
  past the increment, so it grows past every total given before one of them began. `CInv`: a
  count lies between what stayed and what was seen, because the table does throughout a request.
  `UInv`: once settled the start never moves, so the clock read later gives the longer
  uptime. From them `TotalsAlwaysGrow`, `ConnectionsPlausible`, `UptimesGrow`.
- `RequestParserProofs`: `PInv` counts the lines that the loop has passed. `header_count` is the
  number of those that count, and the table is full only when as many had a colon (`Progress`), so the
  line at hand is stored just when it is one of the first `MaxHeaders`; each field is that of the
  last such line passed (`Fields`). From it `FieldsSound`, `BodySound`.
- `ServerLifecycleProofs`: `LInv` says what the start-up holds before each of its calls
  (`MadeBefore`) and what is left after each step of the shutdown (`Ending`). From it
  `NothingIsLeft`. `AInv` is about the arguments: the loop goes from odd place to odd
  place (`InPairs`), and of each option the last one passed is what the configuration has
  (`LastPassed`), for a port if it is one and for a root as far as it fits. From it `LastValue`.

### Progress

What a scheduled thread does in the end is liveness. The prover has the temporal rules, but not
ENABLED, on which weak fairness rests, nor induction for a temporal conclusion. The
arguments are proved up to these two.

- *How much is left* needs neither, and is proved of `Spec`: a number bounds the steps that a thread
  still has before it, every step of it lowers the number, and nobody else raises it.
  `TasksEnd` (EpollServer): a task is at most `BufferSize + 6` steps of its worker,
  until the timeout overtakes one. `WorkersWorkIsBounded` (HttpExchange): with retries and a
  client that reads slowly or sends without end it is `BufferSize + WholeWrite + 1`.
  `JoinsEnd` (ThreadPool): while thread_pool_destroy joins there is always a worker
  that can go on, each step of any of them makes `Remaining` one less, and it is zero exactly when
  all have left. `Remaining` counts three for a queued or running task, two for a worker still to get
  the lock and one for one that has it, which is why workers that lose the lock to others do no harm.
- *That it gets less* is proved of `FairSpec`, from the premise that the guards of a thread's steps
  enable it: `TasksAdvance`, `WorkersAdvance`, `JoinsAdvance`, for each number `n`. From there to
  `WorkerReleased` and `DestroyReturns` is the induction over `n`.
- `SignalEnds` (ServerLifecycle) is the whole of `SignalEndsServer`: the way out has at most eight
  stations, each left once, and needs no induction. Its premise is that the main thread can step wherever it has been
  told to stop and is not hung in the creation of the pool.

The premises (`Everyone`, `OwnerCanGo`, `WorkerCanGo`, `MainCanGo`) say that an action is
ENABLED wherever its guards are met. They are state predicates that follow from the definitions
of the actions, each of which assigns every variable; TLC evaluates them as invariants of the
specifications, and they hold on the instances of the runs pool, server_safety, exchange and lifecycle.

### Model-checked only

`DestroyReturns` and `WorkerReleased` beyond what is said above. `ImplementsFairTaskPool`: fairness of the
abstract pool follows from that of the threads only by induction over the tasks ahead in the list.
`BytesAreRead`, `HangupCloses`, `BacklogServed`, `ShutdownCompletes`, `ZombiesReaped` and `EveryRequestAnswered`: each leads
through several threads and through the queue, and needs that induction at each place.
The violations are counterexamples. What the parser and the argument loop compute is proved for lines
and arguments of any number, as invariants of the loops.

## Not modelled

- Logging (utils.c): printing, with no state of the server's own. Its hazards, that lines of several
  threads mix and that the signal handler logs, are behaviour of the C library's locks.
- The MIME table (a constant), `get_current_time`, `http_send_file` and
  `http_send_head` (called by nobody), `http_request_print`, the web pages, the Makefile.
- Names and their lengths: `build_file_path` cuts a path to 1024 bytes; here a path is a node.

## The plan

The modules and theorems planned so far are written. What could still be added:

1. Names in the parser: what the cutting of a long name or value does to the comparison with it.
2. The exchange of several connections over the workers of EpollServer, to say what one slow
   client costs the others.
3. The steps between `Connections` and its temporal properties: which of `BytesAreRead` and
   `ShutdownCompletes` can be had, like `SignalEnds`, without induction.
