# fcgid in TLA+

fcgid is a FastCGI application server: a prefork master (`src/preforkserver.cpp`) keeps a pool of
worker processes that accept FastCGI connections through libfcgi and run Python WSGI scripts in an
embedded interpreter (`src/wsgi.cpp`). This directory holds a TLA+ model of it, the TLC runs that
check the model on small instances, and theorems checked by TLAPS for every instance.

## The system

| part | state | operations | code |
|---|---|---|---|
| start | the options, the configuration file, the listening socket | read, check, listen, turn into a daemon, install the handlers | `fcgid.cpp` `main`, `preforkserver.cpp` `_daemonize`, `run` up to its loop |
| master | `g_keepGoing`, `g_hupReceived`, `m_children` (pid -> descriptor, available), `abnormal_exit` | fill, select, scan, reap, grow, shrink, clean up, signal handler | `preforkserver.cpp` `run`, `_spawnChild`, `_reapChildren`, `_cleanupChildren`, `_hupHandler` |
| worker | copy of `g_keepGoing`, inherited descriptors, `requestCount`, the request in progress | boot, select, accept, notify, handle, recycle, exit | `_childLoop`, `_notifyParent`, child half of `_spawnChild` |
| request timeout | `recv_alarm`, the jump buffer, the armed alarm | arm, disarm, jump out, error page | `_handleRequest`, `timeout_handler`, `_timeout_error` |
| FastCGI request | a libfcgi request | byte streams, parameters | `FCGIRequest`, `httpd.h` |
| script execution | the interpreter's module cache | load, reload, call the application, tear down | `wsgi.cpp` `wsgi_execute_script` and helpers |
| WSGI adapter | status line, headers, content length bookkeeping | start_response, write, output, run, close | `wsgi.cpp` `Adapter_*`, `util.cpp` `ap_getword` |
| log object | line buffer, expired flag | write, writelines, flush, close, deallocation | `wsgi.cpp` `Log_*` |
| input object | `done`, the stream | read, readline, readlines, iteration | `wsgi.cpp` `Input_*` |
| trace | none | write to standard error | `trace.cpp` |

Master and workers share no memory. They interact through

* **fork**: a worker starts with copies of `g_keepGoing`, of the signal handlers and of every open
  master end of its siblings;
* **one socketpair per worker**: the worker sends `\x00` when it takes a request and `\xff` when it is
  free again (`_notifyParent`); the master sends nothing, closing its end is the request to leave; the
  end of file in the other direction tells the master that a worker ended;
* **exit and wait**: a worker that ended stays in the process table until the master waits for it;
* **signals**: `SIGINT`/`SIGTERM`/`SIGHUP` to the master, `SIGINT` and `SIGKILL` from the master's
  cleanup to workers, `SIGALRM` within a process;
* **the listening socket**, non-blocking and shared by all: every idle worker wakes for a connection,
  one `accept` wins it.

### What is hard

The descriptor of a worker, its entry in `m_children` and its process end at three different moments,
in any order of the first two. The master's view of who is available lags behind. Inherited copies of
a master end delay the end of file that tells a worker to leave. Exits are counted to detect a crash
loop, but a worker also exits because it was recycled, retired or shut down. The cleanup relies on an
alarm to interrupt a `wait`. All of it runs while signals, crashes and failed forks may come at any
point, and the start has its own moments: the socket listens, and clients may connect, before the
process has forked itself into a daemon, before the handlers stand and before a worker exists.

Inside a worker, the alarm of `max_execute_time` jumps out of whatever a request was doing and nothing
is undone: a module may be half loaded, objects keep pointing to the request. The script file may be
replaced while it is loaded. The application decides when headers, data and exceptions come, and may
try again after a refusal. `PROJECT.json` lists these hazards at their lines, with the properties that
cover them.

## Modules

| module | models |
|---|---|
| `PreforkState` | the state shared by the two programs: constants and their assumption, variables, process end, `Init` |
| `PreforkMaster` | `run`, `_spawnChild` up to `fork`, `_reapChildren`, `_cleanupChildren`, `_hupHandler` |
| `PreforkWorker` | the child half of `_spawnChild`, `_childLoop`, `_notifyParent`, `SIGINT` in a worker |
| `Prefork` | master, workers and clients together, death of the master, the safety properties |
| `Startup` | `main`, `_daemonize`, and `run` up to its loop |
| `Server` | the whole program: `Startup` and `Prefork`, fairness, the liveness properties |
| `RequestService` | abstract: what the server promises whoever connects to it; implemented by `Prefork` |
| `WorkerTurns` | abstract: what a worker is to the requests it handles; implemented by `Prefork` for all its workers and by `RequestLife` for its one |
| `MCPrefork`, `MCServer`, `MCAdapter` | instances for TLC: symmetry of connections; configuration files at the bounds of `main`'s checks; well-formed and malformed status lines |
| `RequestLife` | one worker's requests in turn: `_handleRequest` with its alarm around `wsgi_execute_script`, the module cache, the objects that outlive a request |
| `WsgiAdapter` | one request's adapter: `start_response`, `write`, `Adapter_output`, `Adapter_run` against any application |
| `Response` | abstract: what a client may see of one response; implemented by `WsgiAdapter` |
| `WsgiLog` | `wsgi.errors`: lines, buffer, flush, close, and who holds the object until it is freed |
| `WsgiInput` | `wsgi.input` over the FastCGI input stream, with the width of `int` |
| `PreforkProofs`, `PreforkRequestProofs`, `PreforkStopProofs`, `ServerProofs` | theorems about `Prefork` and `Server`; each extends the one before it |
| `WsgiAdapterProofs`, `RequestLifeProofs`, `WsgiInputProofs`, `WsgiLogProofs` | theorems about the four modules |

`Serve` of `PreforkWorker` is one step; `RequestLife` opens that step up, and `FindApp ... AppEnds` of
`RequestLife` is what `WsgiAdapter` opens up in turn. What ties the first two is `WorkerTurns`: seen
from outside, a worker is gone, resting or working, and counts its requests. Both modules are shown to
implement it, `Prefork` over `wpc` and `reqs`, `RequestLife` over `rpc` and `req`, so that `Serve` may
be one step there and any number of steps here. They do not agree on how a worker starts, which only
`Prefork` has, nor on what is done in a turn, which only `RequestLife` has. The adapter is checked by
itself; `Server` holds `Startup` and `Prefork` in one state space.

### The prefork server: state and code

`mpc` is where `run()` is: `top` (the `while` test), `fill` (172-175), `select` (177-206), `scan`
(209-248), `reap` (`_reapChildren`), `adjust` (252-266), `grow` and `shrink` (266-290), then
`_cleanupChildren`: `close` (530-542), `wait` (548-562), `kill` (567-573), and `done`; `dead` when the
process was killed. `children`, `file`, `avail` are `m_children`: its keys, and for each `file != -1`
and `avail`. `todo` is what the loop in progress has still to visit; `std::map` iterates in key order,
so it takes the least pid first. `abnormal` is `abnormal_exit`; the clock that resets it is a free
choice. `fds` counts the socketpair descriptors the master has open.

`wpc[p]` is where process `p` is: `born` (after `fork`, with the master's handlers), `boot` (after
`_restoreSignalHandlers`), `select`, `accept` and `read` (the two halves of `FCGX_Accept_r`), `tell`,
`serve`, `report`, `exit`; `none` means the pid is free, `zombie` that the process ended and was not
waited for. `held[p]` are the siblings whose master ends `p` inherited and has not closed. `chan[p]`
are the bytes the master has not received. `sig[p]` are the signals on their
way to `p`: `kill()` only makes one pending, `Sigint` and `Sigkill` of `PreforkWorker` deliver it, at any
later moment. So `run()`, which does not wait after its loop of `SIGKILL`s, may return while workers
still run, serve and hold the port. `conn[c]` is the life of a connection: `new`, `queued`, `taken`,
then `served` or `dropped`.

A step of the model is one system call of one process with the code up to the next one; the two
programs interleave between them.

### The start: state and code

`stage` is where the process that goes on to be the master is: `options` (the command line, lines 28-74
of `fcgid.cpp`), `config` (the file is read, 89), `socket` (its values passed, 99-132), `run` (it
listens, 148), `second` (between the two forks of `_daemonize`), `install`, `ready` (the handlers stand),
`up` (in the loop of `run()`), `returned`; or how it ended before: `usage` (status 0), `refused`
(status 1), `aborted` (the exception of `parse_config_file`), `failed` (`bind`), `lost` (`fork` returned
-1, which `_daemonize` takes for the parent), `killed` (a signal without a handler). `given`, `port` and
`config` are the command line; `Listen` forgets all of it but `daemon`, the only part `run()` looks at.
A configuration file is a function from the keys it gives to values.

`Server` runs the two together: up to `up` only `Startup` moves, except that clients may connect once
the socket listens and that a signal may be noted once the handlers stand; the workers `run()` left
behind go on after `returned`. `RunsPrefork` says that
this is all the start can do to the server: the program refines `Prefork`'s `Spec` with its variables
unchanged, so what is proved of `Prefork` holds of the program.

### Requests in a worker: state and code

`RequestLife`: `rpc` follows `wsgi_execute_script` between the calls the alarm may cut: `root`
(`DOCUMENT_ROOT`, `sys.path`), `lookup` (cached module, `wsgi_reload_required`), `open` (read and
compile), `import` (`PyImport_ExecCodeModuleEx`, which enters the module into `sys.modules` before it
runs it), `stat` (`__mtime__`), `find` (`application`), `app`, `wipe` and `close` (the end of the
request's objects), `fail` (`_output_error`), `disarm` (`alarm(0)`). `cached` is the script's entry of
`sys.modules`, `refs[q]` the objects of request `q` whose `r` is set, `kept` the requests whose objects
the application stored, `out[q]` the pieces of `q`'s response, and what kept logs put into its error
stream, with the request whose object wrote each. A script file is a content and a time in whole
seconds; an edit may give it any of the times, the present one too, and the time is all that
`wsgi_reload_required` sees of it. `past`, a history variable, is everything the file has been.
`Timeout` is enabled wherever the alarm runs and does only what `timeout_handler` and the branch after
`sigsetjmp` do.

`WsgiAdapter`: `pc` says which code of the application runs; wherever it runs it may call
`start_response` and `write` with anything. `statusLine`, `unsent` and `headers`, `contentLength`,
`outputLength`, `result` are the fields of `AdapterObject` (`unsent` for `headers != NULL`). `raised` is
the end of a run whose callable raised, `late` remembers that only `close()` put the headers out. A header
list is reduced to what the loop of `Adapter_output` tells apart: a content length, another header, an
element it rejects. `heads` and `body` are what reached the stream. A status line is a sequence of
digits, blanks and other characters; `GetWord` is `ap_getword`, `Accepted` the two checks after it.

`WsgiLog`: `QueueLine` and `QueueRest` are the two parts of `Log_queue`; between two items of a
`writelines` the application's iterator may call the object again. `Call` tests `r`, as `Log_call` does,
and `Shut` clears it. `life` is who refers to the object: the request's adapter, at most the
application, or nobody, when `Log_dealloc` has run. `RequestCut` is the jump of the alarm past the close,
out of the script or of one of the object's own methods. It leaves the object open, and for ever: the
reference that `wsgi_execute_script` held to the adapter, which owns the log, is lost with its frame, so
no later `Log_dealloc` runs. What its later calls put into other requests' streams is in `RequestLife`
(`UseKept`). `put` is a history
variable: what went out, with the newline that ends each call put back.

`WsgiInput`: `Chunk` is one `GetData` of the loop of `Input_read`, which may deliver any part of what is
left. `size` is a `long`, `length` and what `GetData` is asked for are `int`s: `AsInt` keeps the low bits
of what is left to read. `gone`, `body` and `wide` are history variables.

## What correct means

* **Prefork, safety.** `TableExact`: `m_children` is the set of processes not waited for. `PoolBound`:
  never more than `max(max_spare, max_children)` processes. `BeliefTracks`, `BytesAlternate`: the
  master's view of who is available is exact up to the bytes in flight, and every byte changes it.
  `FdsAccounted`: descriptors are closed exactly once; a failed fork leaks two. `ConnsOwned`: an
  accepted connection is in one running worker. `RequestsKept`: retiring or interrupting a worker, or a
  notification that fails, costs no client its request; only a crash or `SIGKILL` does. `NoOrphans`:
  when `run()` returns, a worker that still runs has `SIGKILL` on its way. `SelfStopJustified`: it ends
  by itself only for crashes. `OnlyBirthDelays`, proved only: a worker waits for the master's end of
  file and for siblings being born, never for one that waits itself, so that closing ends cannot
  deadlock the pool. `ImplementsService` relates every step to the service.
  `WorkersTakeTurns`: the workers implement `WorkerTurns`.
* **The program.** `RunsPrefork`: whatever the options, the file and the moment of a signal, it is the
  prefork server. `PortFreed`: however it ends - a signal at any moment, too many exits, a failed
  start, a master killed from outside - the listening socket is closed everywhere in the end, and for
  good. So `run()` returns, since the master holds it until then. `LetGoLeaves`, `ClientsServed` (also a
  client that came before the first worker), `PoolSettles`.
* **Requests.** `RunsWhole` and `StaleOnlyIfMisled`: which code runs. Old code runs only where the time
  misled `wsgi_reload_required`: the file changed between the reading and the `stat()` of the load, or
  two of its contents had the same time, by a second edit within the second or by one that keeps or
  restores the time. `ExpiredAfterUse`: which objects still reach the request. `PagesLast`: nothing
  follows a timeout page, which may itself follow part or all of the application's output, as when the
  alarm comes between the end of a response and `alarm(0)`; an error page never follows any of it.
  `AlarmFits`, `RequestsEnd`: the alarm ends its request and nothing else, and is on and able to jump
  all through it. `StrayFromTimedOut`: only a kept object of a timed out request can
  write into another's response or error stream. `TakesTurns`: the worker implements `WorkerTurns`.
* **Adapter.** `HeadFirst`, `HeadOnce`, and `ImplementsResponse`, which implies `LengthKept`, that data
  never exceeds the promised length. `ResultTells`: when `Adapter_run` is through, its result is
  `HTTP_OK` exactly if headers went out, with two exceptions that the code has against its comment at
  lines 1065-1070: a callable that raises after `write()`, and a `close()` that is the first to put
  headers out after an iteration that failed. Nobody looks at the result, so no run counts them as a
  disagreement.
* **Log.** `LinesWhole`: what was put out, is buffered and is still being cut makes up the text, however
  it was cut, until the alarm cuts the request short. `CloseFlushes`: nothing is left in an object that
  was closed, or that a request which ended by itself has dropped. `NothingLate`: nothing is put out
  through such an object afterwards, not even by its deallocation.
* **Input.** `NothingLost`: every byte is with the application, on its way or never came.
  `ShortOnlyAtEnd`, `ReadsReturn`; `LengthFits`: the narrowing to `int` ends a wide read early, and just
  by that keeps `length` from overflowing.

## Runs

| run | instance | checks |
|---|---|---|
| `prefork_safety` | 3 pids, 2 connections, pool of 1 to 2, 2 crashes, 1 failed fork, limit 1, failing `select`, interrupted `wait`, the master may be killed; no recycling | the safety properties of each part, and `ImplementsService` (2.0 million states) |
| `server_live` | ports 1024 and 1025, any options, files at and past each bound, an unreadable file; then 2 pids, 2 connections, recycling after 2 requests, 1 crash, restarted `wait`, the master may be killed | the four liveness properties, `RunsPrefork` and `WorkersTakeTurns` (140 thousand states) |
| `prefork_recycle` | 2 pids, recycling after each request, no crash | *violation* of `SelfStopJustified` |
| `prefork_hung` | 2 pids, 1 connection, no time limit, restarted `wait` | *violation* of `HungWorkersKilled` |
| `adapter_safety` | lengths 0, 1, 3, header lists up to 2, chunks up to 2, 5 bytes, six status lines | types, the adapter's properties and `ImplementsResponse` (10,491 states) |
| `adapter_rejected` | the same | *violation* of `AlreadySent` |
| `adapter_cut` | well-formed statuses only | *violation* of `CutOnlyToLength` |
| `life_timed` | 2 requests, 2 contents of the script, 2 times, 2 edits, 2 pieces of output | the properties of requests and `TakesTurns` (993 thousand states) |
| `life_kept` | the same | *violation* of `OwnOutput` |
| `log_lines` | 3 characters, one of them the newline, 5 in all | the properties of the log (1.8 million states) |
| `input_read` | bodies up to 6 bytes, sizes up to 12, `int`s up to 3 | the properties of the input (8,598 states) |
| `input_readall` | bodies up to 4, sizes up to 3 | *violation* of `ReadAllReturns` |

### Disagreements between code and comments

1. **Recycled workers stop the server** (`prefork_recycle`). `run()` counts every end of file towards
   `abnormal_exit`, also that of a worker that left after `max_requests` requests; more than ten in
   quick succession end the server as "Too many worker process exit abnormally".
2. **Hung workers are not killed** (`prefork_hung`). The `alarm(10)` of `_cleanupChildren` interrupts
   `wait()` only where `signal()` does not set `SA_RESTART`; with glibc the `SIGKILL`s are not reached
   while a script hangs.
3. **A rejected status locks the response** (`adapter_rejected`). `start_response` sets `status_line`
   before it checks the status; afterwards headers count as sent, a second `start_response` is refused
   and data goes out without headers.
4. **The content length of a rejected list stays** (`adapter_cut`) and cuts the response that replaces it.
5. **A timed out request's objects reach the next response** (`life_kept`): the jump skips the code that
   clears them, which comments at that code say is there to prevent just this use.
6. **`read()` without a size** (`input_readall`) is an empty branch: NULL without an exception.

Seen while modelling, without a run: `writelines` passes each item to `Log_write` as the argument tuple
and so refuses the byte strings it is meant for; an application that raises before any output leaves
the client without a response, since `Adapter_run`'s result is not looked at; with `min_spare` above
`max_spare`, which `main` accepts, the master spawns and retires workers in turns; the status an
application gives is parsed and kept but never put out; a status line that begins with a blank passes,
as number 0; a failed `fork` in `_daemonize`, and a server that stopped itself, end with status 0.

### Bounds, and why they are enough

*Prefork.* Two workers are needed for every interaction (a sibling holding an inherited end, two workers
racing for a connection, one retired while the other is spawned); the third pid lets a pid be free while
the table is full and lets a new process start beside an unreaped one. Two connections make one worker
busy while another becomes idle, which is what grows and then shrinks the pool, and let one worker
serve twice. In `server_live` one file leaves out three keys and so meets the defaults, the others lie
one step past each bound; one port lies at the bound and one past it. `AbnormalLimit` stands for the
10 of line 241: with a limit of 1 and 2 crashes the limit is passed, and met exactly. One failed fork and one or two
crashes reach each loop that forks or reaps.
`MaxCrashes` and `MaxForkFails` are the only counters that are cut. `prefork_safety` has no recycling,
since recycling is what violates `SelfStopJustified`; recycled workers are in `server_live` and in the
theorems. `ConnSymmetry` permutes connections, which no code orders; pids are not permuted, and no
liveness run uses symmetry.

*Requests.* Two requests are enough for what one leaves to the next, two contents and two edits for a
change, and a change back, during a load; two times let an edit bring a new time, keep the time of the
content before it, or bring back an older one. *Adapter.* Lengths 0, 1 and 3 lie below, at and above one
chunk of 2; 5 bytes pass each of them in two or three writes; lists of two hold a length followed by
another length or by a rejected element. *Log.* Five characters hold two newlines with text on every
side, cut anywhere; `Items(1)` keeps the two items of a `writelines` to one character, which leaves the
iterator room to call in between. *Input.* With three bits an `int` wraps at 8: sizes up to 12 have low
bits that are negative, zero, and small again, and a body of 6 is longer than the largest `int`, 3, so
that a count could pass it. Status lines of `MCAdapter`: one for each way through the two checks.

### Fairness, and why the code justifies it

`WF(MasterCode)` and `WF(WorkerCode(p))`: processes are scheduled; every `select` of the master has a
timeout, and a worker's steps are enabled only when its calls can return. `WF(Starting \/ EnterLoop)` and
`WF(MainReturns)`: so is the process that starts. A worker with a signal on its way needs no fairness of
the delivery: its own steps end it too. `WF(ClientStep(p))`: a client sends its parameters or goes away;
the clients are the web server's, and nothing in fcgid limits that wait (the hazard at line 403).
`WF(Serve(p))`: with `max_execute_time` above 0 the alarm ends every script, which is what `RequestsEnd`
shows of `RequestLife`, and the client reads its response or goes away: the output that `_timeout_error`
(line 346) and `FCGX_Finish_r` (line 411) flush is put out with the alarm off, so a client that does
neither holds its worker for ever. `UntimedSpec` of `Prefork` has neither of the two, for
`prefork_hung`. Nothing is fair about crashes, signals, failed forks, arriving clients or the master's
death. `FairSpec` of `RequestLife` has the worker's own steps and the alarm fair, and no step of the
script. `FairSpec` of `WsgiInput` has the loop and the stream fair: data or an end arrives.

## Proofs

The theorems hold for every value of the constants: any number of pids, connections, crashes, requests,
any lengths, header lists, texts and bodies. The assumptions are `PreforkAssumption` (the ranges `main`
enforces, and a free pid for each worker the master may want), `StartupAssumption` (an accepted file
gives the pool the values of its constants, which is what the constructor does), and
`AdapterAssumption`, `LifeAssumption`, `InputAssumption` and `LogAssumption` (types, and an `int` that
holds 1). `ChecksSuffice` ties the first two together: a file `main` accepts leaves values in just the
ranges `PreforkAssumption` asks for.

| theorem | says | argument |
|---|---|---|
| `TypeCorrect` | `TypeOK` | with `StopInv`: the exit that passes the limit ends the scan and then the loop, so `abnormal_exit` stops there |
| `TableCorrect` | `TableExact` | inductive with the types; forking and erasing change both sides together |
| `PoolBounded` | `PoolBound` | each spawning loop tests its bound before it forks; cardinality of the table |
| `FdsCorrect` | `FdsAccounted` | with `EndsInv`: only table entries are open, and the scan visits open ones |
| `ConnsCorrect` | `ConnsOwned` | inductive; a death releases the connection it holds |
| `BeliefCorrect`, `BytesCorrect` | `BeliefTracks`, `BytesAlternate` | one invariant, `BeliefInv`: neither is inductive without the other, since the last byte decides the belief and the belief decides the next byte |
| `RequestsSurvive` | `RequestsKept` | with `ConnsOwned` and the types: by the worker's steps; nothing else drops a connection that was taken |
| `NoOrphansLeft` | `NoOrphans` | with `KillInv`: every running worker is ahead of the loop of `SIGKILL`s, or has one on its way |
| `SelfStopUnlessRecycled`, `SelfStopSound` | `SelfStopJustified` as long as no worker leaves because of `max_requests`; always if that is 0 | with `LateInv` (signals go to workers whose end is closed, and what `select` reported stays so) and `EarlyInv` (crashes count once, when their end of file is read) |
| `SparesCounted` | `SparesAreOpen`: the pool is judged by workers the master has not let go | with `EndsInv`; whatever closes an end marks its entry, but for the cleanup, which never returns to the pool |
| `NoCircularWait` | `OnlyBirthDelays` | with `TableExact`: copies are made at the fork, of entries, and a pid is handed out again only after they are gone |
| `LateForksLeave` | `ForkedLateLeave`: the spawning loops go on after a signal, but what they fork then touches no connection | a worker tests its copy of `g_keepGoing` once, before it first selects |
| `AskedBeforeForced` | `AskedFirst`: nobody whose end is open gets `SIGINT` or `SIGKILL` from the cleanup | with `LateInv`: the loop that closes visits every entry |
| `TurnsTaken` | `WorkersTakeTurns` | step simulation; `TurnInv`: a worker that may still take a request has taken fewer than `max_requests` |
| `CheckedBeforeUse`, `SignalsKept` | `CheckedFirst`: the program listens and forks only with checked values; `SignalKept`: a signal the handler noted is never forgotten | `StartInv`, by the stages of `main`; no step sets `g_keepGoing` again |
| `HundredWorkers` | at most 100 workers and 100 descriptors, and two per failed fork, of whatever `main` accepts | `ChecksSuffice`, `PoolBounded`, `FdsCorrect` and `CheckedBeforeUse` |
| `PortStaysFree` | when `main` has returned, only workers with `SIGKILL` on their way hold the port; once a server that is ending has let go of it, no step opens it again | `PhaseInv` (no process before the loop; `run()` has returned when `main` has) with `KillInv`; with the master dead and no worker running nothing can fork |
| `Implementation` | `ImplementsService` | step simulation; `PoolBound` and `ConnsOwned` bound the connections in work |
| `StartupCorrect` | `RunsPrefork` | every step before the loop leaves the server's variables alone, or is `Arrive` or `HupHandler` |
| `ChecksSuffice` | the ranges of the pool's constants | from `Accepted` and the defaults |
| `ProgramCorrect` | `ImplementsService`, `WorkersTakeTurns` and the server's safety, of the program | the theorems about `Prefork`, through `StartupCorrect` |
| `AdapterTypes`, `HeadBeforeData`, `PromiseKept`, `OneHead`, `ResultSound` | the adapter's safety; `ResultTells` with its two exceptions | `AdapterInv`: `HeadInv` says what "status line without pending headers" means, `LengthInv` that the stored length is the sent headers' |
| `AdapterImplements` | `ImplementsResponse` | step simulation from the same invariant |
| `LifeTypes`, `ObjectsExpire`, `WholeModules`, `FreshCode`, `PagesApart` | the safety of requests | `LifeInv`: `ModuleInv` (a module has its time only after it ran; while it is loaded it is of a file this request has seen, and once `find` is reached that, a race or a time two contents had), `ObjectInv` (each way out wipes, or never made, the objects), `OutInv` (before the application runs, a request put out nothing itself), `ReqInv` |
| `AlarmsFit` | `AlarmFits` | `NoStrayAlarm` is part of `LifeInv`; only the jump and `Disarm` end the alarm, and both end the request |
| `StrayOutput`, `OwnOutputOtherwise` | `StrayFromTimedOut`; `OwnOutput` without a time limit or without an application that keeps objects | with `ExpiredAfterUse`: a kept object that still writes is of a request that timed out |
| `LifeTakesTurns` | `TakesTurns` | step simulation: `Begin` takes, `Disarm` and `Timeout` are done, a crash leaves, all else stutters |
| `StatusAccepted` | a status line as PEP 333 has it passes the checks | `WordSplit`, and `LeastIs` for where the number ends |
| `SentUnlessRejected`, `SentWhenAccepted` | `AlreadySent` until a status is rejected | `HeadInv` |
| `CutUnlessLeft`, `CutNothing` | `CutOnlyToLength` as long as no rejected list leaves a length behind; for well-formed lists, always | `WholeInv`: until then the stored length is that of the headers sent |
| `WordSplit` | `ap_getword` loses nothing but the stops | both loops end at the first place that fits, since the null character does |
| `NoneLost`, `ShortMeansEnd`, `LengthStaysInt` and `TypeCorrect` of `WsgiInputProofs` | the safety of the input | `Narrow`: a call has at most the low bits of its size, and more than nothing only when these are an `int`; the lemmas `LowBits` and `IntStays` on remainders |
| `TextKept`, `ClosedEmpty`, `SilentWhenClosed` and `TypeCorrect` of `WsgiLogProofs` | the log | `InLoop`: the loop runs only on an open object, `r` is set as long as it is open, and a request that ends by itself closes before it drops; `LineTaken`: a text with a newline is its first line, the newline and the rest |

Four of the violated properties are delimited by theorems that say when they do hold, so that the
cause a run shows is the only one there is: `SelfStopUnlessRecycled` for `prefork_recycle`,
`SentUnlessRejected` for `adapter_rejected`, `CutUnlessLeft` for `adapter_cut`, `OwnOutputOtherwise`
(with `StrayOutput`) for `life_kept`. Their hypotheses are about what happens (no worker recycled, no
length left behind) or about the application. Of the other two, `HungWorkersKilled` is liveness, and
`ReadAllReturns` fails at every call that reaches the empty branch. `LinesWhole` is stated over the joined
text, with the newlines put back, so that no definition has to recur over it. Every safety property and every refinement of a passing run is proved. The
prover knows no liveness under fairness: the four liveness properties (of `PortFreed` the safety half is
`PortStaysFree`; `OnlyBirthDelays` and `AlarmFits` are what `LetGoLeaves` and `RequestsEnd` rest on),
`RequestsEnd` and `ReadsReturn` are model-checked only, and so are the six violations.

## Not modelled

* Below the models: libfcgi and the interpreter. A jump of the alarm out of the middle of a libfcgi, an
  allocator or an interpreter call leaves them in a state the code says nothing about; here it cuts
  between their calls. A jump out of a method of the log may lose the line it is at or leave it to be put
  out again; `WsgiLog` lets the jump come there and does not follow the text any further. Reference
  counts, the pending exception after a jump, and the interpreter's
  recursion depth are left out.
* `SIGTERM` and `SIGHUP` sent to a worker, `setpgid`, descriptor numbers and `FD_SETSIZE`, the listen
  backlog of 5, an unchecked `socketpair` failure. A `SIGALRM` that arrives after `_cleanupChildren` has
  put the old action back ends the process; that is `MasterDies`.
* The environ, names of modules, what `sys.path` holds: they carry data, not control. Of a status line
  the value of its number, a sign before it and its overflow are left out. `sys.exit` in an application is
  one of the ways of `Crash`.
* The residual buffer of the input object, which nothing fills, and its branch for a `GetData` of -1,
  which libfcgi never returns.
* Command lines that do not parse (an exception nobody catches, as for an unreadable file), and what is
  printed. Exit statuses are in the comments of `Startup` only.
* `trace.cpp` writes to standard error, `FCGIRequest` forwards each call to libfcgi, `test_wsgi.cpp` is a
  driver without assertions; none keeps state that the rest reads.

## What could follow

1. `WsgiAdapter` composed with the timeout, as `RequestLife` is with the worker.
2. Safety facts that the liveness properties rest on: a measure that the steps of the shutdown decrease,
   and one for the pool while no client connects.
3. Several scripts in one worker, with `sys.path` and the module names they share.
