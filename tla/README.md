# echocorn in TLA+

A model of [echocorn](../src/README.md), an ASGI server in pure asyncio that
speaks HTTP/1.1, HTTP/2 and WebSocket, runs one or several worker processes,
limits the rate of its clients and can act as a reverse proxy.  This directory
holds TLA+ modules written from the code under `src/echocorn`, the TLC
configurations that check them on small instances, and proofs for TLAPS.

It covers the rate limiter with its abstract specification, the connections of
both HTTP versions, a WebSocket session, the reverse proxy and the life of the
server with its worker processes.  All of it is model-checked, and every part
that has state of its own has theorems, proved for all values of the constants.
The section *Proofs* says which, and *Plan* what is left.

## Inventory

| Part | State | Operations | Talks to |
|---|---|---|---|
| Sliding window (`ratelimit.py:186-320`, `LocalCounters`) | per client: timestamps, one burst, one lockout; insertion order; next sweep | `consume`, `_maybe_sweep`, `_evict_oldest` | called by the limiter, and by the table as its fallback |
| Shared table (`ratelimit.py:323-617`, `SharedCounters`) | slots in shared memory, a mutex per shard, a cursor and a counter per process | `consume`, `_decide`, `_sweep`, `close` | every worker process at once |
| ASGI plumbing (`utils.py:689-994`, `ASGIRequest`) | two bounded queues, two events, flags on how far the response got | `feed_request`, `wait_for_space`, `notify_disconnect`, `mark_finished`, `receive`, `send`, `run_app` | the application on one side, a protocol handler on the other |
| Application task (`utils.py:815-994`) | what the application may still do, what it read and gave | `receive`, `send`, return, raise, abort | the plumbing |
| HTTP/1.1 connection (`http1.py:438-1427`) | buffer, parser state, current request, reader, writer, watchdog, write pause | transport callbacks, reader loop, response writer, refusals | limiter, ASGI plumbing, WebSocket session |
| HTTP/2 connection (`http2.py`) | streams, flow control windows, unacknowledged bytes, deadlines, GOAWAY | event handlers, one writer per stream, watchdog | limiter, ASGI plumbing |
| WebSocket session (`websocket.py:343-773`) | handshake, close flags, receive queue | read loop, `_receive`, `_send_data`, `_send_close`, `close_with` | the HTTP/1.1 handler that runs it, its socket |
| Proxy application (`proxy.py`) | pool of idle upstream connections | connect, forward body, read head, relay, release | it is an ASGI application; upstream servers |
| Server and workers (`server.py`) | connections, lifespan, worker processes, readiness | start, serve, drain, shut down, supervise, reap | creates everything above; signals; the application |
| Redirect listener (`redirect.py`) | one connection, a timer | read a head, answer, expire | - |
| Configuration (`config.py`) | none | parse, validate | - |

What is hard in it:

* *Concurrency in one process.*  Every connection is four kinds of tasks on one
  event loop: reader, writer, one application per request and a watchdog.  They
  share `self._request`, the parser state and the queues, and every `await` is a
  place where any other of them can run.  A cancelled writer still runs its
  `finally`.  Applications outlive the response they gave.
* *Concurrency of processes.*  The table is read and written by every worker,
  under mutexes that time out, and a worker may be killed at any point.
* *Framing.*  On a connection that is kept alive one byte too many or too few of
  a body, in either direction, puts the peer out of step for good.
* *Back pressure.*  Bounded queues and paused transports in both directions, with
  hand-made wake-ups.
* *Time.*  Windows, lockouts, request and keep-alive deadlines, grace periods.

What makes the parts correct:

* the limiter: the window is the same whoever counts; nothing decided by one
  worker is lost by another; an allowance is one for the whole server; a lockout
  is kept until its time is over; a request is always answered;
* a connection: one final answer per request, in order; no head inside a body; a
  body never parsed as a head; an application that is told it has the whole body
  has it; an answer that was given up never looks complete; no task sleeps for
  ever on an event that was already set; what an application leaves open is
  closed for it;
* HTTP/2: no credit is kept or returned twice, a stream that ends carries all of
  its body, the peer learns the end of every stream, the side that finishes last
  forgets the stream, nothing outlives the connection, no writer misses credit or
  the resume of its transport;
* WebSocket: no frame before the answer to the handshake, one close frame, a reader that is paused
  only for a reason, an end that no application can hold up, and that a peer which
  closes is heard;
* proxy: each client gets parts of its own answer only, unless the upstream adds to an
  answer after its connection was given away again, a request is not repeated
  that an upstream may have acted on, every upstream connection has one owner, a
  short answer never looks whole;
* server: connections are drained before the application is told to stop, a request
  in flight keeps its grace period, and no process outlives the server.

## Modules

| Module | Models | Extends |
|---|---|---|
| `SlidingWindow` | both implementations of the window, as operators on dictionaries and on a slot | - |
| `Limiter` | what the limiter promises, abstractly: a set of recent requests, a burst, a lockout | - |
| `DecideAlike` | the two implementations side by side, given the same requests | instances of `SlidingWindow`, `Limiter` |
| `DecideAlikeProofs` | theorems about `DecideAlike` | `DecideAlike` |
| `SharedCounters` | the table: workers, probe runs, mutexes, sweep, death, fallback | `SlidingWindow` |
| `SharedCountersProofs` | theorems about `SharedCounters` | `SharedCounters` |
| `ASGIRequest` | the plumbing of one exchange, as operators on a record | - |
| `Application` | the application tasks of a connection, with their exchanges | `ASGIRequest` |
| `ApplicationProofs` | lemmas about the operators on an exchange and on its queues | `Application` |
| `Http1Connection` | one HTTP/1.1 connection and its tasks | `Application` |
| `Http1Proofs` | theorems about `Http1Connection` | `Http1Connection`, `ApplicationProofs` |
| `Http2Connection` | one HTTP/2 connection, its streams and its tasks | `Application` |
| `Http2Proofs` | theorems about `Http2Connection` | `Http2Connection`, `ApplicationProofs` |
| `WebSocketSession` | the session that took over an HTTP/1.1 connection | - |
| `WebSocketProofs` | theorems about `WebSocketSession` | `WebSocketSession` |
| `Proxy` | the reverse proxy with its pool, and an upstream | - |
| `ProxyProofs` | theorems about `Proxy` | `Proxy` |
| `Server` | the master, the workers, and what each does with its connections | - |
| `ServerProofs` | theorems about `Server` | `Server` |
| `MCDecideAlike`, `MCSharedCounters`, `MCHttp1`, `MCHttp2`, `MCWebSocket`, `MCProxy`, `MCServer` | the instances TLC checks | |

The modules meet at narrow places.  `Server` knows of a connection that it is
quiet, has a request in flight or is a session: what `is_idle` and `shutdown` of
the handlers tell it, and what `ServerShutsDown` of `WebSocketSession` receives.
`Http1Connection` and `Http2Connection` share the application and its queues.

### The rate limiter

`SlidingWindow!Consume` is `LocalCounters.consume` with everything it calls;
`Decide` is `SharedCounters._decide` on one slot, whose timestamps are a ring
with a moving front, wraparound included.  Where the code keeps `None` or `0.0`
for "no burst" and "no lockout" the model keeps 0, and time starts at 1.
`DecideAlike` gives both the same sequence of requests, with sweeps of the slot
in between, and maps each to `Limiter`, which knows nothing of rings, orders and
sweeps: `recent` is the timestamps younger than a window, a burst and a lockout
count while they are in force.  The variable `lockFor` lets one run cover
lockouts of several lengths, none included.

`SharedCounters` is the table under concurrency.  One step of a worker is what it
does between two mutex operations: `Arrive` reads the clock, `Acquire` takes the
mutex of a slot and reads it, `TakeSlot` decides, writes and releases, `NextProbe`
goes on, `Overflow` and `TimeOut` count in the process.  Reading and writing are
separate steps on purpose, so that a mutex that does not protect what it should
would be seen.  `TimeOut` may happen whenever the mutex is held: LOCK_TIMEOUT is
short against nothing in particular.  The sweep visits slots with a mutex that is
not waited for.  `Die` kills a worker anywhere between two steps.  `home` is the
hash of each client, any function at all.  `served` is a history variable: who
allowed how many requests of which client at what time.  The actions correspond
to `consume` (470-513), `_sweep` (566-604), `_degrade` (606-617), `close`
(453-467) and `RateLimiter.check` (680-692); creating, attaching and starting the
table is `Init`.

### The application and the HTTP/1.1 connection

`ASGIRequest` turns each method into an operator from one record to the next:
what `send` notes before it queues, what is queued at once and what waits, what
`run_app` still sends for an application that returned, raised or aborted
(`LastWords`), what `mark_finished` and `notify_disconnect` wake.

`Application` is the task on the other side, the same for both protocols: it
receives, sends one of a set of messages, returns, raises, raises `ResponseAborted`
or is cancelled, and sleeps where `receive` and `send` sleep.

`Http1Connection` has one variable per attribute of the handler that matters, the
location of the reader, the local variables of `_write_response`, and one record
per application.  What the client sends is a fixed sequence of tokens: heads and
units of a body, `nil` for the last chunk of a chunked one, `big` for a unit that
exceeds `max_request_size`, `bad` for one the chunk decoder rejects.  `arrived`
and `read` are positions in that sequence; the buffer is what is between them.
One step is what a task does between two awaits.  A step of the reader that the
code continues without an await (from a head to its body) may be interrupted
here, which only adds behaviours.  `heads` and `open` describe the wire: the heads
written, each with the response whose body was still open when it was written.
A transport may answer every write with `pause_writing`.

Left out of this module: the read watermarks, `more_trailers`, responses whose start message already ends them, and the clock
(the watchdog and the keep-alive timeout may fire at any time they are armed).
Compression changes the size of what is written and nothing here.  The branch
that answers 500 for a writer that ends before any head (`http1.py:1224`) cannot
be reached by an application whose sends are not cancelled, and is left out.  The applications are arbitrary within what `send`
accepts, but send in turn (`InTurn`): no interim answer after the final one and
nothing of a body after its end.  `Careful` adds the assumption that one which
announced trailers ends its body first; the runs `http1_trailers` and `http2` drop
it.

### The HTTP/2 connection

A batch of received frames is a sequence of events, `inbox`, handled one by one
with no other task in between, except that an event may close the connection and
the rest of the batch is handled all the same (`http2.py:157`).  `h2` is external:
it turns frames into events, keeps the windows of the peer (`outConn`,
`outStream`) and refuses what the state of a stream does not allow.  Each stream
has a record for `_H2Stream`, one for its writer (`_write_response`, `_send_data`
with its local variables), one for its application.  Writers sleep on two
events that they share, that of the window (`window`, `woken`) and that of the
transport (`paused`, `resumed`): `OnWindowUpdated` and `ResumeWriting` set them and
wake who sleeps, and a writer that wakes looks again, because another one may have
taken the credit or the transport may be paused anew (`SleepsOn`).  A writer ends as
it should, with an exception that is logged (`WriterFails`), or with trailers that no
section was opened for; `FinishResponse` is the `finally` of `_write_response`, which
all of them pass.  `BlockRefused` is a head or a trailer section that `h2` refuses.
`received` and `returned` count the credit of DATA frames: what came in, and what
the peer was given back by `receive`, by the end of a stream, or by its reset.
What goes wrong (resets, oversized uploads, refusals of requests and of blocks,
exceptions of a writer, deadlines, GOAWAY, errors) is `Trouble`, and only its number
is bounded; the connection may be closed or lost at any point beside it, and the
transport paused and resumed while a response is being written.  An exception and a
refusal are looked for in the blocks the application sends itself: those of
`run_app` are well-formed.

### The WebSocket session

Four tasks share a session: the runner (`run`, in the reader task of the
connection), the application under `_guard_app`, the reader of frames, and one
task per `shutdown` of the server that says goodbye.  Every write is put in line
behind a socket that may be paused, and `SocketWrites` performs any of those in line,
since a task that runs between the resume of the socket and the wake-up of a waiter
writes at once (`http1.py:505-510`, `989-1005`); cancelling a task takes its write out
of the line.  The application sends whatever the checks of `send` let through, and
they do not look at whether the handshake was answered before: it may refuse and then
accept, or refuse twice.  What is sent to a session that is closed and raises or is
dropped changes nothing and is not a step.  The queue towards the application pauses
the socket when it is full (`Delivered`, `Puts`, `AppReceives`).  `net.cut` notes
that a close frame was cancelled in line, `net.early` that the server shut down
before the handshake was answered.  A frame is a message, a ping, a close or a
fault of the protocol.  A positive `request_timeout` is assumed (with 0 a handshake
that is not answered waits for ever), and that a cancelled task ends.

### The proxy

An exchange goes through `_http`: take an idle connection or make one, send the
head and the body, read a head (interim ones are passed over), relay the body in
one of its framings, and return the connection or close it.  A step ends at an
await; at most one attempt is repeated, on a new connection.  The upstream takes a
request and answers with a script (whole, cut short by `UpstreamCloses`, malformed,
too large, with a body that was announced and must not be there, or with a surplus
that looks like another answer), of which any number of units arrives at a time:
`UpstreamSends` may bring the rest of one while the answer is relayed, while its
connection is in the pool, or after the connection was taken by another request.  It
closes whenever it likes, which the proxy learns later (`EofArrives`).  Bytes know
the request they belong to, which the proxy cannot see: what comes on a connection
that is in use is the answer to whoever holds it.  `stray` and `misled` are history:
a connection is led astray when an earlier answer goes on while somebody else holds
it, and a request is misled when a connection that has been led astray brings it
something.  `Refuses` stands for what is refused in the middle of a body, a malformed
chunk or an answer that has become too large; a request may be cancelled at any await.

### The server

A worker is loading, starting (its listener is open and its application has been
asked to start), serving, draining, forcing (sessions that were told at the last
moment), ending (the application is told to stop) and gone; the master is also
waiting for the others to report in, and reaping them at the end.  `redirects` is
the mode in which the master serves the redirect to HTTPS and nothing else.
`Terminate` is SIGTERM or `request_stop`: it sets an event while the event loop
has its handlers, and kills before and after.  `Kill` is a crash or SIGKILL of any
process, `Hang` an application that does not give its event loop back.
Deadlines (readiness, startup, grace period, `WorkerGroup.stop`) may pass whenever
they are armed.  A connection is listed when it is accepted, before its handshake,
and stays listed when the handshake fails, as in asyncio.  `ShutDown` is the
`shutdown` of a handler: it closes, but a session first says goodbye.  One thing is
coarser than the code: asyncio accepts a connection in a task of its own, and one
that was accepted in the very turn of the loop in which the listener closes is
listed only after the drain; here it is listed at once.  Another is coarser too: the
shutdown of a connection in its TLS handshake finds no transport, so that it stays
open, unlisted and deaf (`server.py:323-333`, `406-410`); here it is over.  And one
thing is assumed: `EndsServing` takes the master on to `WorkerGroup.stop` after the
`CancelledError` of an application that did not stop in time, as the `finally` of
`_start_server` does (`server.py:1306-1308`); no property would notice if it did not.

## Runs

| Run | Bounds | What it shows |
|---|---|---|
| `decide_alike` | 2 clients, allowance 1, peak 2, window 3, time 6, lockouts of 0 and more | both implementations implement `Limiter`, step by step; the ring stays in its bounds |
| `shared_table` | 3 clients, 2 workers, 2 slots in 2 shards, 2 probes, window 2, lockout 3, time 3, 4 requests, one death, a dictionary of one entry | `NoLostUpdate`, `OneSlotPerClient`, `LockoutKept` |
| `shared_lag` | 1 client, 1 slot, window 4, time 6, 4 requests, clock may move 1 during a decision, one death, fair workers | `AllowanceHeld` with its slack, `AloneAllowanceHeld`, `Answered` |
| `http1` | 2 pipelined requests in four streams, queues of one message, 3 and 1 messages per application, drain limit of one unit, the connection retires after two | framing, order, delivery, wake-ups |
| `http1_ends` | the first of those requests, fair tasks | `EndedMeansAnswered` |
| `http2` | 2 streams, one with one DATA frame and up to 2 messages of its application (a start that announces trailers, a body, trailers), messages of 1 and 2 units, windows of 1, batches of 2, one reset allowed, one trouble beside the end of the connection, any number of pauses; without `Careful` | credit, wake-ups, ends of streams and of the connection |
| `websocket` | queue of one, 3 messages of the application, 2 of one that has refused, 2 frames, 2 shutdowns by the server, fair tasks | no frame before the answer, one close frame, back pressure, `SessionEnds`, `PeerHeard` |
| `proxy` | 3 requests, one with a body, pool of one, 3 connections, seven kinds of answers, cut into any segments | whose answer, how often, whose connection, how whole |
| `server` | a master and a worker, 2 connections, a limit of one, fair processes | `DrainedFirst`, `GraceKept`, `ServerEnds` |
| `sweep_lockout` | 2 clients in 2 slots, a sweep after every request | *violated*: see below |
| `http1_trailers` | `http1` without `Careful` | *violated*: see below |
| `http2_credit` | one stream, one DATA frame, no trouble | *violated*: see below |

Why the bounds are enough.  A table of two slots with runs of two is the smallest
in which runs of different clients overlap, overflow, and lose their front to a
sweep; three clients overflow it.  Window and lockout are short against the time
that passes, so that stamps age out while others are written; the lockout is the
longer of the two, so that a sweep meets one whose stamps have all aged out.  With a peak above
the allowance the ring has three places and wraps within the six units of time.
Queues of one message make a sender and the reader wait at the first message too
many; the code's 16 and 32 only delay that.  Two requests are enough for a
response to be read as part of another, and three messages for an application to
start, send data and end, or start, end and send trailers.

Two streams are what it takes for writers to compete for a window and an event,
for one stream to be starved by the credit of another, and for a batch to go on
behind a reset; a body of two units does not fit a window of one and is cut.  One
trouble falls into what the applications do (which may abandon a stream as well)
and into pauses, the close or the loss of the connection; two troubles, like a stream
that is reset while the writer of another fails, are more than a run can explore.  The
first stream has the trailers, since they and an exception are the ways in which a
writer leaves its stream untold; the body with data on that run is the one `run_app`
gives for the second.  A session has one of each task by nature;
a queue of one is full after the first message, three messages are an answer, data
and a close, and the second shutdown meets a session that is already closing.  An
application that refused is left the message it refused with and one more, which is
enough to accept after all, to refuse twice, or to end the body of a refusal; what
it does in longer sequences only the theorems cover.
Three proxied requests are one to fill the pool, one to find it and a third to
meet what the second left; three connections let a retry have a new one while
others are held.  Each request has two or three of the kinds of answers, so that each
kind meets a request that comes before it and one behind it on the connection; the
surplus is a whole head, the worst a parser can make of it.  A master with one worker has every order of their ends; the
states explored within the time of a run with two workers, and with three
connections and a limit of two, showed nothing else.  Two connections and a limit
of one are a connection that is refused, and one that is served beside one whose
handshake failed.

`AllowanceHeld` deserves a word.  Stated for the window as it is, it does not
hold once the clock moves between the reading of the clock in `RateLimiter.check`
and the write under the mutex: a request that waited writes an old stamp behind
younger ones, the front of the ring is not the oldest any more, and the sweep
takes the last stamp for the newest.  The property therefore allows twice
`MaxLag`, and TLC finds it violated with less.  In the code that lag is bounded by
`PROBES` times LOCK_TIMEOUT.  The clients it speaks of are those whose slots
nobody else uses, or all of them while nothing was swept: the run `sweep_lockout`
shows why.

### Disagreements

A run shows each of these:

* `sweep_lockout`: clearing a slot (`ratelimit.py:601`) breaks the probe runs that
  pass through it.  A client stored further along is given a fresh window in the
  cleared slot, during its lockout, against `ratelimit.py:30-31`.
* `http1_trailers`: trailers before the end of a chunked body end the exchange
  (`http1.py:1194-1201`) without the last chunk, and the connection stays open,
  against `http1.py:1054-1056`.  `ASGIRequest._finish` (`utils.py:971-974`) does
  this for every application that announces trailers and returns early.
* `http2_credit`: when a response ends, the credit of what its application has not
  read goes back (`http2.py:954`, `651`), but the messages stay in its queue, and
  reading one returns its credit again, against `http2.py:566-567`.

Others were met while modelling and are not runs, because no text of the
repository says otherwise in so many words or because the models leave out what
would show them:

* `config.py:206-208,219` and the comment at `ratelimit.py:268` promise a burst up
  to `ratelimit_peak`; the burst is stamped by its first request
  (`ratelimit.py:266-271`, `551-554`), so a window admits one request more than the
  allowance and no more.  A test asserts the behaviour of the code.
* An abort between the body and its announced trailers leaves the writer waiting
  for the watchdog (`utils.py:923-926`), and so does an application that cancels
  its own last send (`utils.py:874-875`).
* A GOAWAY is said to close the socket "as soon as nothing is in flight"
  (`http2.py:415-417`); a stream that ends by a reset does not look.
* An application that ignores the close of its WebSocket "only gets
  `graceful_timeout` to notice" (`websocket.py:436-437`), and gets it twice:
  `_wait_for_app` waits once and `_cleanup` (line 763) waits again.  On the other
  hand a server that shuts down counts sessions as idle and asks them again in every
  round of the drain; the second time finds the session closed and cancels its
  application without any grace (`http1.py:524-534`, `server.py:962-967`).
* An application that fails before it accepts is to "wake `_await_handshake` at once
  instead of hanging on timeout" (`websocket.py:489-490`); one that raises
  RuntimeError does, one that raises anything else or returns lets the handshake
  wait for its deadline.
* A message that waits for a paused socket is written behind the close frame that
  another task sends meanwhile (`websocket.py:637`); a close frame that waits in
  line is never written when its task is cancelled, which `OneFarewell` excludes;
  and a server that shuts down during the handshake writes a close frame before the
  answer (`websocket.py:453-464`), which `AnswerFirst` excludes.
* An application that closes before it accepts and then accepts has both a 403 and a
  101 written, and one that closes twice two 403s: `_accept`, `_close` and `_reject`
  do not look at whether the handshake was answered (`websocket.py:598-600`,
  `639-643`, `656-670`).  `AnswerFirst` speaks of one 101 only for an application that
  never refuses.  A refusal whose headers raise leaves its flags set, and the handshake
  to its deadline or to the end of the application.
* On HTTP/2 an application that announces trailers and returns before it ended its body
  has its exchange ended with neither END_STREAM nor a reset: `_finish` sends trailers
  for it (`utils.py:963-974`), and the writer stops at them (`http2.py:908-913`).  The
  cause is that of `http1_trailers`, here seen as a stream the peer waits for.
* A start message without a status passes `send` (`utils.py:834`) and raises in the
  writer (`http2.py:813`), which logs it and finishes (`929-954`): a stream whose
  request had ended is forgotten without a word to the peer.  These two are what `GoneMeansTold` excludes.
* Bytes beyond an answer that arrive once its connection was given to another request
  are read as the answer to that one: the proxy looks at the buffer when it pools and
  when it takes a connection (`proxy.py:243-245`, `869-874`), and can tell nothing from
  bytes that come later (`208-213`).  `OwnAnswer` says that there is no other way.
* A request may be sent again "when the failure happened before the answer started"
  (`proxy.py:72-73`); the code also repeats one whose answer had started to arrive
  and was refused, on a connection that was reused (`proxy.py:749-768`).
* A TLS handshake that fails leaves its connection in `_connections`: asyncio tells
  the protocol neither that it was made nor that it was lost.  Each such entry
  counts against `max_connections` until the server stops.
* An application that does not stop in time is cancelled and awaited
  (`server.py:557-561`); the `CancelledError` of that await leaves `_shutdown` and
  `serve`, so "Shutdown complete" is not reached and the process ends with an
  exception.  The master still stops its workers (`server.py:1306-1308`).
* An application that answers `lifespan.startup` after its ten seconds is served
  (`server.py:539`), and is never told `lifespan.shutdown`.
* A listener that cannot be bound after the shared table was created leaves the
  segment behind (`server.py:1245-1267`).

### Fairness

`Answered` assumes that a worker that is alive takes its next step: `consume` runs
to its end without returning to the event loop, and `acquire` has a timeout.
Nothing is assumed of arrivals, of the clock or of a killed worker.
`EndedMeansAnswered` assumes weak fairness of the reader, of the writer, of the
wake-ups of an application (tasks the event loop has made runnable), and of
`resume_writing`; not of the peer, of the watchdog, or of what an application
chooses to do.  A transport can pause only in answer to a write, so weak fairness
of the resume is enough.  A peer that never reads keeps a transport paused for
ever; that case is the watchdog's, whose reset ends the exchange.

`SessionEnds` and `PeerHeard` assume weak fairness of the reader, of the runner
with its timers, of tasks that wait for room in the queue, and of the writes in
line: a paused socket is resumed or lost one day.  A session has no watchdog, and a
peer that never reads and never leaves does hold one until the server stops.
Nothing is asked of the application: it may sleep for ever.

`ServerEnds` assumes that a process that is alive and not hung takes its next step
and that its grace period passes, and of the master that its deadlines pass.
Nothing is asked of peers, of applications or of whoever sends signals.  A worker
whose event loop is held by its application ends only by the SIGKILL of a master
that stops in order; a hung master is out of reach of everything but SIGKILL.

`Http2Connection` and `Proxy` are checked for safety only; what might sleep for ever
in the former is the invariant `NoMissedWakeUp`.

## Proofs

Each `*Proofs` module proves its theorems for every value of the constants that
satisfies the assumptions of the module it is about, and from nothing else.  What
is proved of the runs' properties, and what is not:

| Component | Proved | Only model-checked |
|---|---|---|
| shared table | `TypeOK`, `NoLostUpdate`, `OneSlotPerClient`, `AllowanceHeld`, `AloneAllowanceHeld`, `LockoutKept` | `Answered` |
| window | `TypeOK`, `LocalIsLimiter`, `SharedIsLimiter` | - |
| HTTP/1.1 | `TypeOK`, `AnswersInOrder`, `HeadsOutsideBodies`, `HeadsNeverReadFromBodies`, `WholeMeansWhole`, `GivenUpStaysOpen`, `NoMissedWakeUp` | `EndedMeansAnswered` |
| HTTP/2 | `TypeOK`, `NoCreditLost`, `NoMissedWakeUp`, `GoneMeansTold`, `EndedIsWhole`, `FinishedIsForgotten`, `LostMeansOver` | - |
| WebSocket | `TypeOK`, `AnswerFirst`, `OneFarewell`, `PausedForAReason` | `SessionEnds`, `PeerHeard` |
| proxy | `TypeOK`, `OwnAnswer`, `SentOnce`, `OneOwner`, `WholeMeansWhole` | - |
| server | `TypeOK`, `DrainedFirst`, `GraceKept` | `ServerEnds` |

The proofs are laid out alike.  An invariant `IInv`, which TLC checked on the
instances of the runs before it was proved, is a conjunction of named parts; one
lemma per operator of the model says what it does to the state, one per action or
per part that the part is kept, and the theorems are what `IInv` implies.

### The window

`DecideAlikeProofs`, from `DecideAlikeAssumption`, for any clients, allowance, peak,
window, lockouts and capacity for all the clients:

* `TypeCorrect`: `Spec => []TypeOK`.
* `DictionariesLimit` and `SlotsLimit`: `Spec => LocalIsLimiter` and
  `Spec => SharedIsLimiter`.  The dictionaries of `LocalCounters` and the slots of
  `SharedCounters` both implement `Limiter`, so they answer the same requests alike.

The inductive invariant `Inv`, which TLC checked on the instance of the run, says of
each client that its stamps are in order, at most a ring of them and none ahead of the
clock, that its burst and lockout are times the clock can have given, that a slot
nobody has is empty, and that the burst of a slot is no younger than its last stamp.
That last part is why freeing a slot is a stutter of the limiter: `Sweepable` looks at
the last stamp and the lockout, never at the burst.  The refinement then takes three
steps:

* *What is left.*  `Gone` says where the stamps that have expired end; that place is
  unique (`GoneOnce`), and `DropAged`, `Unexpired` of the limiter and the ring read
  past `AgedOut` all leave what is behind it (`DropAgedIs`, `UnexpiredIs`, `AgedOutIs`).
  What is left later is the rest of what is left now (`RestAgain`), so a tick of the
  program is one of both limiters, and what a sweep may drop (`Swept`) counts for no
  later answer (`SweptSame`).
* *One client.*  `Outcome` is what either implementation makes of the stamps that
  still count; `Serves` is what the limiter makes of a request; the one is the other
  (`OutcomeServes`).
* *Both implementations.*  `Consume` is a sweep and then an `Outcome`, and leaves what
  counts of the other clients (`ConsumeIs`); the capacity never evicts anybody, since
  all clients have room (`RoomForAll`).  `Decide` is an `Outcome` on the ring:
  `WrittenIs` shows that after the front has moved on and the new stamp is written,
  over the end of the ring if need be, the stamps are those that were left and the
  new one behind them.

### The shared table

`SharedCountersProofs`, from `WindowAssumption` and `SharedAssumption`:

* `TypeCorrect`: `Spec => []TypeOK`.  The inductive invariant `TypeInv` adds to
  `TypeOK` the types of what it does not mention and that a worker that probes or
  sweeps has a request and slots left to visit.  The work is in `Decide`: that
  `AgedOut` is a number of stamps the slot has, whence the ring index stays in the
  ring (`AgedOutType`, `DecideType`).  Since `AgedOut` is a CHOOSE, its existence
  is proved from well-foundedness of the naturals (`LeastNatural`,
  which the proofs about other modules need too and state for themselves).
* `NoUpdateLost`: `Spec => []NoLostUpdate`.  `NoLostUpdate` is inductive over
  `TypeInv`: a worker that takes a mutex finds it free, so nobody else is between
  its read and its write in that shard (`OneHolder`), and a release frees only the
  worker's own (`HoldKeeps`, `ReleaseKeeps`).
* `OneSlot`: `Spec => []OneSlotPerClient`.  Not inductive by itself.  `PlacedInv`
  says where a client can be: every slot a client sits in is one of its probes,
  and all probes before it belong to others; and every probe a worker has passed
  is taken by somebody else.  Both stay true because slots are only ever given up
  by a sweep.  Two slots of one client would then each be before the other.
* `LockoutsKept`: `Spec => LockoutKept`, the action property.  A decision keeps a
  lockout that is in force *at the time it decides for*, which may be behind the
  clock; that a lockout in force on the clock is in force then is `LockInv`, which
  says that nobody decides for a time ahead of the clock, and that a free slot has
  no lockout left.  Below it are lemmas on each way the counters of a process forget:
  the sweep of its dictionary, the eviction of the oldest and the decision itself
  (`MaybeSweepBans`, `EvictOldestBans`, `ConsumeBans`).
* `TheAllowanceHolds`: `Spec => []AllowanceHeld`.  What was allowed is a history; a
  decision sees a slot.  `AllowInv` ties them: whatever the table allowed a client
  since a time that no decision can age out any more is in the client's slot, as
  many stamps that are no older, and is at most the allowance, plus one if the
  burst is no older (`Covered`).  With no slot, nothing was allowed since.  A
  decision (`DecideIs`, `DecidedRecent`, `DecidedAccounts`) drops only stamps that are
  too old to matter and writes the one it allows.  What makes the sweep harmless is
  `AllStamped`: no stamp that counts is more than `MaxLag` ahead of the last one, so
  a slot whose last stamp has aged out holds none that matters.  That is where the
  slack of twice `MaxLag` comes from: once for the decision that writes late, once
  for the sweep that believes the last stamp.
* `TheAloneAllowanceHolds`: `Spec => []AloneAllowanceHeld`, by the same argument on the
  dictionaries of a process (`Remembers`).  A process decides in the order of its
  requests, so it needs no slack: what it allowed since a time it cannot age out at
  `LastTime`, the time of its last decision or of the one it is at, is in the
  client's deque.  `DropAgedIs`, `MaybeSweepIs` and `ConsumeIs` say what each way to
  forget leaves.

### The HTTP/1.1 connection

`Http1Proofs`, from `QueueAssumption`, `ApplicationAssumption` and
`ConnectionAssumption`; `OutsideBodies` also from `Careful`, as in the run (without
it the statement is false, as `http1_trailers` shows).

Any task of the connection may end it, and then every request is touched.  A step
is therefore described from three sides, and every action of `Next` is shown to fit
the description: what it does to one request (`Moves`: the request is begun, fed,
refused, taken down, written for, read by or spoken for by its application, or left
alone), what it does to the reader and to the request the connection is on (`Tasks`,
`Steps`), and what it puts on the wire (`Wires`, `WireIs`).  The parts of the
invariant are then proved one by one:

* `Control`: while the connection is open it is idle exactly when it is on no
  request, and the request it is on has the writer, or an answer that is complete
  while the reader waits to go on.
* `Reading` and `Dispatched`: what was read belongs to the current request or to
  earlier ones and what was not to it or later ones, so requests are dispatched in
  the order of their heads, and what follows a request that is over is a head.  The
  last part is `HeadsNeverReadFromBodies`; it needs to know that a connection whose
  body was not consumed is not kept.
* `Told` and `Passing`: the units an application had, those in its queue and those
  the reader still holds make up the body; the end comes behind the last of them.
  `WholeMeansWhole` follows.
* `Sides`, `WriterOf` and `Answering`: how far the exchange, the application and
  the writer are.  As for HTTP/2, the messages the writer has not taken yet are a
  line: a start before anything else but interim answers, an end only from an
  application that did not give up, trailers behind the end of the body.
* `OnWire`, `OpenBody`, `StaysOpen`, `ClosedAnswers`: what the wire shows of an
  answer is what its writer did.  A body that is open belongs to the request the
  connection is on; an answer that stopped in the middle of one closes the
  connection, so the next head finds no open body (`HeadsOutsideBodies`), and only an
  application that went to the end has the end written (`GivenUpStaysOpen`).
* `DataSeen`, `Spaced`, `Asleep`: who sleeps, and what for.

`TypeCorrect`, `InOrder` (`AnswersInOrder`), `OutsideBodies`
(`HeadsOutsideBodies`), `NeverReadFromBodies` (`HeadsNeverReadFromBodies`),
`WholeBodies` (`WholeMeansWhole`), `GivenUp` (`GivenUpStaysOpen`) and `NoneMissed`
(`NoMissedWakeUp`) follow.

### The HTTP/2 connection

`Http2Proofs`, from `QueueAssumption`, `ApplicationAssumption` and
`ConnectionAssumption`, and without `Careful`.

A step of the connection may touch every stream at once: the loss of the
connection takes all of them down, a batch may reset one and close the rest.  So
the step is first described as seen by one stream: `Moves(i)` lists the eight
things that can happen to it (it is refused, begun, fed, taken down, written by its
writer, read from or spoken for by its application, or left alone), and every
action of `Next` is shown to move every stream in one of these ways.  What is
inductive is then proved per stream and per move:

* `Sides`: the exchange, the stream record, the writer and the application agree on
  how far the request is; an exchange is complete exactly when its writer is done.
* `Mail`: of what the peer sent, a head is in the batch at most once, before the
  stream has a writer.
* `Roomy`: what is queued for an application and what is still in the batch do not
  exceed what the peer sent, so `feed_request` never meets a full queue.
* `Credits` and `Awake`: the bytes on the stream's account (`unacked`) cover what was
  received and not returned, and are never more than its queue still holds; a writer
  that waits for window has none or will be woken by an event of the batch being
  handled; and one that waits for the transport finds it paused, since whoever resumes
  it wakes them all.
* `Answering`: the messages that the writer of an answer has not seen yet form a
  line, those in the queue followed by those the application waits to queue.  The
  line opens with a start message unless the writer has one, only its last body
  message ends the body, and the units written and in line are those the application
  gave.  `EndedIsWhole` is what is left of this when the line
  is empty, and it cannot be had without it: the writer learns of the end from the
  line, long after the application spoke.
* `EndedWhole`, `Told`: what was so when a writer ended stays so.  A writer that ended
  as it should (`done`) had ended or reset its stream, since the trailers that end an
  answer are those of an open section or behind a head without a body.

`TypeCorrect`, `CreditComesBack` (`NoCreditLost`), `NoneOversleeps`
(`NoMissedWakeUp`), `PeerIsTold` (`GoneMeansTold`), `WholeAnswers`
(`EndedIsWhole`), `BothSidesForget` (`FinishedIsForgotten`) and `NothingIsLeft`
(`LostMeansOver`) follow.  `NoCreditLost` says that credit is not lost;
that it is not returned twice is false, as `http2_credit` shows.

`ApplicationProofs` holds what both protocols need: which fields of an exchange
each operator of `ASGIRequest` sets, and how the number of messages of a kind in a
queue changes when one is added or taken.

### The WebSocket session

`WebSocketProofs`, from `SessionAssumption`.  Four kinds of tasks write to one
socket, and a paused socket performs the writes in line in any order: `SocketWrites`
takes whichever of them.  What makes the order come out right is that a task waits for
one write at a time (`Lined`), that a write in line is one its task is waiting to make
(`Writers`), that the flags of the session tell which answers are out or in line
(`FlagsTell`), and that a write which needs a predecessor is only put in line when the
predecessor went out (`Order`).  Nothing in it says that the handshake is answered
once: `OneAnswer` says so of an application that never refuses, because `_accept` sets
`handshake` before it writes.  `OneClose`, `AllOver` and the properties complete the
invariant.  Theorems: `TypeCorrect`, `HandshakeAnsweredFirst` (`AnswerFirst`),
`OneFarewellEach` (`OneFarewell`) and `NoIdlePause` (`PausedForAReason`).

### The proxy

`ProxyProofs`, from `ProxyAssumption`, for any answers and however they arrive.
The proxy cannot see whose bytes it reads, so `OwnAnswer` rests on what a connection
still brings, `Stream(c)`: what was received and is not read, and what the upstream has
yet to send.  One in the pool has nothing in its buffer when it is taken, and as long
as it was not led astray it owes no answer and no body that was only announced
(`Pool`); a surplus may still be on its way, and then leads astray whoever holds the
connection when it comes.  One that is held and was not led astray has brought only
what answers its owner, and an announced body only right behind its head (`Serving`,
`Straight`).  That an answer is whole is a matter of framing, whoever it belongs to:
the units of a stream follow each other as their heads announce (`Streams`, `Framed`),
and what comes next to an exchange that relays is the next part of what it relays
(`Underway`), also one that was misled.  `NoneLost` says that an open connection is
pooled or held, `Tries` how often a request was sent and what was known of the answer
at each attempt, `Parts` what its client was given.  Theorems: `TypeCorrect`,
`AnswersAreOwn` (`OwnAnswer`), `SentAgainSafely` (`SentOnce`),
`ConnectionsAreOwned` (`OneOwner`), `WholeAnswersAreWhole` (`WholeMeansWhole`).

### The server

`ServerProofs`, from `ServerAssumption`, for any number of workers and
connections.  `DrainedFirst` speaks of connections that are served; inductive is
that every connection a worker has is listed from its acceptance on, before its
handshake (`AllListed`), that a worker whose application is told to stop has none,
not even one in its handshake (`Emptied`), and that those served are within the
limit (`Limited`).  Theorems:
`TypeCorrect`, `ApplicationsStopLast` (`DrainedFirst`), and `RequestsKeepTheirGrace`
for the action property `GraceKept`.

### What proving changed

The attempts found these places where a model held for the instances checked and
not in general:

* the types of `Http2Connection` bounded the number of resets by `MaxResets`; a
  batch in which several streams are reset goes past it, with the connection closed
  on the way (`http2.py:157`).  `TypeOK` now says so;
* `SharedCounters` counted what was served with a sum over times.  `ServedIn` is now
  how many requests there are, the cardinality of a set, and the bound on time is at
  least 1;
* `SlidingWindow` kept the order in which clients enter a dictionary as a sequence,
  filtered by each sweep.  It is now the relation that sequence stands for, and the
  clients, whose number the capacity is compared with, are finitely many;
* `Application` did not say that `Requests` is finite;
* `WebSocketSession` took every write of a cancelled task out of the line, where a
  task can only wait for one; it now takes that one;
* `Http1Connection` kept the units the reader holds as a sequence of their kinds,
  which forgot where in the stream they came from.  `taken` is now the set of their
  positions, and `WholeMeansWhole` can say that what is passed, queued, held and
  still to come is the body.

* `Limiter` filtered stamps by their age one by one, and so did the mapping of
  `DecideAlike`, where the code drops from the front until one is young enough
  (`ratelimit.py:252-254`, `538-541`).  The two agree as long as stamps are in order, which
  `TypeOK` now states; `Unexpired` and `Newer` drop from the front.  The views that
  the instances of `Limiter` are given have names, and the assumption says that
  time has a first instant that is not behind the last one and the capacity is a number.

### What is left to TLC, and why

Liveness (`Answered`, `EndedMeansAnswered`, `SessionEnds`, `PeerHeard`,
`ServerEnds`) needs ENABLED and fairness, which are outside of what the prover
handles.  Every other property of a passing run is a theorem.

## Plan

What would come next:

1. *HTTP/1.1, second part*: read watermarks, cancelled sends and the 500 of a writer
   without a head.
2. *Proxy, second part*: the tunnel of an upgraded connection.
3. The window of HTTP/2 as a ledger of credit that the detailed one implements,
   once credit is returned once.

## Not modelled

Parsing of heads, chunks, headers, frames and options (functions on bytes; their
outcomes are inputs), TLS, compression, logging and configuration.  Of the proxy
the tunnels of upgraded connections (`proxy.py:388-700`); of the server the sockets
it binds and Ctrl-C, which differs from SIGTERM before the handlers are in place;
of the redirect what its answers say.  Timeouts have no length: wherever a deadline
is armed it may pass, so nothing that depends on which of two is shorter is shown.
