# TLA+ models of libreactorng

libreactorng is an event library for Linux: a per-thread reactor on top of
io_uring (`reactor.c`) and, on top of it, message queues, signals, timers,
streams, a server, a resolver, file notification and data-flow graphs. This
directory holds TLA+ modules translated from `src/src/reactor/*.c`, the
configurations that model-check them with TLC, and proofs that TLAPS checks.
`PROJECT.json` maps every definition to the lines it models and lists the runs,
the mutants that each property is known to catch, the hazards and the theorems.

## 1. Inventory

| Part | State it keeps | Operations | Talks to |
| --- | --- | --- | --- |
| reactor core (`reactor.c`) | pool of `reactor_user_t`, two vectors of scheduled calls, the ring, cached time, a reference count, all thread-local | one wrapper per io_uring request, `reactor_next`, `reactor_cancel`, `reactor_async`, `reactor_loop`, `reactor_loop_once` | kernel by the rings; clients by callbacks |
| rings (`reactor.c:42-126`) | head and tail counters shared with the kernel, entries | `reactor_ring_sqe`, `_flush`, `_cqe`, `_update` | kernel |
| pool (`pool.c`) | chunks, stack of free objects, number handed out | malloc, free, size | reactor core |
| queue (`queue.c`) | per producer two buffers, an offset and a write; per consumer a buffer and a read; a pipe | push, push_sync, pop, pop_sync, open, close | reactor, across threads |
| signal (`signal.c`) | an eventfd, a read, the counter it fills, an abort pointer | open, send, send_sync, close | reactor, other threads |
| timeout (`timeout.c`) | time, delay, a timespec the kernel reads, one operation | set, clear, destruct | reactor |
| stream (`stream.c`) | one input buffer, two output buffers, a read, a write, offsets, an abort pointer | open, read, consume, write, flush, close, destruct | reactor |
| server (`server.c`) | sessions with a stream, a timeout, an abort pointer and a scheduled call | open, accept, respond, disconnect, close | stream, timeout, http |
| notify (`notify.c`) | an inotify descriptor, a list of entries, two hash tables of them, a read, a scheduled call | add, remove, open, close | reactor, map, list |
| network (`network.c`) | resolver cache, tasks of resolve, connect and accept, resolver threads | resolve, accept, connect, cancel | `reactor_async`, map |
| flow (`flow.c`) | nodes, groups with threads, edges that are queues, a counter of senders per node | node, connect, start, send, log, exit, stop | queue, `reactor_async`, value |
| http (`http.c`) | none: framing of requests, writing of responses | read request, write response | stream, picohttpparser |
| json, value (`decode.c`, `encode.c`, `value.c`) | reference counts, arrays, objects; the stacks of the two automata | decode, encode, hold, release, append, set | map, vector, string |
| map (`map.c`) | a table with open addressing | at, insert, erase | - |
| string (`string.c`) | none: UTF-8, JSON strings | get, put, encode, decode | buffer |
| buffer, list, vector, data, hash | containers and views of memory | functions | - |

What is hard to get right, and where:

- **Addresses as identities.** A user's address is the user_data of its request,
  the id that a client cancels, and is reused as soon as the operation ends. A
  cancellation is queued and names an address.
- **Callbacks that change what called them.** Every layer calls the client in
  the middle of a function that goes on afterwards; the client may close,
  destruct, reopen, schedule, cancel or submit there. The layers guard
  themselves with an `abort` pointer into the caller's frame.
- **Cancelled is not undone.** A cancelled read, write or send may still take
  place, into or out of memory that has another use by then.
- **Pieces.** The kernel may take or bring part of what was asked, be
  interrupted, or post several completions for one request.
- **Limits.** A full submission ring makes an API call enter the kernel in the
  middle of a callback; counters wrap around; writes above `PIPE_BUF` are not
  atomic.
- **Waiting.** The loop blocks on a condition made of two counters; a queue or a
  stream resubmits its own operations and stalls if it forgets one.

- **Threads.** Resolver threads write cache entries that the reactor thread
  reads; the groups of a flow share messages, and must all end.

There is no persistence in the library, so nothing is recovered after a crash.

What makes each part correct: an operation is answered once and by the right
callback, and not at all once it was cancelled (reactor); no object is handed
out twice or leaked (pool); rings are FIFO queues (ring); elements arrive whole,
once and in order (queue); the counts reported add up to the signals sent
(signal); no alert is early, skipped, or made after a clear (timeout); the bytes
sent and read are those written and received, and no buffer changes under the
kernel (stream); requests are passed on as they were sent, in order, and
sessions are freed in time (server, http); tasks are answered once and freed in
time, with addresses that were found (network); the tables agree with the list
and events are reported (notify, map); messages are counted exactly across
threads, and the flow ends (flow); JSON and nothing else is accepted, and comes
back as it was (json, string), with nothing leaked (value).

## 2. Modules

| Module | Models | Used by |
| --- | --- | --- |
| `Pool` | `pool.c` as operators on a record | `Reactor` |
| `Reactor` | `reactor.c`: users, API, loop, kernel | `MCReactor`, `ReactorProofs` |
| `Operations` | what the reactor promises its clients (abstract) | refined by `Reactor` |
| `Ring` | index arithmetic of both rings | `MCRing`, `ReactorProofs` |
| `Fifo` | a bounded FIFO queue (abstract) | refined twice by `Ring` |
| `Queue` | `queue.c` and the pipe | `MCQueue`, `FlowProofs` |
| `Channel` | what a queue promises (abstract) | refined by `Queue` |
| `Signal` | `signal.c` and eventfds | `MCSignal`, `MCTimeout`, `SignalProofs` |
| `Timeout` | `timeout.c`, the clock and the kernel's timers | `MCTimeout`, `TimeoutProofs` |
| `Stream` | `stream.c` and the descriptor | `MCStream`, `StreamProofs` |
| `Http` | the reading half of `http.c` as operators | `Server` |
| `Server` | `server.c`: sessions and their requests | `MCServer`, `ServerProofs` |
| `Network` | `network.c` with `reactor_async()`: tasks, cache, threads | `MCNetwork`, `NetworkProofs` |
| `Map` | `map.c` as operators on a table | `Notify`, `NotifyProofs` |
| `Notify` | `notify.c` and inotify | `MCNotify`, `NotifyProofs` |
| `Flow` | `flow.c`: nodes, groups and threads over queues | `MCFlow`, `FlowProofs` |
| `Utf8` | the UTF-8 and JSON half of `string.c` as operators | `Json` |
| `Json` | `decode.c`, `encode.c` on the values of `value.c` | `MCJson` |
| `ReactorProofs` (with the pool and the rings), `SignalProofs`, `TimeoutProofs`, `StreamProofs`, `ServerProofs`, `NetworkProofs`, `NotifyProofs`, `FlowProofs` (with the queue) | proofs | - |

The `MC` modules extend the module they check and define the constants that are
no simple values; the others are in the `.cfg` files. Definitions that a comment calls a mutant are variants of the
definition that follows, with a plausible mistake; no specification uses them.

### Layers

`Reactor` is checked against `Operations`. The modules above the reactor
(`Queue`, `Signal`, `Timeout`, `Stream`, `Notify`, `Network`, and `Server`
above `Stream`) use operations the way `Operations` describes them: submitted, ended by the kernel at some time, answered by one
callback later, silent after a cancellation although the kernel may still carry
them out. They do not repeat the reactor. In the same way `Reactor` has its two
rings as sequences and `Ring` shows that the counters implement sequences,
`Flow` has queues as `Channel` promises them (ordered per producer, nothing
lost while nobody closes), and `Json` has objects as the functions that the
tables of `Map` implement.

### Reactor

`pool` is `reactor.users` (a record with the free stack, the size and the number
handed out), `user` what is stored at each address, `next` and `current` the two
vectors of scheduled calls, `sq` and `cq` the rings, `kernel` the requests in
flight, `pc`, `index` and `cur` the position in `reactor_loop_once()` and the
entry being handled. The wrappers of `reactor.c:354-626` differ only in the
request they fill in and in how often it completes, so `Issue(kind)` stands for
all of them: `once`, `multi` (`reactor_poll_add_multi`) and `zc`
(`reactor_send_zerocopy`, a result and a notification). `Submit` has both
outcomes of `reactor_ring_sqe()`: there is room, or the entry waits in `pend`
while `reactor_ring_flush()` is inside the kernel. `CancelRequest` and
`CancelNext` are the two branches of `reactor_cancel()`. The loop is one action
per place where control leaves to a callback or to the kernel, because clients
run there: `LoopNext`, `NextCall`, `NextReturn`, `NextClear`, `Enter`,
`EnterReturn`, `CqeCall`, `CqeReturn`, `CqeEmpty`. The kernel takes submissions
in order, inside `io_uring_enter()` only, and posts completions at any time.
`gen`, `target` and `ops` number the operations; they are history and decide
nothing.

### Ring

Counters modulo `Modulus`, slots modulo the sizes, overflow list of the kernel.
An operation completes once, any number of times (`Multi`, multishot polls) or
twice (`ZeroCopy`, a result and a notification). `slot` is what the `cqe` pointer
of `reactor_loop_once()` points at after `reactor_ring_cqe()` has given the slot
back; it is read before the callback (`CqeRead`) and after it (`CallReturn`).
`taken` is history: the completion that was in the slot when it was given back.
`fits` says whether the completions that were posted and not handled, the one at
hand included, never exceeded the ring.

### Queue

A producer is its two buffers, the offset and the write; `ProducerUpdate` is
`queue_producer_update()` (swap, then write at most `WriteMax` elements), called
by push and by the completion. A consumer is its batch, the position in it and
the read; `ConsumerRead` and `ConsumerReturn` are `queue_consumer_read()` up to
and after each call of the user's callback. Sizes of writes are in bytes, so
that a pipe may take part of an element when a write exceeds `PipeBuf`. A read
may end at any time, also while its consumer is in the callback: a callback that
asks for more may fill the submission ring and so enter the kernel, which then
writes over the batch that is passed on (`spoiled` is the history of that). In
`Channel` this is `Overwrite`, of a consumer that is `eager`.
`orphans` are cancelled operations that may still take place.

### Signal

The eventfds ever created, the reads (with the id the pool gives them), the
number of asynchronous writes to each eventfd, the `signal_t` with its counter and abort pointer. `Open`
passes the counter to `eventfd()` as flags, as the code does. Reads are carried out
at any time, in the callback too: it may fill the submission ring.

### Timeout

`timeout.tv` is the one timespec that all submissions of a timer point at. An
operation reads it when the kernel takes it (`Take`), in the loop or in a callback that fills the
submission ring, not when it is submitted.
`Alert` is `timeout_timeout()`: a periodic timer is submitted again before the
callback is called.

### Stream

Bytes are numbers, so that the content of every buffer is visible. `Update` is
`stream_update()`, called by open, flush, `stream_send()` and, after the
callback, `stream_recv()`. Sockets append what is sent, files take it at
`output_offset`. `Closed` gives away the buffers that the kernel uses. A stream
is opened once, as in all code that uses streams.

### Http and Server

The input of a session is a sequence of cells, each of which is never cut: the
start and the end of a head, the size of a chunk, the end of its line, a byte of
a body, each of the two bytes behind a chunk. `ReadRequest` is
`http_read_request()` on what has arrived, with `Sized` and `Dechunk` for the
two kinds of bodies; `DechunkRound` is one round of the two loops of
`http_dechunk()`, which go over the same chunks. Lengths have `Width` bits, so
that the sum of head and length can wrap. What a peer sends (`Wire`, `SentUpTo`)
is defined beside it, so that what the client gets can be compared with it: the
body of any request, of a GET too.

A session is its flags, its abort pointer, the call it has scheduled and whether
its memory is allocated. Its stream is what module `Stream` promises: input or
the end, until it is closed. `server_session_read()` is split where it calls the
client: `SessionRequest` (a request is passed on), `Return`, and the two ways
out, `ReadBad` and `ReadDone`. `Closed` is `server_session_close()`, which frees
the session if it is READY; `Respond` and `Disconnect` are the client's calls,
made in the request callback or later. `scheduled` has the calls of
`reactor_next()`, numbered in their order. `found` caches what `ReadRequest` makes
of the input. `server.accept` is reduced to whether sessions may be created; the
timer that refreshes the Date header is left out.

### Network

`task` has every task ever created, so that a use of a freed one is visible.
Functions that call a client and go on afterwards are frames on `stack`
(`Client`, `Done`, `Cancelling`, `Connected`, `Deliver`); `Answer` and the
`Unwind` actions take them off again. While a `Client` frame is on top the
client may open, resolve and cancel. `Released` is the release of a task with
all that hangs on it. The cache has for each name the address, its expiry, the
requests that wait, and the thread: `none`, `running`, `looked` (it has stored
its result, `reactor_async_return()` is still to come). The thread's step
`Lookup` interleaves with everything; that is where `reactor_async()` is
modelled. `queue` has the resolve tasks whose call is scheduled; a task is
scheduled when it is created, so the call of the oldest is the next one. `Calls`
finds the call of a client in a step by its height in the stack, as it may take
the place of the answer whose last user it is.

### Map and Notify

A table is a function from places to elements, key 0 being vacant. `MapErase`
moves elements as `map_erase()` does (`MapEraseStep` is a round of its loop,
`Displaced` its test of places);
`MapInsert` first doubles a table that is half full. `Notify` has the list of entries and both tables, the read, the scheduled call and the kernel's
watches. `Add` gets a new watch, or the one there is when its path names a file
that is watched already. The one buffer is `batch`, the events that
`notify_read()` has still to handle (`handled` are behind it), and `brought`, what
a read that is done has filled: a read that the callback has started may be
carried out in a nested flush, and one that was cancelled at any time, and both
write over what is left of the batch (`Overwritten`, `Lost`). `failed` has the
descriptors for which the assertion failed. A `notify_t` is opened once.

### Flow

The graph is built by the actions `Node` and `Connect`, so one run has all
graphs; the constraint `Canonical` of `MCFlow` leaves one of those that are
alike. Queues are the sequences `out` (in the producer, not yet written) and
`queue`; threads go through `created`, `loop`, `over`, `returned`. What the
modules of nodes do is the client: a node without sources has a timer until it
exits, callbacks send, log and exit. An edge within a group is a call, on which
nothing is sent further. The count of a message is atomic (`value.c:13` declares
it so) and is followed through every queue.

### Json and Utf8

One action for each state of `value_decode()` and of `value_buffer_encode()`.
The text is made up token by token as the decoder looks at it, so that all texts
of the bounded length are decoded; `heap` has the values with their counts,
`Release` frees recursively. What was decoded is encoded and released. The
reference (`Docs`) is the grammar of JSON, as the set of all short texts with
their meaning. White space and pretty printing are left out. `Utf8` has the
automaton of `string_utf8_decode_code()` with its table, and the text of JSON
strings as pieces (a character, an escape, four digits). The initial states with
a `sample` apply it.

## 3. Runs

| Run | Shows | Bounds |
| --- | --- | --- |
| `reactor` | pool, addresses, order of scheduled calls; `KeepsPromise`: the reactor implements `Operations`; `CallsCome`: cancelled operations are closed and scheduled calls run; deadlock is checked | 3 operations of all kinds with chunks of 2 users and a ring of 1 entry: addresses are reused, chunks are added, the ring is flushed from callbacks, a cancellation can be overtaken by the end of its target |
| `ring` | `RingsInOrder`: both rings are FIFO queues; `UsersKept`: users are called and freed for the completion that was taken, if what is posted fits the completion ring | an operation that completes once, a multishot and a zero-copy one, submitted again and again; counters modulo 4, rings of 2, which the completions of one multishot poll overflow by 1; deadlock is checked |
| `queue` | `KeepsChannel` (the queue implements `Channel`), also where a read is carried out, over the batch, in the callback; what is pushed is delivered | 2 competing consumers and 3 pushes, or 4 once there is one consumer (`Few`): two batches, so that the second can overwrite the first; a pipe of 2 elements, writes of 2 that may be taken by halves, batches of 2, one interruption |
| `signal_timeout` | signals: conservation, reporting; timeouts: alerts are not early, not skipped, silent after clear, and come | 5 signals, 2 opens; clock 0..3, 2 sets, delays 0, 1 and 2 |
| `signal_reopen` | **violation** (finding 1) | 4 signals, 2 opens |
| `stream` | exact output and input; buffers that the kernel uses stay, and nothing is called or touched after close or destruct; progress | 4 bytes out, 2 bytes in |
| `server` | requests framed as sent, answered in order and served; sessions freed neither early nor never | 2 sessions; 5 scripts with bodies, chunks, a GET with a body, a malformed request and one whose length wraps; reads of 1, 2 and 5 cells |
| `network` | tasks freed neither early nor never, told once, truthfully, and answered | 3 tasks, a name and a numeric host, a clock that expires the cache |
| `notify` | both hash tables agree with the list; the assertion fails for watches that the kernel removed or two paths share only; events are reported; a closed `notify_t` comes to rest | 3 watches on 3 paths whose hashes collide and wrap, tables of 4 places that grow; 2 events, each of which may delete a file, so that a batch has a second one while the client is told of the first; a third path is watched only before that (`Few`) |
| `flow` | counts of shared messages, order of sign-offs, a clean end, and that there is one | all graphs of 3 nodes, 3 groups and 2 edges; one message, sent on or logged once |
| `json` | the decoder accepts JSON only and rejects nothing that JSON begins with, the encoder gives it back, values are counted; UTF-8 is exact | all texts of 9 tokens over two keys, a number, null and a malformed number; characters at the boundaries of UTF-8 |
| `json_ascii` | **violation** (finding 2) | strings of two of those characters |

The reactor's run is small because its invariants are also proved for all sizes
(section 4). Two nodes that share a target, a chain, a cycle and a doubled edge
are all among the graphs of `flow`; with two messages the run still passes and
takes five minutes. Nine tokens are enough for an object with two equal keys,
and for a container in a container of either kind.

`signal_timeout` checks two modules that have nothing to do with each other:
`MCTimeout` lets one of them move only as long as the other has not (`MCSignal` is for
`signal_reopen` alone),
so that every behaviour of either is there and their states add up. The
constraints `Few` of `queue` and `notify` cut off states that only a push, a
close, an interruption, an event or a call of the client leads to, none of which
the specification must take: the behaviours that the liveness properties are
about are whole.

The bounds are the smallest at which the cases that the code treats differently
all occur; each property has a mutant in `PROJECT.json` that TLC refutes within
them. `CHECK_DEADLOCK FALSE` is used where a system may stop: everything was
sent, closed or counted. In `reactor` and `ring` it may not: the loop can always
be entered.

Fairness, in the `FairSpec` (`FairQueueSpec`, `FairSignalSpec`; `BothSpec` of
`MCTimeout` has that of both of its modules) of each module:

- `Reactor`: the thread keeps running (callbacks return and the client calls
  `reactor_loop()` again), the kernel takes submissions, and ends requests that
  it was asked to cancel and zero-copy sends whose result was posted. Nothing
  makes another request complete. This is what a running thread and
  `IORING_OP_ASYNC_CANCEL` give.
- `Queue`, `Signal`, `Timeout`, `Stream`, `Server`, `Notify`: completions are seen by the loop and
  callbacks return (that is the reactor's liveness), the kernel carries out an
operation that it can carry out, and time passes. No client has to push, send,
  ask or flush. In `Stream` weak fairness of `KernelRecv` and `KernelSend` says
  that the peer sends and takes data; a failure remains possible and ends the
  claim. In `Notify` the read is started and cancelled again and again, and there are not
events at all times: strong fairness of `KernelRead` says that it brings events
in the end.
- `Network`: threads end, callbacks return, and the loop comes to every scheduled
  call and every completion although others are always there (strong fairness):
  it makes all scheduled calls in each round and takes completions in order.
- `Flow`: threads and the kernel go on, and a node with a timer exits in the end.
  That other nodes which feed queues exit too is a premise of `Ends`.

### Findings

1. `signal_reopen`: `signal_open()` calls `eventfd(0, signal->counter)`: the
   arguments are an initial value and flags, and the counter still holds what
   was reported last. After a report of 2 or more, opening fails and the
   assertion at `signal.c:14` ends the program. After a report of 1 the eventfd
   becomes a semaphore, which is how the test in `test/signal.c` passes.
2. `json_ascii` (`AsciiKept`): `string_utf8_get_encoded()` puts the two halves of a
   surrogate pair together by `0x10000 | ...` where 0x10000 is to be added
   (`string.c:179`), so characters of planes 2, 4, ..., 16 written in ASCII come
   back as others. `src/README.md:230` promises "fully compliant JSON notation".
   `StringsKept`, which the run `json` checks, is the claim for all other
   characters.

Other properties hold with an exception or under an assumption that the code
does not enforce. Each is stated in the property or in the module.

- *Queue.* `queue_producer_write()` asserts that a write comes to whole elements
  (`queue.c:47`), but writes of up to 128 elements exceed `PIPE_BUF` for
  elements of more than 32 bytes, and a nearly full pipe may take part of an
  element unless the size of elements divides that of pages
  (`WholeElementsAssumption`).
- *Ring.* `UsersKept`: `reactor_loop_once()` reads `cqe->flags` (`reactor.c:295`)
  after the slot was given back to the kernel (`reactor.c:116`) and the callback
  has run. If completions are posted until the ring is full, the slot holds
  another completion by then, and a user is freed early or never. It takes no
  more operations than entries for that: a multishot poll completes often.
- *Queue.* A callback that asks for more (`queue_consumer_pop()`) and fills the
  submission ring lets the kernel write into `consumer->input` while
  `queue_consumer_read()` goes through it (`queue.c:144-151`). Elements of the
  batch are then replaced by ones of the next: `Overwrite` in `Channel`, and the
  exception of `Flows`.
- *Reactor.* `reactor_cancel()` of a `reactor_async()` id overwrites a user that
  the thread reads without synchronisation (`reactor.c:195`, `:311`). No
  component does that.
- *Signal.* `Conserved` and `Reported` are claimed for a signal opened once: the
  cancelled read of a closed signal may still write `signal->counter` after a
  reopening.
- *Server.* `FreedInTime` and `Served`: `server_respond()` overwrites
  `session->next` (`server.c:178`). When a session is answered late, gets input
  and is answered late again before its scheduled call has run, two calls are
  pending and only the second can be cancelled; if the session is then freed,
  the first is made on freed memory. Without the condition TLC reaches this in
  14 steps. The model lets a client disconnect a session after answering it only
  in the request callback: elsewhere `server_respond()` may have freed the
  session, because the peer closed meanwhile; `server_next2()` in
  `test/server.c` does it regardless.
- *Http.* `Framed`: the content length is added to the size of the head without
  a check (`http.c:213`). Near the greatest length the sum wraps, and the request
  is passed on at once with a body outside of the input. A GET is passed on
  without looking for a length or an encoding (`http.c:198-202`), so if the peer
  sends a body with it, the next request is looked for in that body. `Framed`
  claims nothing behind either.
- *Network.* `FreedInTime`: a request that waits for a thread is copied into the
  cache and its resolve task freed, while the task it resolves for keeps the id
  (`network.c:241`); the client must not cancel it then. `Truthful`: a second
  request for a name between the storing of the result (`network.c:193`) and its
  report frees it, and all are told of a failure, although identical requests
  are to be consolidated (`src/README.md:584`).
- *Notify.* The kernel removes the watch of a deleted file; removing the entry
  later, or closing, fails the assertion at `notify.c:68`. So does removing the
  second of two entries whose paths name one file, as `inotify_add_watch()` has
  given both the same descriptor; their element of `notify->ids` goes with the
  first. `AbortsOnlyOnDeleted` says that it fails for no other watch, and
  `TablesAgree` holds until a watch is shared. `notify_close()` cancels the
  scheduled call, and removing the entries schedules it again: the `notify_t`
  must stay until then, but `test/notify.c:26-27` frees it at once. `Settles` and
  `Reported`: a cancelled read may take events of watches that were added later;
  and a read may write over the events that `notify_read()` has still to handle,
  when the client adds an entry in its callback.
- *Flow.* The library tells no node that what feeds it has exited, so a chain of
  groups ends only by what its modules agree on (`Ends` has it as a premise).
  Calling `flow_exit()` twice signs off twice; messages may reach a node before
  it is created in its thread or after it was destroyed.
- *Json, string, value.* An ill-formed character swallows the byte that shows it
  (`string.c:152`), which may be the closing quote or the end of the text.
  `value_object_set()` of a member to itself frees the value before it holds it
  (`value.c:310-311`). A number whose exponent has a leading zero, such as 1e09,
  is rejected (`decode.c:95`), which JSON allows: it is among what `Malformed`
  stands for.

## 4. Proofs

TLAPS proves these theorems of the specifications (`Spec`, `SignalSpec`, `QueueSpec`), for every value of
the constants: every size of chunks, rings, elements, batches and pipes, every
subset of request kinds, every set of delays, cuts or hosts, any number of
operations, sends, bytes, sessions or tasks, of producers and consumers, and
every graph of nodes and groups. The bounds of the runs are constants too, so they are no
restriction here.

| Module | Theorem | Statement |
| --- | --- | --- |
| `ReactorProofs` | `Invariance` | `Inv` is an invariant |
| | `TypeCorrect` | types; the submission ring never exceeds its size |
| | `PoolIsExact` | `PoolExact`: users handed out are those of unfinished operations, no two share one, and `pool_size()` counts them |
| | `CancelIsAimed` | `CancelHitsItsTarget`: a cancellation taken by the kernel names no other operation's request |
| | `CallbacksBelong` | a completion is passed to a callback of the operation it completes |
| | `NextIsInOrder` | `NextInOrder`: scheduled calls run in the order they were scheduled in |
| | `CancelSilences` | after `reactor_cancel()` the original callback is not called |
| | `LoopIsDone` | with `pool_size()` 0, every operation was answered |
| | `ProgressInvariance` | `Progress` is an invariant |
| | `SleepsOnSomething` | `NeverSleepsOnNothing`: the loop blocks only while something will wake it |
| | `PromiseIsKept` | `KeepsPromise`: the reactor implements `Operations` |
| | `RingsInvariance` | `RingInv` is an invariant |
| | `RingsAreInOrder` | `RingsInOrder`: both rings implement `Fifo` |
| | `UsersAreKept` | `UsersKept`: completions are read late, and users are called and freed for the right ones, while what is posted fits the ring, whatever number of completions an operation has |
| `SignalProofs` | `Invariance` | `SignalInv` is an invariant |
| | `SignalsConserved` | `Conserved`: no signal is lost or counted twice |
| `TimeoutProofs` | `TimeoutInvariance` | `Inv` is an invariant |
| | `OneOperationAlways` | one operation of a timer can call back |
| | `NeverEarlyAlways`, `OnScheduleAlways`, `ClearSilences` | `NeverEarly`, `OnSchedule`, `SilentAfterClear` |
| `StreamProofs` | `Invariance` | `Inv` is an invariant |
| | `SendsExactly`, `ReceivesExactly` | `OutputExact`, `InputExact`: no byte is lost, repeated or overtaken |
| | `MemoryIsSafe` | `MemorySafe`: buffers of the kernel stay, nothing is touched after its end |
| `ServerProofs` | `Invariance` | `Inv` is an invariant |
| | `AnswersInOrder` | `AnsweredInOrder` |
| | `SessionsFreedInTime` | `FreedInTime` |
| | `ReadFacts` (lemma) | what `http_read_request()` finds in the beginning of a request |
| | `FramedInvariance` | `FramedInv` is an invariant |
| | `RequestsAreFramed` | `Framed`: the client gets the requests that were sent, however the input is cut, up to a length that wraps or a GET with a body |
| `NetworkProofs` | `Invariance` | `Inv` is an invariant |
| | `TasksFreedInTime` | `FreedInTime` |
| | `TellsTheTruth`, `ClientsToldOnce` | `Truthful`, `ToldOnce` |
| `NotifyProofs` | `Invariance` | `Inv` is an invariant |
| | `AbortsOnDeletedAlways` | `AbortsOnlyOnDeleted`: the assertion of `notify_remove_entry()` fails only for a watch whose file was deleted or that two paths share |
| | `InsertFacts`, `EraseSound` (lemmas) | what `map_insert()` and `map_erase()` leave in a table |
| | `TablesInvariance` | `TablesInv` holds until a watch is shared |
| | `TablesAgreeAlways` | `TablesAgree`: the tables hold the entries of the list, and each is found, until a watch is shared |
| `FlowProofs` | `Invariance` | `Inv` is an invariant |
| | `References` | `Counted`: a message is held as often as queues refer to it |
| | `ClosedBehind` | `ClosesLast`: a consumer closes behind the last message |
| | `StopsClean` | `EndsClean`: no thread, node or message is left |
| | `QueueInvariance` | `QueueInv` is an invariant |
| | `ChannelIsKept` | `KeepsChannel`: the queue implements `Channel` |

Assumptions on constants are named where they are declared: `ChunkSize` and
`RingSize` are positive, bounds are natural numbers, `Requests` is a set of the
three kinds, `Delays` a set of natural numbers, `Cuts` one of positive numbers,
`Expiration` a natural number, and no numeric host is also a name. Keys of a
table are positive and their hashes natural numbers, any that there may be;
`MinCapacity` is a power of two up to 256. `Groups` is
finite and has `Main` in it. The sizes of the rings are positive, divide the
modulus of the counters and are less than it; those of the queue are positive, writes
come to whole elements, and no producer is a consumer. What peers send to the server are sequences of requests of five kinds, of which
a GET and one with a length may have any body; chunks are not empty, as an
empty one would be the last, and only a chunked request has them (`RequestType`,
used for `Framed` alone). Nothing else is assumed.

*The argument for the reactor.* None of the properties is inductive. `Inv` adds
to them where things are: every entry of the two rings, the kernel and the
vectors belongs to an operation with the entry's address, whose place (`at`) is
the one where the entry is (`Places`), and no operation is in two places but for
the earlier completions of one that completes several times (`Unique`). So an
address in use belongs to one operation, `pool_free()` gets each once, and the
pool stays exact (`PoolInv` of `Pool`: the free stack has no duplicate, is
disjoint from the users handed out, and together they are all that was
allocated). `Stored` says which callback an address holds, `Ended` that an
operation whose user is freed has been answered (for zero-copy sends, that the
notification comes after the result), `Phase` which vector is empty where.
`Aimed` is the strengthening that makes cancellations safe: wherever a queued
cancellation and a request before it name the same address, they mean the same
operation. A request can only take the address over if its predecessor's user
was freed, and then it is submitted after the cancellation, behind it in the
queue; rings being FIFO (module `Ring`), the kernel takes the cancellation
first. `ReactorProofs` has one lemma per action (`FlushReturnInv` ...
`ScheduleInv`); the moves of an operation from place to place share the lemmas
`MovedFacts`, `MovedPool`, `GrownFacts` and `GrownPlaces`.

*The argument for the timer.* The kernel reads `timeout.tv` late, so the alert
is on time only because the timespec is never rewritten while a submission of
the timer that can still call back has not been taken: `OneOperation` (at most
one operation can call back, and `timeout->timeout` is it), `ArmedForItsTime`
and `Prepared` (an operation not yet taken finds the timer's time in the
timespec; that time is the next one of the schedule) are inductive together.

*The argument for the promise.* `Inv` says where an entry's operation is; for
progress the converse is needed, that an operation which is said to be in a
place has an entry there (`Located`), and that what is queued for a callback is
still awaited by the client (`Unanswered`). With `EntersInUse` (the loop enters
the kernel only with some user handed out) these are `Progress`, inductive
relative to `Inv`. A sleeping loop has an operation with an entry that wakes
it. For `KeepsPromise` each action is shown to be one action of `Operations` on
`Seen`, or to leave `Seen` as it is; `Unanswered` is what makes the guard of the
abstract action true: a multishot completion, the result and the notification
of a zero-copy send are answered in the order in which `Operations` allows them.

*The argument for the signal.* `Conserved` is a sum over four places, so each
step has to move a count from one of them to the next. It is inductive with
`FirstOpen`: a signal that is open for the first time has exactly one read, its
own, except in the client's callback, where it has none; therefore
`signal.counter` is what that read took, and no other read overwrites it. That
the first eventfd counts, although the counter is passed as its flags, follows
from `Unopened`. `Identified` (a new read has an id that no other has, by
counting) is kept beside them.

*The argument for the stream.* Bytes are numbers, so "exact" means that every
buffer is a run of consecutive numbers. `OutputOf` says where the runs begin:
`output_waiting` ends with the last byte written, `output_writing` ends where
`output_waiting` begins and starts `output_partial` bytes (and what the ended
write took) before the number of bytes sent. It is inductive because
`stream_update()` swaps the buffers only when the first run is used up.
`InputOf` does the same for the input, whose front may be erased only between
reads. `Outgoing` adds what a cancelled send may still send, which continues at
the end of the file with flushed bytes only. `OperationsOf` says what an
operation's result and data are in each of its states. `MemorySafe` follows
from these for each action.

*The argument for the server.* Whether a session may be freed depends on four
things that different callbacks change. `Stages` relates them: an open session
is READY exactly when the client holds no request, a closed one is allocated
exactly while it does. `Reads` says that one session reads at a time and what
its abort flag means: it is set to true only by freeing the session. `Calls`
says that the call a session knows of is the only one there is for it, unless
`server_respond()` has overwritten it, which is the reservation in
`FreedInTime`. What `ReadRequest` finds in the input plays no part, so these
theorems hold for any input.

*The argument for the framing.* `FramedInv` says where the input begins that is
parsed: what was consumed is exactly what the requests passed on so far were
sent as (`Passed`), unless a length has wrapped before. So the input is the
beginning of the next request, possibly with more behind it (`InputFacts`), and
it has to be shown that `ReadRequest` finds in such an input this request, whole,
or nothing (`ReadFacts`). For a length that is arithmetic (`SizedFacts`). For
chunks, `http_chunk()` finds a chunk as it was sent or none (`ChunkFacts`), so
the loops of `http_dechunk()` are always behind the first k chunks, or have
stopped there, or are at the end with all of them (`RoundCloses`). `Chunked`,
`SentUpTo` and `DechunkRounds` are recursive functions over a range of numbers.
They exist and are what their definitions say by the same two lemmas as the
loops of `map.c` below (`Iterates`, `SetInduction`).

*The argument for the network.* Functions that go on after a callback are
frames of a stack, and a task is freed by one of them. `Orderly` says that no
two frames release the same task and that one answer is passed on at a time;
`Requests` that a request is in one place, in one entry of the cache or in the
answer that is being passed on, and once; `Entries` what the cache says of the
last lookup. `Fit` gives for every task, by its type, all it can be waiting for
and which frame releases it (`Resolving`, `Opening`, `Unborn`), so that exactly
one of them is left. The proof takes the stack apart frame by frame
(`ConsOrderly`, `ConsEnds`, `ConsAnswering`, `ConsTrue`), has two lemmas for what
a step leaves alone (`OthersKept`, `FitKept`) and one lemma per action.

*The argument for notify.* The assertion fails when an entry that is removed has
no watch in the kernel. `Watched` says that only entries of a shared watch have
the same descriptor (so that removing one takes no other's watch away) and that
the watch of each entry is there unless it is shared or the kernel removed it.
The tables play no part: they only decide which entry is found. `Walking` keeps
the buffers in their types.

*The argument for the hash tables.* Half of the places are vacant, so there is a
vacant place, and the places can be numbered around the table from it on (`Pos`).
No search goes past it, so in this order nothing is cyclic any more: the test of
`map_erase()` says that the hash of the element is not behind the free place
(`DisplacedIs`), and a table can be searched exactly if no place between the hash
of an element and its own is vacant and no key is there twice (`SearchableIs`).
`EraseInv` is the invariant of the loop of `map_erase()`: the free place is the
only one that a search may wrongly stop at, and no element seen so far lies
behind it with a hash before it. The loop ends, by the count of places, at a
vacant place, and there the free place can be made vacant (`EraseEnds`).
`MoveInv` is the invariant of the loop of `map_rehash()`. Loops are recursive
functions over a range of numbers; that such a function exists and is what its
definition says (`Iterates`), and that what holds at 0 and goes on holds up to n
(`SetInduction`), follows from the pigeonhole principle for finite sets, so none
of the library's induction theorems is needed. `TablesInv` then says that the
contents of the two tables are those of the list; a path that `notify_add()` does
not find and a descriptor that is new are in neither. A shared watch stays in
the history (`SharedStays`), so the claim is about behaviours up to the first.

*The argument for the rings.* `reactor_ring_sqe()` and `reactor_ring_cqe()` know
a ring by two counters that wrap around. The lemmas about them come first: the
distance of two counters and the slots of successive ones, when the size divides
the modulus (`DistanceIs`, `SlotDiffers`, `SlotOfStep`). With counters at most
the size apart (`RingOK`), the entries between them are a sequence to which one
counter appends and from which the other takes the head. `Fitting` says what the history `fits` stands for: what was posted and not handled,
the completion at hand included, is no more than the ring has entries, so that
the ring has a free slot during a callback. `Behind` says that the slot just
before the head still holds the completion that is being handled; it is written
again only if the ring is full.

*The argument for the flow.* A node's consumer closes when `sources` comes to
zero, so what has to be known is what that number counts. `Fed` says it: the
edges that still owe the node a sign-off (`Owing`: the sender has not exited, or
its sign-off is still in the producer), and the sign-offs in its queue. A
queue that is not empty ends in a sign-off unless somebody owes one, so a queue
whose sources are all gone is empty. `LogFed` and `LogOwing` say the same of the
logs, whose sources are the threads. `Signed` says that what a node has
yet to write ends in its sign-off exactly if it has exited, `Consuming`, `InLoops` and `InPhase` tie consumers, producers and
started nodes to the state of their threads and of the main program. `Sharing`
counts, for each message, its places in queues and producers: the lemmas before
it (`AtAppend`, `AtTail`, `AtConcat`, `PlacesReplaced`, `PlacesPushed`,
`PlacesGrown`) say by how much a step on one sequence changes that number.

*The argument for the queue.* A producer's backlog is what its two buffers hold
after what an ended write has taken (`Unsent`). `queue_producer_update()` moves it
from one buffer to the other and never changes it (`UpdateFacts`), because the
swap comes only when the output is used up; the bytes that a write takes come
from its front (`RestJoined`), which needs `ProducerOK`: the write and what it took
are within the output. `ConsumerOK` says that the batch that is passed on is in the buffer, that what a
read has brought is at its start, and that the loop goes on exactly while the
consumer is open. `OrphansOK` says that cancelled operations belong to closed
ends, one to each: a cancelled write is the last of its producer, and a
cancelled read takes elements for nobody. Each action is then one step of
`Channel`, or none.

Only model-checked:

- liveness and everything else that needs fairness (`CallsCome`, `Reported`,
  `Resumes`, `Served`, `Resolved`, `Settles`, `Flows`, `Ends` and the like), which
  is out of the prover's reach;
- `Json` and `Utf8`, which have RECURSIVE operators (the grammar, and the
  release of nested values).

## 5. Not modelled, and the plan

- `picohttpparser` (vendored), examples.
- `data` and `hash`: functions without state. `buffer`, `vector` and `list`: the
  modules have sequences in their place; their arithmetic of capacities, and
  addresses of memory below the pool, are not modelled. So the memory that a
  request of a session points into is not (`server.c:64`).
- `reactor.c`: `reactor_now()` and the reference count of `reactor_construct()`.
- `http.c`: the writing of responses and the formatting of numbers (one copy of
  strings of known lengths). `server.c`: the Date header.
- `network.c`: `network_destruct()`, which frees what is left with the reactor,
  and `network_expire()`: the expiration is a constant.
- `flow.c`: names, loading of modules, what modules do beyond what the head of
  `Flow` says.
- `map.c`: `map_clear()` and the release callbacks. `value.c`:
  `value_array_remove()`. `encode.c`: pretty printing. `decode.c`: white space.
- Signals to the process; exhaustion of memory.

What a later version could add are the capacities of `buffer.c` and the memory
that requests point into.
