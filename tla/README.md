# A TLA+ verification of ZiMoPublic

ZiMoPublic is a C++20 library for Windows services: a thread pool, event loops
over libevent, a TCP broadcast server and client, an HTTP server and client over
drogon, SQLite access and a service base class. This directory holds TLA+ models
of the parts whose correctness depends on the order of things, the TLC
configurations that check them, and proofs checked by TLAPS. `PROJECT.json` lists
the components, the runs, the mutants, the source lines of every definition, the
hazards and the theorems.

Run a check with `tlc -config <Name>.cfg <Module>MC`, a proof with
`tlapm <Module>Proofs.tla`.

## 1. Inventory

The library's own code is in `src/define`, `src/util`, `src/net` and
`src/service` (26,400 lines). Everything else under `src/` is vendored
(drogon, nlohmann/json, libdatachannel, libevent, opus, minizip, spdlog) and
appears in the models only as what this code relies on. There are no tests.
What the code promises is said in comments, in the headers, and in
`src/README.md` (:104 RAII, :114, :120-123 "one event loop, no locks").

| Component | State | Operations | How it interacts | What is hard | Module |
|---|---|---|---|---|---|
| `ZmThread` (`util/zm_util_thread`) | `m_state`, the `jthread`, one mutex, one condition variable | `Start`, `Stop`, `runInternal` | base of the run loop and of the HTTP run thread | restarts, several stoppers, a body that ends by itself | `ZmThread` |
| `ZmThreadPool` | task queue, idle count, workers, delay queue | `Submit` (now, delayed), `Cancel`, `WaitIdle`, growth, the destructor | used by everything; tasks call back into it | lost wakeups, exact accounting, hand-over of delayed tasks | `ThreadPool` |
| `ZmEvBaseRunLoop`: thread | event base, control event, `_b_looped`, `_b_run_finished`, two mutexes | `Loop`, `Control`, `Stop`, `Run` | a `ZmThread`; owns the event base of the broadcast classes | lock order, an exit posted early, use of the base after its end | `RunLoop` |
| `ZmEvBaseRunLoop`: timers | entries, events, the lists of retired and one-shot entries, two mutexes | `AddTimer`, `ActiveTimer`, `StopTimer`, `RemoveTimer`, `RemoveAllTimers`, dispatch | callbacks call back into it | removal of a timer whose callback runs | `LoopTimers` |
| Broadcast server: a client's send queue | `msgQueue`, the bufferevent's output, the limits and counters | `DeliverToClient`, `OnClientWriteCB`, pings | driven by write callbacks | overflow with the head in flight, stalls | `BroadcastQueue`, `BcChannel` |
| Broadcast server | state, listener, dispatch event, pending tasks, connections | `Start`, `Stop`, `AsyncStop`, sends, kicks, destructor | runs on a loop of the above; calls come from any thread | three kinds of threads over one atomic state and one event | `BroadcastServer` |
| Broadcast client | state, bufferevent, timers, pool of its own | `Connect`, `Disconnect`, destructor, reconnects | loop thread, callers' threads, workers | retry, timeout, disconnect and destruction competing | `BroadcastClient` |
| Broadcast tags | the client's counts, its tasks, the server's list | `Subscribe`, `Unsubscribe`, reconnect | client and server over one connection | two copies of one set with losses in between | `BroadcastTags` |
| HTTP server: lifecycle | process-wide state, the run thread's slot and signals, one mutex, one condition variable, the in-flight count | `Init`, `Open`, `Close`, `DrainAndClose` | a `ZmThread` carries `app().run()`; requests count themselves in and out | start, close, timeout and drain racing over one slot | `HttpServerLife` |
| HTTP server: streamed sending | `ZmStreamLoopState`: file handle, one chunk buffer, progress, the connection's byte counter | `Run`, `Next`, reads, `OnReadDone`, finish | the connection's loop, the I/O pool, the peer | one buffer on two threads, a watermark over foreign counters, stalls | `StreamSend` |
| HTTP server: uploads, WebSockets, routing, rate limits | the upload's queue and writer, callbacks, routes and owners, buckets | receiving, routing | drogon's loops, a writer thread | the end of an upload on two threads | not modelled (section 8) |
| HTTP client: requests | one machine per request, the connections of each target, the lanes | `Send`, attempts, retries, redirects, cancel, `Close` | drogon's client loops, a work pool; `requestsBufferSize` asks another lane and waits | choice from a snapshot outside the lock, what may be repeated, secrets over redirects | `SendMachine` |
| HTTP client: downloads | sessions, the action queue, `.part`, `.part.meta`, the destination | `StartDownload`, the loop's handlers, the writer, `Shutdown` | pool, download loop, writer thread, the disk over a crash | crash between file calls, resume of a resource that changed, late callbacks, shutdown | `Download` |
| `ZmSqliteDb` | write connection and its lock, read connections | transactions, sync and async | thread pool | transactions over a shared connection | planned |
| `ZmServiceBase` | service status | start, stop, pause, shutdown | the Windows service manager | order of status reports | planned |
| Front ends, frames, IP, logger, files, strings, JSON, containers, OS helpers | none that lasts, or a single critical section | | | | not modelled |

## 2. Modules

Every module has its constants with a named assumption, one action per step of
the code that others can observe, a type invariant and its properties. A module
`XMC` instantiates `X` for TLC. Operators named `Bug...` are forms of the code
with a fault in them; no specification uses them: putting one in the place of
the definition after it must break the property that `PROJECT.json` names.

### ThreadPool

A wait on a condition variable is two steps, "checked" (the predicate was false,
the mutex is still held) and "asleep", because `notify` and `request_stop` are
called without the mutex. `owes` is the notify a thread does after its unlock.
`wpc[w]` is the place of worker `w` in `workerProc`; "none" is a worker not grown
yet. `cpc`, `dpc` and `tpc` are the places of callers in `WaitIdle`, of the
destructor and of the timer thread. Tasks may submit and cancel while they run.
Bounds: each task is submitted once; the clock stops at `MaxTime`.

### ZmThread and RunLoop

`ZmThread` gives each started `jthread` a generation. `pc[c]` is a caller's place
in `Start` or `Stop`, `tpc[g]` that of a thread in `runInternal`; the body is one
step. `RunLoop` extends it: the body is `Run` of `ZmEvBaseRunLoop`, `OnStopping`
posts the exit, `Loop` and `Control` join the calls. Control codes not handled
yet are the set `pending`, since libevent runs one callback for all of them.
`InOrder` says that nobody calls `Stop` while a `Loop` is under way and that
`Loop` is called once (see Deviations).

### LoopTimers

Each entry of the timer table has a state (new, live, retired, gone) and each
event another (null, ok, freed); `op[x]` is a thread's call, `disp` the loop
thread's place in a dispatch. `bad` becomes true when a freed entry or event is
touched. `event_del` from another thread waits for a running callback with
`_mutex_ev` held, as the code does. Two kinds of use are checked: other threads
with periodic timers, or everything on the loop thread.

### BroadcastQueue and BcChannel

`msgQueue` holds message numbers, `output` the frames in the bufferevent (messages
and control frames), `written` and `wire` what was written and what left.
`BcChannel` is what a subscriber may expect: one transmission at a time, a bounded
line of waiting messages, everything in order, and a count of what was lost.
`BroadcastQueue` implements it (`ImplementsChannel`, an `INSTANCE` with a refinement
mapping) when its limits are above one.

### BroadcastServer

Owners start, stop and destroy, senders send and kick, the loop thread does the
rest one callback at a time. A call's steps are the single reads and
compare-exchanges of `m_state`, the push to `m_pendingTasks`, the read of
`m_dispatchEvent` and `event_active`. `freed` holds the numbers of freed events.
`Patient` (no stop while it is starting or stopping) and `Joined` (sends do not overlap a
stop) name how the server must be used for its properties to hold.

### SendMachine

`ms[m]` is the machine of request `m`: where it is (`pc`), on which lane or thread
its handler runs (`at`), attempts and retries and redirects so far, the connection
it uses and the one to avoid, the snapshot it chose from. `pools[h]` is the entry of
target `h` in `s_pools`, a set of connections numbered as they are made; `order` is
the age of the entries, for the eviction at `maxTargets`; `shut` is how far `Close`
is, `ended` the lanes whose loop is over: told to quit, each ends on its own, when
its current handler returns. A handler is one step, except for `GetPoolClient`:
`Look` reads the entry under `s_poolMtx`, `Choose` comes after the busyness of every
connection was asked (the answer is any) and adds, picks or replaces one under the
lock; other threads run in between, and a lane that has ended never answers. `avoid`
is a connection that failed; `first` and `strip` follow the secrets. `Followers` are
the requests whose options have `followRedirect`.

### Download

The disk (`part`, `meta`, `dest`) survives `Crash`, everything else does not. `dl[s]` is a
session on the loop's side (connection, what it has received and gathered), `wr[s]`
its writer with the queue of actions between them; `claim` and `handle` are the
exclusive use of the destination and of `.part`. A file is a sequence of blocks that
carry the version of the resource they came from, and `NewVersion` changes the resource
between answers. `faulted` and `blind` are histories: that something went wrong, and that
the part was continued without `If-Range`. `ShutdownBegins`, `AskAll` and `Drained`
are the steps of `Shutdown`. `Left` is what an earlier process may have left in the part;
`MaxEnds` bounds crashes and shutdowns together; a version changes only while a
further one is allowed.

### StreamSend

`due` holds the calls waiting on the connection's loop, `reads` the tasks on the I/O
pool (a read has a beginning and an end, the buffer is not whole in between),
`receipts` the `OnReadDone` posted back. `out` is what the connection was given, by
position in the file, `taken` the counter `bytesSent()` of the connection, which also
counts the header (`Header`), earlier responses (`Base`) and what is put around each
chunk (`framed`), none of which the code's `sent` has. `frame` is the response's mode,
one of `Frames`: nothing is added when it is raw, a length and two CRLFs by default.
`late` says that `abortMs` have passed since the counter was last seen to move.

### BroadcastClient and BroadcastTags

`BroadcastClient` is the life of a client: calls from the loop thread run
`DoDisconnect` at once, other threads go through `event_base_once`; the handshake
timer, the retry timer and losses compete. `BroadcastTags` leaves the life out and
follows the subscriptions: `m_currentTags` counts, frames on the connection, the
server's `infoTags`, and `wanted`, what the calls asked for.

### HttpServerLife

`s_state` to `s_runThread` are the statics of the code; `rpc[g]` is the place of run
thread `g` in `RunServerLoop`, `pc[c]` that of a caller, `blocked` the callers in
`s_stateCv`, `mine` the thread a `Close` has taken out of the slot. All the predicates
that are waited for change under `s_stateMtx`, so a test and the block that
follows are one step; `s_stateMtx` is a variable only because `Open` joins a thread
while it holds it. `kind` tells a drain that ended from one that was cut off, `cut`
the requests that were in a handler when the loop ended. `OneAtStart` and
`timedOut` name the uses in which its properties hold (see Deviations). `Probes` are
the requests for `/ready` and `/metrics`, which `DrainGate` lets in while the server
drains; they are counted like all others. `DrainAndClose` stores its flag and then reads
the counter, which the memory order does not tie to one another: `kind` "early" is a
drain that read nothing in flight before other threads could see the flag (`FlagSeen`).
`Drainers` bounds who drains.

## 3. Runs

One run for each module (`<Module>MC` with `<Module>Use.cfg`). All are expected to
pass.

| Run | What it shows | Bounds, and why they are enough |
|---|---|---|
| `pool` | no task is lost, doubled or run after a successful `Cancel`; no wakeup is lost; `WaitIdle` is right and returns; every task runs | 2 tasks, 1 worker growing to 2, 1 caller, a delay of 1: two tasks meet in every pair of places, while submitted, cancelled, delayed and resubmitted from tasks, and with the destructor; 386,000 states |
| `thread` | `STOPPED` is the truth, `Stop` is synchronous | 2 callers, 3 generations: a stop can meet the thread before and the one after |
| `runloop` | no use of a freed base, `Loop` and `Stop` return | 3 callers, one generation, used in order |
| `timers` | nothing freed is touched, one-shots fire once, a removed timer is over, calls return | 3 timers, 2 threads, both kinds of use |
| `bcqueue` | no stall; the abstract channel is implemented: order, a bounded line, an exact count of losses | 8 messages, limits 2 and 3 that change |
| `bcserver` | nothing left after stop, sends in order and in their session, sends run, start and stop end | 1 owner, 1 sender, 1 client, 2 starts, 2 sends, 1 failed bind |
| `bcclient` | nothing left after stop or destruction, one connection, `Disconnect` returns, retries connect | 1 calling thread (the loop's or another), 3 sessions, 3 failures |
| `bctags` | client and server agree on the tags, and come to agree | 2 tags, 3 calls, 2 lost connections |
| `httplife` | `Closed` is final, a `Close` that returned left no run thread, a drain that answered true cut nothing off, every call returns | 3 callers (one opens, one closes at the start, one more closes or drains), 2 run threads, 1 throw, 1 request and 1 probe; a second drain, which the theorem covers, is left to it; 97,000 states, about 95 s |
| `download` | the destination only ever becomes one whole version, a sidecar names what the part holds, no download fails without a cause, each one is answered | 2 sessions of one destination, 4 blocks in chunks of 2 with a queue of 3, 2 versions, 1 redirect, an old part of 3 blocks or none, 1 crash or shutdown: the second session resumes what the first one, or an earlier process, left; 566,000 states, about 140 s |
| `sendmachine` | a target's connections are bounded, a POST is not repeated, secrets stay with their target, a retry uses another connection, every request is answered | 2 requests (a GET with a cancel token, an uploaded POST), 2 targets on 2 lanes of which one entry is kept, 2 connections each, 3 attempts, 1 retry; the upload follows 2 redirects, so that an attempt comes after the second: the two meet in one entry, evict each other, wait for each other's lane and for an ended one; 604,000 states, about 125 s |
| `streamsend` | the bytes arrive in order, the output is bounded, nobody is called stalled who is not, `onFinish` is called once | 7 bytes in chunks of 2 (the last is short), watermark 2, header 1, 2 bytes sent before; raw, and with the 5 bytes that the chunked default adds to each chunk and at the end: over four chunks the framing is more than the body; 479,000 states |

`CHECK_DEADLOCK FALSE` stands where everything may be over: all tasks done, the
object destroyed, every request answered, the bound on calls reached. No run uses
symmetry: nearly all of them check liveness.

Which property guards against which hazard is in `PROJECT.json`. Types have no run
of their own: a type invariant is checked where it says more than types
(`NoUseAfterFree`, `ClosedIsFinal`, `TasksAccounted` and others have it as a
conjunct), and is proved where the module has proofs.

## 4. Fairness

Threads that can go on do (weak fairness of each thread's step); strong fairness
stands for a mutex that is free again and again, which its waiters do get, and
for a retry timer competing with calls. Callbacks and tasks end. Nobody has to
call anything, no timer has to become due and no peer has to connect. On libevent we
rely on: a call of `event_active` makes the loop run the callback, an event whose
time has come is run. `bcqueue` assumes a peer that reads, `bcclient` a server that
answers in the end (failures are bounded), `bctags` that losses end. `httplife`:
the run thread and the callers go on and get the mutex; no request has to end, no
`Open` has to time out, `run()` need not throw, and a drain's wait ends because it
is bounded. `pool` is live as long as nobody destroys the pool (deviations);
`EventuallyRuns` and `WaitIdleReturns` say that again and again there is nothing left to
run and nobody waiting. `sendmachine`: every handler that can run does, drogon answers
each request once (`timeoutSec` is positive), a `Close` that has begun goes on; no
caller has to cancel or close. `download`: the three threads go on, a connection
attempt gets an answer, and the guard ends a session whose server says nothing.
`streamsend`: the loop, the pool and the clock go
on; the peer need not take anything, since a stall ends the sending.

## 5. Proofs

Proved with TLAPS for every value of the constants that the named assumptions allow.

- `ThreadPoolProofs`: `IdleCountAccurate` (types, and `m_idleCount` is the number of
  workers in the wait), `NoWakeupLost`, `DrainIsSafe`. The inductive invariants:
  `TypeInv` adds to the types that a worker holds a task exactly while it runs;
  `WakeInv` adds that a worker about to sleep has seen an empty queue
  (`CheckedEmpty`), without which a push between its check and its block could
  not be counted; `DrainInv` adds that a waiting caller's snapshot is accounted
  for in queue, workers and finished tasks.
  `EveryTaskIsAccountedFor`: the property says where a task is and how often it ran;
  `AccountInv` adds that no place holds a task twice (`Unique`), without which a task
  could leave a place and stay in it.
- `RunLoopProofs`: `FlagOutlivedByItsBase`: the objects follow the thread inside `Run`
  (`RunIsInside`, `OpenWhileLooping`). `StopWaitsForItsThread`, of `ZmThread`: `TInv`
  says that generations follow one another (`GensInOrder`), so that the state speaks of
  one thread, and that the target of a stop under way exists. `LoopStopIsSynchronous`,
  the same of the loop, by showing that its steps are steps of its `ZmThread` or leave
  it alone (`LoopIsThread`).
  `TimersAreMemorySafe` and `RemoveIsFinal`, of `LoopTimers`: `TimersInv` says who
  may still reach a timer: the callback that is executing, the calls that found its
  entry (`CallsFind`) or hold its event over `event_del` (`HoldersFind`), and the
  lists the dispatch frees from (`Lists`); who calls in each use (`ByMode`), and that a
  handle is added by one call (`AddersDiffer`).
  Assumed: `"any" \notin Uses`, that is, a run's timers are used by other threads, and
  periodic, or by the loop thread, as the run `timers` has it; section 6 says what the
  code does to those used both ways, which no theorem could state.
- `DownloadProofs`: `SidecarNamesThePart`, `FailuresHaveReasons`, `DestinationIsWhole`.
  A crash keeps whatever prefix of a writer's queue was executed, so the invariant
  speaks of all of them: `.part` with the actions under way and queued (`Stream`) always
  amounts to a beginning of one version (`Flows`), a truncation comes before
  anything that needs it (`TruncatesFirst`), and `FINISH` is last, after the writes that
  complete the file (`Carries`). Around it: only the session that holds `.part` has
  anything queued (`PartHeld`, `OwnAt`), a session whose writer is done has an empty
  stream (`ClosedWhole`), and a failure anywhere has a reason (`Reasoned`). None of these
  is inductive without the others.
- `BroadcastServerProofs`, of `BroadcastServer`: `StoppedHasNothing` and
  `SendsKeepTheirOrder`. `ServerInv` follows one stop through `AsyncStop`: what `m_state`
  can be at each place (`Stages`), that sends are over and the `STOP` task is the last
  one wherever it waits (`CallShapes`, `StopIsLast`), so that nothing is queued behind it;
  one `DoStart` is due while it starts (`StartsOnce`); only the present event can be
  active, and a call that holds an older one holds a freed one (`Events`). `OrderInv`
  orders what was delivered, to anybody, before the batch, that before
  `m_pendingTasks` (`QueueOrder`), and all of it before what a sender is about to queue
  (`PushersLast`); a queued message is of the present session (`AllDue`), as the
  connections are (`Homes`). It needs `ServerInv`: a new session starts with empty
  queues and nobody in a send. Assumed (`Orderly`): one thread starts and stops, `Patient`,
  `Joined`, and a loop that is not slow.
  Of `BroadcastQueue`: `SendingNeverStalls`, `BacklogIsBounded`,
  `WritesInOrder`, `NothingGoesUncounted`, `BacklogStaysInQueue` and
  `QueueImplementsChannel`, the refinement step by step. The central invariant
  says how the output, the messages written and the queue fit together: the
  message in flight is the queue's head or was popped by an overflow.
- `HttpServerProofs`: `NothingReopens`, `ReturnedMeansStopped`,
  `DrainLosesNothing`, all with `OneAtStart`. `LifeInv` is `Types`; `Locked`: who
  keeps `s_stateMtx` over a join found a state nobody changes meanwhile; `Closings`:
  one call closes at a time, one at most is in the start window; `Slots`: a run
  thread that is not over is in the slot or in the hands of the call that joins it,
  an error report leaves none, and a quit that found the loop running was `Close`'s;
  `Drains`: a drained server keeps its flag, and lets nothing in but probes, until its
  `Close` has joined; `Counted`: the in-flight count is not below the requests inside. None
  of `Slots`, `Closings` and `Drains` is inductive alone.
  `BytesInOrder`, `OutputStaysBounded`, `StallsAreReal`, of `StreamSend`: `IInv`
  says that a sending is in one of four phases (a call is due, a read is under way,
  its receipt waits, over), each with one token; the bound, which includes the framing
  handed over so far, follows from the watermark holding when a read is asked for
  (`Slack`).
- `BroadcastClientProofs`: `StoppedStays` and `ConnectionsDoNotOverlap`. What the client
  has on the loop (connection, timers, event) is there only between a `DoConnect` and
  the `DoDisconnect` posted behind it: `ClientInv` says what may be posted (`Posts`),
  what `m_state` can be at each place of a call (`Stages`), that the pool is there
  while messages are (`PoolHeld`), which timer goes with which state of the connection
  (`TimersFit`), and that `m_state` rests (`IDLE`, `STOPPED`, `ERROR`) only when nothing is
  there (`RestIsBare`). A stopped client is one of the resting ones; the others are
  needed because the next `DoConnect` starts from them. Assumed (`Orderly`): one thread
  makes all calls, any of them, and the loop's thread disconnects after `DoConnect`.
- `BroadcastTagsProofs`: `TagsAgreeAtRest`. A frame adds or removes tags, and may
  be under way, in the task queue or not yet made by a call that has changed the
  list: of all of them, in that order, the last that names a tag says whether the tag is
  wanted, and a tag none names is right at the server already (`Leads`, over
  `Effect`). Before a handshake (`BeforeHandshake`) there are none, and the list that is
  sent with it has every wanted tag (`ListIsWanted`). Assumed (`Orderly`): one thread
  calls, the initial tags are distinct, `Calm`.
- `SendMachineProofs`: `PostsAreNotRepeated`, `HeadersStayHome`,
  `RetriesChangeConnection` and `EntriesStaySmall`. For the first three `MInv` says
  of each request, on its own record and its target's entry, what each place allows,
  with the entries' shape; the others' steps only take connections out of an entry
  or put in new ones. For the last, `LInv` adds lanes: of the handlers at one
  target's connections one runs at a time (`OneHandler`), so a connection to be
  replaced is still there when the lock is taken again (`StillThere`). That lanes end
  at different times disturbs neither.
`Orderly` excludes what section 6 lists for the broadcast modules: with two calling
threads (for the server two that start and stop) the same runs violate these
properties, so no theorem could state them without it.

Every invariant and every action property of the runs, and the refinement, is stated by
a theorem. Only model-checked: everything live, since `ENABLED` and fairness are out of
the prover's reach.

## 6. Deviations

What the models, and the reading they took, show about the code. Where a
property holds only under a condition, the condition is a constant or a guard of
the module, named here.

Thread pool (`util/zm_util_thread.cpp`)
- The destructor sets `stop` and notifies without the mutexes (:330): a thread
  between its predicate and its block misses both and the join never returns.
- A running task's `Submit` may grow `m_workers` while the destructor walks it.
- Growth is judged from an idle count that still has notified workers in it (:571):
  two tasks may wait for one worker while the pool could grow.
- `Cancel` answers false for a due task that has not run yet (:403).

`ZmThread`
- The destructor of a thread whose body has ended by itself finds `STOPPED` and returns
  without a join; `m_cv` and `m_mutex` then go before `m_thread` is joined
  (`zm_util_thread.h:322`), while the thread may still be about to notify (:249).
- With `m_autoDelete` (not modelled) the pool may delete the object before `Start`
  has read the state (:83), or before a waiting `Stop` has woken (:107).
- A `Stop` whose wait overlaps a restart waits for a thread nobody stops (:107).
- `RUNNING` overwrites `STOPPING` (:208); `Start` answers false when a short body is
  over before it looks (:83).

Run loop (`util/zm_util_evbase_runloop.cpp`)
- `Stop` during `Loop()`'s `Start` (:77): `Loop` holds `_mutex_loop` and waits for
  `m_mutex`, `Stop` the other way round, and the loop thread waits for one of them.
- The destructor of a running loop never posts the exit (:39): `OnStopping` is no
  longer the derived one.
- `_b_run_finished` is never reset: a second `Loop` returns at once; a failed `Start`
  leaves `Loop` waiting.

Timers
- A fired one-shot is freed without `_mutex_ev` (:437) while another thread may be
  using its event; `RemoveAllTimers` meets an `AddTimer` that has not made its event
  yet (:144); a callback that uses the interface and another thread's `event_del`
  wait for each other (:161).

Broadcast queue (`net/zm_net_broadcast_server.cpp`)
- With a limit of 1 the queue is never full when the head is in flight, so
  everything goes to the bufferevent, unbounded (:987); 0 is undefined behaviour.
- `m_sentCount` counts what is queued (:996). The oldest message, which an overflow
  discards, is the one in flight (:979): it is sent although it was counted, and
  the next one is lost instead. The count is right all the same.

Broadcast server
- A stop before it listens is overwritten by `LISTENING` (:242), also one that
  another thread's `Start` overtakes; three loads of
  `m_state` (:295) may each see another state; a send that overlaps the stop uses a
  freed event (:1080), one before `DoStart` stays queued.
- The destructor may return before the loop's last statements of `DoStop` (:344);
  delayed sends outlive `Stop` and the object (:888); each bind retry leaks the
  former event (:189).

Broadcast client (`net/zm_net_broadcast_client.cpp`)
- `LISTENING` overwrites `STOPPING` when another thread disconnects (:604); a client
  stopped before its `DoConnect` has run connects again (:311); a second connecting
  thread loses a pool (:336); `Disconnect` in `onMessage` joins itself (:338);
  `Disconnect` on the loop thread before `DoConnect` waits for itself (:328);
  `OnReadCB` goes on after `Disconnect` in `onConnected` (:484).

Broadcast tags
- Frames of two threads may be sent in another order than their changes (:112); a
  tag repeated in `initialTags` is counted twice (:38); a call that takes longer
  than a reconnect sends its frame before the handshake (:715, constant `Calm`).

HTTP server lifecycle (`net/zm_net_http_server.cpp`)
- Two `Close`s in the start window: both wait behind the test of `s_closing` (:1688);
  the second takes an empty slot, clears `s_closing` and returns, the loop still
  running (`OneAtStart` excludes it).
- An `Open` in that window whose thread cannot be created resets `s_runError` (:1584),
  which the `Close` then never sees.
- An `Open` that times out leaves its run thread in the slot, the state `Initialized`
  (:1617): a later `Close` joins nothing, and another `Open` destroys the `ZmThread`,
  which joins it with `s_stateMtx` held; a thread that needs the mutex to report
  and this `Open` then wait for each other (`timedOut` ends the claims).
- A drain begun before `Init` loses its flag to any `Close` (:1676), and the server can
  still be opened (`DrainAndClose` is modelled from `Init` on).
- A drain covers responses up to their making: the counter goes down (:1290) before
  drogon sends, so the loop may end with the last response still in its output.
  Requests for `/ready` and `/metrics` are let in while it drains (:1143) and may come
  between the last look at the counter and the end of the loop: they are cut off.
  `DrainedIsServed` speaks of the handlers of all other requests.
- The flag's store (release, :1735) and the first read of the counter (acquire, :1739)
  may take effect the other way round, on x64 too: a request that arrives then sees no
  flag, is let in, and `Close` may cut it off although the drain answered true. The log
  between them (:1736) may happen to separate them; the code does not order them.
  `DrainedIsServed` excepts such a drain by name (`early`).
- A request whose connection is lost is never counted back (:1290): a drain after
  it waits for its whole time.

Streamed sending (`net/zm_net_http_server.cpp`)
- The `m_fini` branches of `Next` and `OnReadDone` cannot be reached (one token at a time)
  and are not modelled. A loop that ends during a read leaves `onFinish` uncalled.
- Backpressure compares a counter of everything the connection sent with `sent`, which
  has the body alone (:378). In the default mode every chunk adds a length and two CRLFs
  (`raw` false, :421), and TLS adds its own: all of it counts as body the peer has
  taken, so the output exceeds the watermark by the framing of all chunks sent so
  far: some ten bytes a chunk, or 5 for each byte with `chunkSize` 1. `OutputIsBounded`
  has it as the term `framed`, which grows without end; only for raw responses
  without TLS is the bound a constant.
- The stall's clock starts at the last look at which the counter had moved (:363), and a
  read of any length lies between two looks: after a slow read a peer that has taken
  nothing since is given up although it was given less than `abortMs`.
  `StallIsReal` says only that there is something left to take.
- A file that became shorter ends the body early, and a read error looks the same as
  its end.

HTTP client: requests (`net/zm_net_http_client.cpp`)
- With two lanes or more (`normalLoopThreads`, 1 by default), two handlers that ask
  each other's lane for `requestsBufferSize()` wait for ever (:1139); the comment
  before it (:1132) says this is no deadlock. `EveryRequestEnds` allows it by name
  (`Crossed`).
- `Close` tells every lane to quit and then waits for all (:1497). A lane that has nothing
  to do ends while another's handler is in `GetPoolClient`, past its test of
  readiness; when that handler asks the ended lane for `requestsBufferSize()` nobody
  answers it (its loop is no longer run, or is freed), so its own lane never ends and
  `Close` never returns. One request and two lanes suffice. `EveryRequestEnds` allows it
  by name (`Stranded`); a thread of the work pool that asks is stuck too, but `Close`
  returns.
- Between the test of readiness and `s_poolMtx`, or `queueInLoop`, a `Close` may
  clear the table and delete the lanes: the entry is made again after `Close`, or a
  deleted loop is used. The model calls such a request lost; a comment (:638) says
  that no entry is made after `Close`.
- The hard limit of `SendSync` (:1665) counts retries but not redirects, and requests in
  flight at a `Close` are never answered.
- Assumed: `timeoutSec` is positive and drogon calls back once per attempt, on the
  connection's loop. The readiness tests of `NextAttempt` and `GetPoolClient` are one.

HTTP client: downloads (`net/zm_net_http_client_download.cpp`)
- The sidecar is rewritten in place on a 206 (:1592); after a crash or a failure
  there a later download resumes without `If-Range` and may join two versions. The
  properties except parts continued like that (`blind`).
- Another success (203, 204) for a resumed part appends without truncating; a 206 shorter
  than asked for, and a close-delimited 200 without Content-MD5, count as complete;
  `resumedFrom` keeps its value after a 200.
- `Shutdown` clears `s_sessions` under `s_sessMtx` (:1911) when its wait of six
  seconds is over: a writer blocked longer than that needs the mutex to deliver,
  while the destructor waits for the writer. A session registered between the drain
  and the clearing is destroyed while its writer asks for `shared_from_this`. The
  model lets the wait end only when the sessions are gone.
- No guard runs before the first connection is up.

Uploads (`net/zm_net_http_server.cpp:2769`, read, not modelled)
- The writer's lambda may drop the last reference to `ZmUploadSink`, whose
  destructor then stops the writer on its own thread; the comment there assumes the
  event loop.
- The clean-up closes the file before it deletes it: a request in between may open
  the partial file, and the deletion then fails.
- When the file cannot be opened the answer is "too large", and the clean-up its comment
  promises for the loop's side does not exist.

## 7. Plan

1. `UploadSink`: the queue between the connection's loop and the writer, the
   clean-up, the last reference.
2. `SqliteTx`: transactions over one write connection and its recursive lock.
   `RouteOwnership`, `RateLimit`, `Service`.
3. Proofs of what the live properties rest on: that a waiting call or task always has
   somebody to end its wait, stated without `ENABLED`; abstract specifications for the
   pool and the server.

## 8. Not modelled

Of this library's own logic: uploads, WebSocket controllers (each a copy of its
callbacks under one mutex), routing, ownership, ranges, JSONP, metrics, rate limits,
SQLite transactions and the service protocol (section 7). Front ends (static files,
JSON-RPC, REST), frame encoding, IP, logging, file, string, JSON, container and OS
helpers: sequential, stateless or a single critical section. Vendored libraries:
external, present as what the code relies on. Of `ZmThread`: `m_autoDelete`, and
`Stop` from its own thread (it waits for itself).
