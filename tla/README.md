# A TLA+ model of MFServer

MFServer is an actor-style game server: C++17 on drogon/trantor, with the game
logic in Lua.  This directory models its core (`src/MFServer/core`) and the Lua
framework on top of it (`src/MFServer/coreScript/Core`), checks the models with
TLC and proves some of the results with TLAPS.  Paths below are relative to
`src/MFServer`.

## The system

A *service* is one Lua virtual machine with a message queue.  Everything that
happens to it is a message: a send or a request of another service, a timer, a
socket event, the result of a query.  A pool of worker threads runs the
services that have messages; network event loops, the main loop, the database
clients and one file-I/O thread produce messages for them.

| Part | State it keeps | Operations | Talks to |
|---|---|---|---|
| Service manager, `MFLuaServiceManager` | service map, name map, ready queue, shutdown flag, message pools | addService, addUniqueService, queryUniqueService, closeService, send, ret, sendMulti, nativeDispatch, hot reload, shutdown | every other part posts through it |
| Service, `MFLuaService` | message queue, `m_inReadyQueue`, Lua state | init, pushMessage, processMsg, destructor | run by the manager's workers |
| Messages and pools, `MFLuaMessage.hpp`, `MFObjectPool.hpp` | reference counts, free objects | pop, push, reset | producers pop, workers reset |
| Lua core, `MFCore.lua`, `MFMsgHandlers.lua` | coroutines waiting for an answer, requests to answer, timer callbacks | localSend, localRequest, localResponse, schedule, killSelf, handlers by message type | the manager, the other Lua modules |
| Timers and life cycle, `MFApplication` | loop timers, file watch, shutdown flag | scheduleOnce, schedule, stopSchedule, submitMainTimer, shutDown | event loop, manager |
| File-I/O thread, `MFIoPool` | task queue | submit, shutdown | Redis pool |
| Connections, `MFConnectionManager`, `MFTcpServer`, `MFWebServer` | connection maps, waiting HTTP callbacks | add/remove/send, framing, HTTP answer | event loops, manager |
| Clients, `MFTcpClient`, `MFNetManager`, `MFRpcClient.lua`, `MFRpcServer.lua` | connection, messages waiting for it, coroutines waiting for a reply | send, request, response | event loops, manager |
| Redis, `MFRedisConnectPool`, `MFRedisClient` | idle queue, pool size, connection state, command in flight | getConnect, releaseConnect, clearExpiredConnect, execute, RESP parser | event loops, I/O thread, manager |
| SQL, `MFSqlConnectPool`, `MFLuaSql.lua` | drogon pools, waiting coroutines | query, execute, transaction | drogon, manager |
| UDP, `MFUdpServer`, `MFUdpChannelManager`, `MFUdpChannel` | KCP channels per loop | receive, send, update, time out | event loops, manager |
| Shared data, `MFShareTable`, `MFLuaShareData`, `SharedConfig.lua` | tables shared between virtual machines, generations | share, query, update, release | all services |
| Identifiers, `MFSnowflake`, `MFUtil` | last timestamp, sequence, counters | nextId, genSessionId | all services |
| Hot reload, `MFFunctions.lua`, `MFLuaProtoCache` | `package.loaded`, function cache | hotfix, require searcher | file watch, services |
| Profiler, `MFLuaProfiler` | call stack, counters | start, stop, hooks | one service |
| Router and SQL mapper, `MFAnnotationHandle`, `MFRouterHandle.lua`, `MFSqlMapper.lua` | parsed annotations, templates | scan, dispatch, expand | Lua services |

### What is hard here

* Every service is sent to by many threads and run by any worker.  Its queue, a
  flag and the workers' ready queue have to agree without a lock.
* Messages are pooled.  A broadcast is one object with a reference count that
  senders and receivers change at the same time.
* A Lua handler is a coroutine.  An answer resumes it by a number, from a pool
  of coroutines, possibly long after its service or its peer changed.
* Connections are borrowed by pointer, break at any time, and are returned,
  replaced or deleted on other threads.
* Timers, connections and replies are started on one thread and come back on
  another, sometimes before the first has noted what it started.

Parts meet in one place: each posts messages to services.  So the mailbox of a
service (`MFMailbox`) is the interface between the modules.  `MFScheduler` is
shown to implement it, and the modules of the Lua side rely on it.

### What makes each part correct

| Part | Correct when |
|---|---|
| Scheduler | one worker at a time runs a service; messages are handled in order, each once; a closed service is deleted once, by the worker that runs it |
| Messages | an object goes back to its pool when its last receiver is done, and not before |
| Lua core | an answer resumes the coroutine that asked, once; a stopped timer is silent |
| Redis | a connection is in one place; the pool's size is the number of connections; each command gets one answer |
| RPC | one connection for a server; a message is sent once; a reply reaches who asked |
| Identifiers | no id twice |
| Connections | a send reaches the connection it names or nobody; an HTTP callback is called once |
| SQL | each query and transaction gets one answer |
| UDP | the two maps of channels agree; a removed channel is not used |
| Shared data | a reader never reads a freed table; a reload becomes visible to all |
| Hot reload | a service that can be found swaps the changed module, in one piece and with its state |

## The modules

`MC*.tla` instantiate a module for TLC, `*_proofs.tla` hold theorems.  In each
module the actions marked "Mutant" are broken variants of the definition below
them, kept to show that a property can fail.  They are not part of `Next`.
`MFShared_proofs` holds the theorems of three modules, `MFSnowflake`,
`MFSharedData` and `MFHotReload`, which is why the first and the last name their
parts `IdInit`, `ReloadInit` and so on.

### MFMailbox: what a service can rely on

Per service a sequence of messages, the message being handled and a stage.
Messages come at the end, are handled one at a time from the front, and the
service ends only between two of them.  Nothing is said of which thread runs it.

### MFScheduler (`MFLuaServiceManager.cpp`, `MFLuaService.cpp`)

One action for each atomic step of a call: the look-up in the striped map, the
two steps of a push (head exchange and link) into the multi-producer queue, the
exchange of `m_inReadyQueue`, the entry in the ready queue, and for a close the
reading of the name and the erasure.  A worker takes an entry, drains the queue
message by message, and clears the flag as its last step.  A message may be sent
from an event loop or from the handler a worker is running.  Shutdown puts one
`nullptr` per worker into the ready queue.

| Variable | Code |
|---|---|
| `object`, `creator`, `serviceMap` | the life of the object, the thread in `addService`, `m_serviceMap` |
| `messageQueue`, `inReadyQueue` | `m_luaMessageQueue`, `m_inReadyQueue` |
| `readyQueue`, `poison`, `shutdown` | `m_readyServiceQueue` (services, `nullptr`s), `m_shutdown` |
| `pc`, `dst`, `msg`, `calls` | a thread in a call of the manager |
| `wpc`, `svc`, `handling` | a worker in `serviceWorkThread` |

Abstractions.  The ready queue is a bag: moodycamel's queue keeps the order of
one producer only.  The memory of a deleted service is not given to a new one;
accesses to it are recorded in `touched`, reads there return anything, a push
there is lost.  The map of names is modelled in `MFHotReload`, whose subject is
who is found in it.

### MFSnowflake (`MFSnowflake.hpp`, `MFSpinLock.hpp`)

`nextId` statement by statement under its spin lock, with a wall clock that
ticks by itself.  The sequence wraps at `SeqSize` (4096 in the code), the
timestamp at `TimeSize`.  `StepBack` lets the clock be set back; the code does
not guard against it and ids repeat then, so the run and the theorem assume
that it is not.  A process that starts again makes a new generator (`Restart`),
which takes it longer than the millisecond of its last id.

### MFMessagePool (`MFLuaMessage.hpp`, `MFObjectPool.hpp`, `sendMulti`, `nativeDispatchHotReload`)

The life of the two messages with many receivers: popped, filled, given a count,
pushed to one receiver after another while the first ones already handle it, and
reset by each.  The last reset puts it back: a multi message is cleared before it
enters the pool, a reload message afterwards (`Recycle`, `Finish`).  Services are
closed and destroyed with messages in their queue; those references are lost
(`lost`).  Here a service is its own worker, which `MFScheduler` justifies.
Receiver lists are proper arrays; the close message is not an object.

### MFRedisPool (`MFRedisConnectPool.cpp`, `MFRedisClient.cpp`, `MFIoPool.cpp`)

Workers borrow a connection (`getConnect`: an idle one, or make one if the size
allows and wait), pass a command to the connection's loop and, for
`executeSync`, wait on a future with a timeout.  The loop runs connect, AUTH,
reply, error and disconnect, returns the connection or replaces it and has the
I/O thread delete it; a timer has the I/O thread delete connections idle for
long.  `m_currentPoolSize` is read and changed in separate steps.  The blocking
queue is a bag, idle time is a free choice, the server replies or breaks the
connection.  `Password` chooses between the two ways to become connected.  The
destructor's join of the loop's thread is one step with the deletion; the mutex
around each client is uncontended in what is modelled.  The RESP parser and the
look-up of the configuration are left out.

### MFLuaCore (`MFCore.lua`, `MFMsgHandlers.lua`, `MFApplication.cpp`'s timers)

One virtual machine per service, over the mailbox.  A handler runs in a
coroutine on a stack of those that resumed each other.  It may call another
service and suspend, answer a request now or later, start a coroutine, arm and
stop timers, close a service (the push of the close message and the erasure from
the map are two steps, between which the service may end), raise or return; the handler of an answer does none
of these, it resumes who waits and then forgets the session.  Between two such calls it is one
step, as nobody else sees its state.  `stage = "init"` is `main` running before
`addService` puts the service in the map.  The pool of coroutines and those not
made yet are both `"idle"`: which of them runs makes no difference.  `after` notes
what a coroutine does when it stops, and which timer's callback it runs, repeating
timers included.  A timer's
number is written after the loop may have read it (`arming`, `Fire`).

### MFRpc (`MFRpcClient.lua`, `MFNetManager.cpp`, `MFTcpClient.cpp`, `MFTcpServer.cpp`, `MFRpcServer.lua`)

Services call `request` or `send`; `getClient` with its double check makes one
client for a server, bound to the service that came first and connecting before
others find it in the map; `MFTcpClient::send`
tests `m_connect` and then queues or sends.  The connection's thread connects,
drains the queue, writes what others gave it, reads replies, and notices a
break.  The network breaks the connection at any time, losing a suffix of what
is under way in either direction, and `enableRetry` connects again.  `m_connect`
keeps pointing to the last connection, as in the code, so what is sent through
it after the break is lost.  `call` tells the calls of a service apart for the
properties and is not on the wire.  Left out: framing (a message is sent, read
or lost as a whole), the configuration look-up that can fail, `removeClient`,
which is not exported to Lua, and the truncation of a session to 32 bits.

### MFSharedData (`MFShareTable.cpp`, `SharedConfig.lua`, `MFLuaShareData.cpp`)

A *matrix* is the frozen Lua state behind a shared table.  `share`, `update`,
`releaseOld` and the destructor hold `m_mutex` and are one action each; `query`
looks the table up under the lock and clones it afterwards, in two actions.
`SharedConfig.lua` keeps a clone and its generation per service and asks again
when the generation has moved.  `MFLuaShareData` replaces and removes packed
values; its `get`, which hands a raw pointer to Lua, is left out.  A matrix or a
buffer is used once, so that a double free or a leak
shows in the sets that own them.  What is loaded and cloned is data.

### MFSqlSession, MFSqlCall (`MFLuaSql.lua`, `MFSqlConnectPool.cpp`)

A call of `MFLuaSql` in each of its forms (coroutine, callback, neither), single
statements and transactions; the pool of a database, which the first call makes;
drogon's statements one by one with their results and failures; the message with
the answer; the coroutine or function that waits for the session, and what that
does next, which may be another call.  The database's threads can answer before
the caller has noted its session; the answer then waits in the mailbox.  drogon
is external: it reports each statement once, and after a broken connection the
database may still commit what it had received.

`MFSqlCall` is the promise: what a call asks for is done at most once, the caller
is told at most once, and told of success only when all of it is done.  Effects are
counted, and a caller that is told more than once is told `"again"`, so that a
repetition of either, even an equal one, is a step that `MFSqlCall` does not have.

### MFGateway: MFConnections, MFUdpChannels, MFSocketMail, MFPeer

`MFConnections` (`MFTcpServer.cpp`, `MFWebServer.cpp`, `MFConnectionManager.cpp`)
has the callbacks of a connection on its loop, between which the service sends
by number, closes, or answers an HTTP request.  `MFUdpChannels` (`MFUdpServer.cpp`,
`MFUdpChannelManager.cpp`, `MFUdpChannel.cpp`) has the packets of conversations,
handed to the loop that owns the channel or to one that makes it (look-up, second
look under the lock and the insertions into the two maps are steps of their own),
the map of all channels, the map of each loop, and its timer, which takes a channel
out of one map after the other.  `MFSocketMail` has the messages by
which both tell a service of their peers, and `MFGateway` composes the three.  A
peer may be of any kind.

`MFPeer` is what the service can rely on: of every peer the opening first, then
what it sends, and the closing once; for a connection that is the last; a UDP
conversation comes back only after its closing; an HTTP request is answered at
most once.

There is no clock: a channel may expire whenever the timer of its loop looks at
it.  The code does let that happen with packets under way, for a loop that lost the
race to make the channel writes `m_lastRecvTs` without a lock, and a time that is
later than the owner's `now` makes the difference wrap (`MFUdpChannel.cpp:74`,
`128`).  What that other loop still delivers comes after the closing, so `MFPeer`
lets the service hear a UDP message late (`Late`); the maps and the one telling of
the end hold all the same.  KCP, whose state two loops then change at once, is
left out.

### MFHotReload, MFHotfix (`MFApplication.cpp`, `MFLuaProtoCache.cpp`, `MFLuaServiceManager.cpp`, `MFFunctions.lua`)

`MFHotfix` is `hotfix` of one virtual machine, as operators on a record: `require`
of the new version, the comparison of the two tables, the functions swapped with
the old values of their local variables, nested tables, instances that get what
their class gained.  A version of a file is a class, one with a nested table, one
whose constructor needs arguments, an empty file, one that does not compile, or
one that raises when it runs (it stays in the shared cache).  Where the code raises
in the middle, the record keeps what was done.

`MFHotReload` is the way there.  The file changes; the watch evicts the shared
cache, reads the names one stripe after the other, and posts a message to each
service it found.  Meanwhile services start and enter the two maps in two steps,
load the module from the cache, use it and close.  Several services may take the
same name.  A change is what `initFileWatch` reacts to, with the new content
complete: on Linux a file that is moved into the tree (`3rd/dmon/dmon.c:847-863`
reports it as created), elsewhere one that is modified.  A file that is written in
place on Linux is reacted to when it is created only, before its content may be
there, and again never; that is not modelled.

## The runs

Every configuration has `CHECK_DEADLOCK FALSE`: the systems stop when the bounded
number of calls has been made, and a server that nobody calls does rest.

| Run | Shows | Bounds and why they are enough |
|---|---|---|
| `scheduler` | one worker runs a service, its flag is a token, its only owner deletes it, the whole implements the mailbox; a service in the ready queue is served, shutdown stops all workers | one service, one event loop, two workers, two sends: all races are about the flag of one service, with a sender (loop or handler), a worker that finishes and one that starts; the theorems cover every size |
| `scheduler_lost_wakeup` | violated: a request may stay in the queue | two event loops with one call each |
| `snowflake_unique` | no id twice, over restarts | three threads, sequences of two, four milliseconds: the sequence wraps while two others wait |
| `pool_broadcasts` | reference counts are exact, an object in the pool is unused, a handler sees its own broadcast, nothing leaks | two senders and the file watch share one object of each kind, two receivers, lists up to two |
| `redis_pool` | a connection is in one place, the pool's size is exact, no command is answered twice, each is answered | one worker and three connections with loops of their own, pool of one to two (three objects, so that one can be deleted while its successor is made), a password, one idle time-out |
| `lua_calls` | a call is in one place, its answer resumes who asked, a stopped timer is silent | two services, three coroutines each, two calls, one timer, and two of the following: events from outside, coroutines that the program starts, firings of a repeating timer, closings; enough for calls both ways, a call to oneself, and an answer to a service that is closed |
| `rpc` | one client, a message is in one place, none is lost before the first break, a reply is one's own | two services, one of which asks for replies, two calls each, two connections |
| `rpc_misrouting` | violated: a reply may be another's | two services that ask, one call each |
| `shared_data` | matrices and values are owned and freed once, the cache answers with what is current | two names, two services, four matrices: an update during a read, and one more |
| `sql` | one pool for a database, an answer finds who waits, success only after the effect, an answer for each call | two services, two databases of which one is not configured, two calls, transactions of up to two statements: a call that makes another, two that race for the pool |
| `gateway` | maps follow the peers, one channel for a conversation, `MFPeer`, an end is told | two peers of any kind, two loops, three packets: a conversation that two loops create, and one that ends and comes back |
| `hot_reload` | a reload reaches everyone who can be found, in one piece, and keeps counter and instances | two services with one name, a file that has a nested table at first and two edits of any kind, one use, one close: a close or a start between any two steps of a reload |

Symmetry is used for threads, services, coroutines and the like in runs that check
invariants and action properties only.  Type invariants are theorems; only `sql`
and `gateway` list theirs among the run's properties.

Constants that only bound a run: the names that begin with `Max` (except
`MaxSize` of the Redis pool, which the code has), the sets called "bound" where
they are declared, `TimeSize` and `RefSize` (the width of a field in the code,
small in a run so that it is reached).

### Fairness

* `MFScheduler`: weak, of each started call and of each worker's step.  They are
  running threads, and the only blocking step, `wait_dequeue`, is enabled as long
  as the ready queue has an entry.  New calls are not fair: nobody has to send.
* `MFRedisPool`: weak, of the workers, of each connection's loop and of the I/O
  thread; also that a server answers or the connection breaks, which is TCP's own
  time-out.  Whether a connection attempt succeeds is free.
* `MFSqlSession`: weak, of the code a service runs, and of the database (drogon
  reports every statement); strong, of a service's handling of an answer, for
  between two answers it runs its own code, and its queue is first in, first out.
* `MFGateway`: weak, of the loops' callbacks, of the service's handling of its
  messages, and of the timer of a channel that gets no packets.  No peer has to
  go away, answer or be answered.

### Where the code and what it says differ

Two disagreements have a run:

* `scheduler_lost_wakeup`.  `serviceWorkThread` clears `m_inReadyQueue` after
  its last look at the queue.  A sender that pushes in between finds the flag
  set and wakes nobody; the message waits for the next one.
* `rpc_misrouting`.  All services share the client of a server, which delivers
  replies to the service that made it.

The models describe more behaviour that a reader may not expect.  The properties
are stated so that they say what still holds:

* A close message can hide behind a half-done push, and nothing wakes its service
  any more.
* `addService` runs `main` before the service is in the map, so the answer to a
  call that `main` makes can be dropped (`dropped` of `MFLuaCore`).
* `executeSync` has a timeout of three seconds on its future, but `getConnect`
  blocks before it, for as long as no connection comes.
* A query of a database that the configuration does not have is never answered
  (`CallIsAnswered` speaks of configured ones).
* `query` of a shared table returns a pointer that the caller clones without the
  lock; a `releaseOld` of another service can close the matrix in between.
  `MFShare.lua` unpacks what `MFLuaShareData.get` points to in the same way.
* A UDP channel that expires while another loop has a packet of it (see
  `MFGateway`) is told as closed before that packet's message.
* `MFLuaShareData` loses the `MFShareInfo` it made when the key exists already.
* A WebSocket's or UDP channel's opening is told before it is in the map by which
  it is reached (`MapsFollowPeers` says from when on).
* Ids repeat when the clock is set back; a reload message is cleared after it is
  back in its pool; a timer's message may have number 0.
* Hot reload finds services by name.  Those that `addService` started without one
  are never told; closing a service removes the name of another with the same
  one; a close between the insertions by id and by name leaves a name of nobody; a
  service that loads a module before it changes and enters its name after
  `values()` keeps the old one (`missed`).
* `hotfix` of an empty file, or of one with a new nested table, raises and leaves
  the new value in `package.loaded`, away from the table in use.  Functions that
  were kept from the old version keep the old local variables; local variables
  that are `false` and those of new functions are not carried over.

## What is proved

TLAPS proves the following for every set of services, threads, workers, clients,
connections and messages, and any number of calls.  TLC checked each inductive
invariant, or its parts, on small instances first.

1. **Scheduler.**  `TypeCorrect`; `FlagIsTokenAlways`, `OneWorker`,
   `DeletedByOwner`.  The inductive invariant is `TypeInv /\ BuiltInv /\
   FlagIsToken`.  `TypeInv` adds to the types that a thread in a call and a worker
   at work hold a service.  `FlagIsToken` says that `m_inReadyQueue` is a token:
   while it is set, exactly one of a sender about to enqueue, a ready-queue entry
   or a worker has it, and while it is clear none has.  That is why one worker
   runs a service, and why the close message can delete it.  `BuiltInv` says that
   a service is only found once it is built.
   `SchedulerImplementsMailbox`: with `WorkingInv` (a worker in a handler, or about
   to delete, has a service that is not deleted, and in the second case the close
   message is still in front) each step is one of `MFMailbox` or a stutter.
2. **Snowflake.**  `SnowflakeTypes`, `LockIsExclusive`, and `IdsAreUnique` for any
   `SeqSize` and `TimeSize`, if the clock is not set back and, as `SpanAssumption`
   says, the server does not outlive the time field.  The invariant adds where a
   thread between reading the clock and leaving stands to the last timestamp, and
   that every id handed out is older than the next.
3. **Shared data.**  `SharedTypes`, `NoMatrixLost`, `CachedIsCurrent`,
   `NoBufferLost`.  `SharedInv` joins the three properties with `ReadInv`, which
   says that the generation a read began with is not newer than the table it got.
4. **SQL.**  `SqlTypes`, `OnePoolAlways`, `AnswersFindWaiters`, and
   `SqlImplementsCall`: every step is one of `MFSqlCall` or a stutter.  `SqlInv`
   follows a call from the service that runs it (`AskedInv`, `CallerInv`) through
   the database (`JobInv`), the mailbox (`MailInv`) and back (`WaiterInv`,
   `LeftInv`): a call is in one of these places, and what waits for its answer is
   there when the answer is.
5. **Messages.**  `PoolTypes`, `RefCountAlways`, `PooledUnusedAlways`,
   `HandlersSee`, `NothingLeaksAlways`.  `PoolInv` says that a reference is held
   by the sender, a queue, a handler, or lost with a closed service, and counts
   them (`Counted`), who may write an object (`OwnerInv`) and what it then holds
   (`DataInv`).
6. **Redis.**  `RedisTypes`, `OnePlaceAlways`, `PoolSizeAlways`,
   `AnsweredOnceAlways`.  `RedisInv` has a witness for two functions: every client
   has a place (idle, lent, in a task, with its loop, with the I/O thread), every
   request a hand that holds it.  Each step moves one client or one request; the
   pool's size and the answers follow by counting.
7. **RPC.**  `RpcTypes`, `OneClientAlways`, `NoLossAlways`, `MessageIsSingleAlways`,
   and, if one service requests, `ReplyIsOwnAlways`.  `RpcInv` says that tasks go to
   connections there were (`ConnInv`), that the creation lock covers the second
   look (`ClientInv`), and has a witness of where each message is (`KindInv`).  For
   replies, `OwnInv` says that whoever waits for the session of a message on its
   way, or of its reply, is the coroutine that made the call.  Two requesters
   break it, as `rpc_misrouting` shows.
8. **Lua core.**  `LuaTypes`, `SessionsAreSingle`, `WaitersAreExact`,
   `WaitersHaveTheirCalls`, `AnswersFindCallers`, `StoppedAreSilent`: every
   property of the run `lua_calls`.  `LuaInv` says that the stack holds the running
   coroutines (`CoInv`), that a closed service gets no message (`ServiceInv`) and a
   callback is kept for a timer that was not stopped (`TimerInv`), and, session by
   session, that the call is in one place and its caller waits for it there
   (`CallOK`, `WaiterInv`).  A session's place is a service and an index, 0 for a
   note in `callDstMap`; each step either shifts the places of a mailbox
   (`CalmShift`), or moves one call and leaves the others (`CallKept`,
   `CallMoved`).
9. **Gateway.**  `GatewayTypes`, `OneChannelEach`, `MapsFollow` and
   `PeersImplemented`: every step is one of `MFPeer` or a stutter.  For a
   connection (`ConnInv`), the last message told (`LastTold`) and its place in the
   map follow from how far its callbacks have come, and what is on its way continues
   what was heard (`InOrder`).  For a UDP conversation (`UdpInv`), there is a course
   of what the service will have heard after each of the messages on their way
   (`WillHear`), and where that ends follows from the maps and from who is making or
   taking out the channel (`Outlook`).  `ChannelInv` says which of the two maps a
   channel is in meanwhile.  Nothing is assumed of clocks.
10. **Hot reload.**  `ReloadReaches`, `ReloadWhole`, `ReloadKeepsState`: every
   property of the run `hot_reload`, for any number of services, edits and uses.
   `HeldOK` says what a virtual machine in which nothing raised looks like: one
   table in use, of one version, no newer than what the shared cache can hand out,
   with the counter and the instances of all earlier ones.  Each way through
   `hotfix` keeps it, for every kind of file.  `MapsAgree` says that who is found by
   name is found by id; `NoneForgotten` that a service with an old module has its
   reload on the way (`ToReload`), unless `values()` missed it.

Assumptions are those the modules name; TLC evaluates them on the instances.
Nothing else is assumed.  The hypotheses of theorems (`StepBack` false,
one service that requests) are the values that the runs have, too.

Only model-checked: liveness (`ReadyIsServed`, `ShutdownStopsWorkers`,
`CommandIsAnswered`, `CallIsAnswered`, `EndIsTold`), as fairness and `ENABLED` are
out of the prover's reach.  Every invariant, action property and refinement that a
passing run checks is proved.

## What is left

1. `MFShutdown`: the order in which `shutDown` destroys the parts, with the task
   that ends the I/O thread.
2. Framing and the RESP parser: sequential algorithms over chunks, to be checked
   against reference definitions.
3. `MFProfiler`: the stack the hooks keep, against Lua's own.

## Not modelled

* Vendored code (`3rd/`), which is most of the repository's lines.  Of drogon,
  trantor, KCP, the queues and the Lua runtime the models have only the behaviour
  that the server uses: the order a queue keeps, what happens when a connection
  breaks.
* The encoders (MessagePack, protobuf, the serialiser, JSON), which are about a
  third of the server's own code: byte formats without shared state.
* String and file helpers, annotation and SQL template parsing, which are
  sequential and run at start-up; the bindings, which pass arguments on; logging;
  the sample scripts.
* Starting and stopping of the network servers, `removeChannel`, which nothing
  calls, and `removeClient`, which Lua cannot reach.
* The reuse of freed memory: an access to a deleted object is recorded, not
  followed.

## Running it

```
tlc -workers 2 -config MCScheduler.cfg MCScheduler
tlc -workers 2 -config MCHotReload.cfg MCHotReload
tlapm MFRpc_proofs.tla
```
