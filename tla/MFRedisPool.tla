----------------------------- MODULE MFRedisPool -----------------------------
(***************************************************************************)
(* The Redis pool: MFRedisConnectPool, the connection state machine of     *)
(* MFRedisClient, and the two ways MFNativeLuaRedis uses them.  A worker   *)
(* borrows a connection, hands its command to the connection's own event   *)
(* loop and, for executeSync, waits for the answer with a timeout.  The    *)
(* loop returns the connection, or replaces it and gives it to the         *)
(* file-I/O thread (MFIoPool) to delete; a timer has the same thread       *)
(* delete connections that were idle for long.                             *)
(*                                                                         *)
(* m_currentPoolSize is an atomic that is read and changed in separate     *)
(* steps by all of them.  The blocking queue of idle connections is a bag; *)
(* how long a connection was idle is a free choice; so is what the server  *)
(* does.                                                                   *)
(***************************************************************************)
EXTENDS Integers, Sequences, FiniteSets

CONSTANTS
  Worker,     \* the threads that run services
  Client,     \* bound: the MFRedisClient objects at one time
  Io,         \* the file-I/O thread
  MinSize,    \* m_minPoolSize
  MaxSize,    \* m_maxPoolSize
  Password,   \* is a password configured?
  MaxCalls,   \* bound: commands
  MaxExpire,  \* bound: runs of the idle timer
  None

ASSUME RedisAssumption ==
  /\ MinSize \in Nat /\ MaxSize \in Nat /\ MinSize <= MaxSize
  /\ MaxCalls \in Nat /\ MaxExpire \in Nat /\ Password \in BOOLEAN
  /\ IsFiniteSet(Client) /\ MinSize <= Cardinality(Client)
  /\ None \notin Worker \cup Client \cup {Io}
  /\ Io \notin Worker \cup Client /\ Worker \cap Client = {}

Request == 1..MaxCalls

VARIABLES
  made,      \* clients that exist or existed
  freed,     \* clients that have been deleted
  state,     \* m_state
  ready,     \* m_onReady is still set
  retry,     \* the TcpClient will connect again by itself
  inflight,  \* m_inflight: its request, 0 for none
  task,      \* execute's functions that wait in the client's loop
  idle,      \* m_redisContextPool: how often the client is in it
  poolSize,  \* m_currentPoolSize
  ioQueue,   \* MFIoPool's queue
  expires,   \* runs of the timer so far
  checked,   \* checkedCount in clearExpiredConnect
  pc,        \* where a worker, a client's loop or the I/O thread is
  conn,      \* the client a worker or the I/O thread holds
  request,   \* the request a worker makes or a loop is answering
  sync,      \* requests made by executeSync
  calls,     \* requests so far
  answers    \* how often the request's callback has delivered

clientVars == <<made, freed, state, ready, retry, inflight, task>>
poolVars == <<idle, poolSize>>
ioVars == <<ioQueue, expires, checked>>
callVars == <<sync, calls, answers>>
vars == <<clientVars, poolVars, ioVars, callVars, pc, conn, request>>

\* init of the pool: the first MinSize clients are connecting.
Init ==
  /\ made \in {C \in SUBSET Client : Cardinality(C) = MinSize}
  /\ freed = {}
  /\ state = [c \in Client |-> IF c \in made THEN "Connecting" ELSE "Disconnected"]
  /\ ready = [c \in Client |-> c \in made]
  /\ retry = [c \in Client |-> FALSE]
  /\ inflight = [c \in Client |-> 0]
  /\ task = [c \in Client |-> <<>>]
  /\ idle = [c \in Client |-> 0]
  /\ poolSize = MinSize
  /\ ioQueue = <<>>
  /\ expires = 0
  /\ checked = 0
  /\ pc = [p \in Worker \cup Client \cup {Io} |->
             IF p \in Worker THEN "lua" ELSE IF p = Io THEN "wait" ELSE "loop"]
  /\ conn = [p \in Worker \cup {Io} |-> None]
  /\ request = [p \in Worker \cup Client |-> 0]
  /\ sync = {}
  /\ calls = 0
  /\ answers = [r \in Request |-> 0]

Goto(p, place) == pc' = [pc EXCEPT ![p] = place]

-----------------------------------------------------------------------------
(***************************************************************************)
(* createConnect: a test of the size, and then the increment.  A worker    *)
(* goes on to wait for a connection, a loop to delete its own.             *)
(***************************************************************************)
AfterCreate(p) == IF p \in Worker THEN "dequeue" ELSE "delete"

CheckRoom(p) ==
  /\ pc[p] = "check"
  /\ Goto(p, IF poolSize >= MaxSize THEN AfterCreate(p) ELSE "create")
  /\ UNCHANGED <<clientVars, poolVars, ioVars, callVars, conn, request>>

\* The new client may get the memory of a deleted one.
Create(p, c) ==
  /\ pc[p] = "create"
  /\ c \notin made \ freed
  /\ made' = made \cup {c}
  /\ freed' = freed \ {c}
  /\ poolSize' = poolSize + 1
  /\ state' = [state EXCEPT ![c] = "Connecting"]
  /\ ready' = [ready EXCEPT ![c] = TRUE]
  /\ Goto(p, AfterCreate(p))
  /\ UNCHANGED <<retry, inflight, task, idle, ioVars, callVars, conn, request>>

-----------------------------------------------------------------------------
(***************************************************************************)
(* A worker: getConnect, execute, and the wait of executeSync.             *)
(***************************************************************************)
Start(w) ==
  /\ pc[w] = "lua"
  /\ calls < MaxCalls
  /\ calls' = calls + 1
  /\ request' = [request EXCEPT ![w] = calls + 1]
  /\ sync' \in {sync, sync \cup {calls + 1}}
  /\ Goto(w, "get")
  /\ UNCHANGED <<clientVars, poolVars, ioVars, conn, answers>>

TakeIdle(p, c) ==
  /\ idle[c] > 0
  /\ idle' = [idle EXCEPT ![c] = @ - 1]
  /\ conn' = [conn EXCEPT ![p] = c]

\* try_dequeue ...
TryDequeue(w) ==
  /\ pc[w] = "get"
  /\ \/ (\E c \in Client : TakeIdle(w, c)) /\ Goto(w, "execute")
     \/ (\A c \in Client : idle[c] = 0) /\ Goto(w, "check") /\ UNCHANGED <<idle, conn>>
  /\ UNCHANGED <<clientVars, poolSize, ioVars, callVars, request>>

\* ... and, after createConnect, wait_dequeue.
WaitDequeue(w) ==
  /\ pc[w] = "dequeue"
  /\ \E c \in Client : TakeIdle(w, c)
  /\ Goto(w, "execute")
  /\ UNCHANGED <<clientVars, poolSize, ioVars, callVars, request>>

\* execute: runInLoop of the client.
Execute(w) ==
  /\ pc[w] = "execute"
  /\ task' = [task EXCEPT ![conn[w]] = Append(@, request[w])]
  /\ conn' = [conn EXCEPT ![w] = None]
  /\ Goto(w, IF request[w] \in sync THEN "future" ELSE "lua")
  /\ UNCHANGED <<made, freed, state, ready, retry, inflight, poolVars, ioVars,
                 callVars, request>>

\* future.wait_for: the answer is there, or the timeout is over.
WaitFor(w) ==
  /\ pc[w] = "future"
  /\ Goto(w, "lua")
  /\ UNCHANGED <<clientVars, poolVars, ioVars, callVars, conn, request>>

-----------------------------------------------------------------------------
(***************************************************************************)
(* The event loop of a client.  One event at a time; an event that calls   *)
(* back into the pool takes the steps of releaseConnect.                   *)
(***************************************************************************)
Looping(c) == pc[c] = "loop" /\ c \in made \ freed

\* fn(result): executeSync sets the promise before it returns the client,
\* executeAsync dispatches the answer after that.
BeginAnswer(c, r) ==
  /\ request' = [request EXCEPT ![c] = r]
  /\ answers' = IF r \in sync THEN [answers EXCEPT ![r] = @ + 1] ELSE answers
  /\ Goto(c, "release")

\* Mutant: execute does not look at m_state.
RunExecuteBlind(c) ==
  LET r == Head(task[c]) IN
  /\ Looping(c)
  /\ task[c] # <<>>
  /\ task' = [task EXCEPT ![c] = Tail(@)]
  /\ inflight' = [inflight EXCEPT ![c] = r]
  /\ UNCHANGED <<pc, request, answers>>
  /\ UNCHANGED <<made, freed, state, ready, retry, poolVars, ioVars, sync, calls, conn>>

\* execute's function: an error answer at once, or the command is sent.
RunExecute(c) ==
  LET r == Head(task[c]) IN
  /\ Looping(c)
  /\ task[c] # <<>>
  /\ task' = [task EXCEPT ![c] = Tail(@)]
  /\ IF state[c] # "Connected" \/ inflight[c] # 0
       THEN BeginAnswer(c, r) /\ UNCHANGED inflight
       ELSE /\ inflight' = [inflight EXCEPT ![c] = r]
            /\ UNCHANGED <<pc, request, answers>>
  /\ UNCHANGED <<made, freed, state, ready, retry, poolVars, ioVars, sync, calls, conn>>

\* Mutant: m_inflight outlives its answer.
ReplyKeepsInflight(c) ==
  /\ Looping(c)
  /\ state[c] = "Connected"
  /\ inflight[c] # 0
  /\ BeginAnswer(c, inflight[c])
  /\ UNCHANGED <<made, freed, state, ready, retry, inflight, task, poolVars,
                 ioVars, sync, calls, conn>>

\* onMessage in the state Connected: the reply of the command in flight.
Reply(c) ==
  /\ Looping(c)
  /\ state[c] = "Connected"
  /\ inflight[c] # 0
  /\ inflight' = [inflight EXCEPT ![c] = 0]
  /\ BeginAnswer(c, inflight[c])
  /\ UNCHANGED <<made, freed, state, ready, retry, task, poolVars, ioVars, sync,
                 calls, conn>>

\* setState(Connected): the ready callback, if it is still set, puts the client
\* into the pool.
BecomeConnected(c) ==
  /\ state' = [state EXCEPT ![c] = "Connected"]
  /\ idle' = [idle EXCEPT ![c] = IF ready[c] THEN @ + 1 ELSE @]
  /\ ready' = [ready EXCEPT ![c] = FALSE]

\* onConnect, of the first connection or of one the TcpClient made again.
OnConnect(c) ==
  /\ Looping(c)
  /\ state[c] = "Connecting" \/ (state[c] = "Disconnected" /\ retry[c])
  /\ IF Password
       THEN state' = [state EXCEPT ![c] = "Authenticating"] /\ UNCHANGED <<idle, ready>>
       ELSE BecomeConnected(c)
  /\ retry' = [retry EXCEPT ![c] = FALSE]
  /\ UNCHANGED <<made, freed, inflight, task, poolSize, ioVars, callVars, pc, conn, request>>

\* AUTH was answered with OK.
AuthOk(c) ==
  /\ Looping(c)
  /\ state[c] = "Authenticating"
  /\ BecomeConnected(c)
  /\ UNCHANGED <<made, freed, retry, inflight, task, poolSize, ioVars, callVars,
                 pc, conn, request>>

\* setState(Disconnected): the command in flight fails, and the ready callback
\* of a client that was never in the pool has it deleted.
BecomeDisconnected(c, again) ==
  /\ state' = [state EXCEPT ![c] = "Disconnected"]
  /\ retry' = [retry EXCEPT ![c] = again]
  /\ inflight' = [inflight EXCEPT ![c] = 0]
  /\ ready' = [ready EXCEPT ![c] = FALSE]
  /\ IF inflight[c] # 0
       THEN BeginAnswer(c, inflight[c]) /\ UNCHANGED poolSize
       ELSE /\ IF ready[c]
                 THEN poolSize' = poolSize - 1 /\ Goto(c, "delete")
                 ELSE UNCHANGED <<poolSize, pc>>
            /\ UNCHANGED <<request, answers>>
  /\ UNCHANGED <<made, freed, task, idle, ioVars, sync, calls, conn>>

\* The connection error callback.
ConnectError(c) ==
  /\ Looping(c)
  /\ state[c] = "Connecting"
  /\ BecomeDisconnected(c, FALSE)

\* The TcpClient's own attempt fails: setState changes nothing, and there is no
\* other attempt.
ReconnectError(c) ==
  /\ Looping(c)
  /\ state[c] = "Disconnected" /\ retry[c]
  /\ retry' = [retry EXCEPT ![c] = FALSE]
  /\ UNCHANGED <<made, freed, state, ready, inflight, task, poolVars, ioVars,
                 callVars, pc, conn, request>>

\* onDisconnect: the server closed the connection, enableRetry is in force.
OnDisconnect(c) ==
  /\ Looping(c)
  /\ state[c] \in {"Authenticating", "Connected"}
  /\ BecomeDisconnected(c, TRUE)

\* disconnect() from onMessage: AUTH failed, data came while nothing was in
\* flight, or the parser raised.  It ends the retries.
Disconnect(c) ==
  /\ Looping(c)
  /\ state[c] \in {"Authenticating", "Connected"}
  /\ BecomeDisconnected(c, FALSE)

\* releaseConnect: isIdle decides.
Release(c) ==
  /\ pc[c] = "release"
  /\ IF state[c] = "Connected" /\ inflight[c] = 0
       THEN /\ idle' = [idle EXCEPT ![c] = @ + 1]
            /\ Goto(c, "answer")
            /\ UNCHANGED poolSize
       ELSE /\ poolSize' = poolSize - 1
            /\ Goto(c, "check")
            /\ UNCHANGED idle
  /\ UNCHANGED <<clientVars, ioVars, callVars, conn, request>>

\* Mutant: deleteClient twice, by the release and by the callback.
DeleteTwice(c) ==
  /\ pc[c] = "delete"
  /\ ioQueue' = ioQueue \o <<[op |-> "delete", client |-> c], [op |-> "delete", client |-> c]>>
  /\ Goto(c, IF request[c] = 0 THEN "loop" ELSE "answer")
  /\ UNCHANGED <<clientVars, poolVars, expires, checked, callVars, conn, request>>

\* deleteClient: a task for the I/O thread.
Delete(c) ==
  /\ pc[c] = "delete"
  /\ ioQueue' = Append(ioQueue, [op |-> "delete", client |-> c])
  /\ Goto(c, IF request[c] = 0 THEN "loop" ELSE "answer")
  /\ UNCHANGED <<clientVars, poolVars, expires, checked, callVars, conn, request>>

\* dispatchRedisCommand, for executeAsync.
Answer(c) ==
  LET r == request[c] IN
  /\ pc[c] = "answer"
  /\ answers' = IF r \in sync THEN answers ELSE [answers EXCEPT ![r] = @ + 1]
  /\ request' = [request EXCEPT ![c] = 0]
  /\ Goto(c, "loop")
  /\ UNCHANGED <<clientVars, poolVars, ioVars, sync, calls, conn>>

-----------------------------------------------------------------------------
(***************************************************************************)
(* The file-I/O thread and the timer that feeds it.                        *)
(***************************************************************************)
Timer ==
  /\ expires < MaxExpire
  /\ expires' = expires + 1
  /\ ioQueue' = Append(ioQueue, [op |-> "expire", client |-> None])
  /\ UNCHANGED <<clientVars, poolVars, checked, callVars, pc, conn, request>>

IoTake ==
  /\ pc[Io] = "wait"
  /\ ioQueue # <<>>
  /\ ioQueue' = Tail(ioQueue)
  /\ conn' = [conn EXCEPT ![Io] = Head(ioQueue).client]
  /\ checked' = 0
  /\ Goto(Io, IF Head(ioQueue).op = "delete" THEN "destroy" ELSE "expire")
  /\ UNCHANGED <<clientVars, poolVars, expires, callVars, request>>

\* The loop of clearExpiredConnect: its condition and its try_dequeue ...
ExpireNext ==
  /\ pc[Io] = "expire"
  /\ IF checked < MaxSize /\ poolSize > MinSize /\ \E c \in Client : idle[c] > 0
       THEN /\ \E c \in Client : TakeIdle(Io, c)
            /\ checked' = checked + 1
            /\ Goto(Io, "judge")
       ELSE Goto(Io, "wait") /\ UNCHANGED <<idle, conn, checked>>
  /\ UNCHANGED <<clientVars, poolSize, ioQueue, expires, callVars, request>>

\* ... and what the client's idle time decides.
KeepIdle ==
  /\ pc[Io] = "judge"
  /\ idle' = [idle EXCEPT ![conn[Io]] = @ + 1]
  /\ conn' = [conn EXCEPT ![Io] = None]
  /\ Goto(Io, "wait")
  /\ UNCHANGED <<clientVars, poolSize, ioVars, callVars, request>>

Expired ==
  /\ pc[Io] = "judge"
  /\ Goto(Io, "count")
  /\ UNCHANGED <<clientVars, poolVars, ioVars, callVars, conn, request>>

\* ~MFRedisClient ends the loop and joins its thread, so that an event that is
\* still running comes to its end first.
Free(c) ==
  /\ pc[c] = "loop"
  /\ freed' = freed \cup {c}
  /\ state' = [state EXCEPT ![c] = "Disconnected"]
  /\ retry' = [retry EXCEPT ![c] = FALSE]
  /\ conn' = [conn EXCEPT ![Io] = None]
  /\ UNCHANGED <<made, ready, inflight, task>>

Destroy ==
  /\ pc[Io] = "destroy"
  /\ Free(conn[Io])
  /\ Goto(Io, "wait")
  /\ UNCHANGED <<poolVars, ioVars, callVars, request>>

DestroyExpired ==
  /\ pc[Io] = "count"
  /\ conn[Io] # None
  /\ Free(conn[Io])
  /\ UNCHANGED <<pc, poolVars, ioVars, callVars, request>>

\* Mutant: the size is not given back.
CountNothing ==
  /\ pc[Io] = "count"
  /\ conn[Io] = None
  /\ Goto(Io, "expire")
  /\ UNCHANGED <<clientVars, poolVars, ioVars, callVars, conn, request>>

CountExpired ==
  /\ pc[Io] = "count"
  /\ conn[Io] = None
  /\ poolSize' = poolSize - 1
  /\ Goto(Io, "expire")
  /\ UNCHANGED <<clientVars, idle, ioVars, callVars, conn, request>>

-----------------------------------------------------------------------------
WorkerStep(w) ==
  \/ TryDequeue(w) \/ CheckRoom(w) \/ WaitDequeue(w) \/ Execute(w) \/ WaitFor(w)
  \/ \E c \in Client : Create(w, c)

\* What a loop does by itself once an event has come.
LoopStep(c) ==
  \/ RunExecute(c) \/ CheckRoom(c) \/ Release(c) \/ Delete(c) \/ Answer(c)
  \/ \E d \in Client : Create(c, d)

\* What the network does to a client.
NetworkStep(c) ==
  \/ OnConnect(c) \/ AuthOk(c) \/ ConnectError(c) \/ ReconnectError(c)
  \/ OnDisconnect(c) \/ Disconnect(c) \/ Reply(c)

IoStep ==
  \/ IoTake \/ ExpireNext \/ KeepIdle \/ Expired \/ Destroy \/ DestroyExpired
  \/ CountExpired

Next ==
  \/ \E w \in Worker : Start(w) \/ WorkerStep(w)
  \/ \E c \in Client : LoopStep(c) \/ NetworkStep(c)
  \/ IoStep
  \/ Timer

Spec == Init /\ [][Next]_vars

\* Threads go on, and the server answers a command or the connection breaks.
Fairness ==
  /\ \A w \in Worker : WF_vars(WorkerStep(w))
  /\ \A c \in Client :
       /\ WF_vars(LoopStep(c))
       /\ WF_vars(Reply(c) \/ OnDisconnect(c))
       /\ WF_vars(OnConnect(c) \/ ConnectError(c) \/ ReconnectError(c))
       /\ WF_vars(AuthOk(c) \/ Disconnect(c))
  /\ WF_vars(IoStep)

FairSpec == Spec /\ Fairness

-----------------------------------------------------------------------------
(***************************************************************************)
(* Properties.                                                             *)
(***************************************************************************)
State == {"Disconnected", "Connecting", "Authenticating", "Connected"}
WorkerPc == {"lua", "get", "check", "create", "dequeue", "execute", "future"}
LoopPc == {"loop", "release", "check", "create", "delete", "answer"}
IoPc == {"wait", "expire", "judge", "count", "destroy"}

\* Every variable keeps its shape.
TypeOK ==
  /\ made \in SUBSET Client
  /\ freed \in SUBSET made
  /\ state \in [Client -> State]
  /\ ready \in [Client -> BOOLEAN]
  /\ retry \in [Client -> BOOLEAN]
  /\ inflight \in [Client -> Request \cup {0}]
  /\ task \in [Client -> Seq(Request)]
  /\ idle \in [Client -> Nat]
  /\ poolSize \in Nat
  /\ ioQueue \in Seq([op : {"delete"}, client : Client]
                       \cup {[op |-> "expire", client |-> None]})
  /\ expires \in 0..MaxExpire
  /\ checked \in 0..MaxSize
  /\ pc \in [Worker \cup Client \cup {Io} -> WorkerPc \cup LoopPc \cup IoPc]
  /\ conn \in [Worker \cup {Io} -> Client \cup {None}]
  /\ request \in [Worker \cup Client -> Request \cup {0}]
  /\ sync \in SUBSET Request
  /\ calls \in 0..MaxCalls
  /\ answers \in [Request -> Nat]

\* The places a client can be in.
Connecting(c) == ready[c]
Idle(c) == idle[c] = 1
Borrowed(c) == \E w \in Worker : conn[w] = c
Working(c) == Len(task[c]) = 1 \/ inflight[c] # 0 \/ pc[c] = "release"
Judged(c) == conn[Io] = c /\ pc[Io] \in {"judge", "count"}
Doomed(c) ==
  \/ pc[c] \in {"check", "create", "delete"}
  \/ \E i \in 1..Len(ioQueue) : ioQueue[i].client = c
  \/ conn[Io] = c /\ pc[Io] = "destroy"
Freed(c) == c \in freed

\* Every client is in exactly one place: it is connecting, idle in the pool
\* (once), in the hands of one worker, at work on one command, examined by the
\* I/O thread, on its way to be deleted, or deleted.  So no command finds a
\* client busy, none is lost, none is deleted under a user or twice.
OnePlace ==
  \A c \in made :
    /\ Cardinality({i \in 1..7 :
         <<Connecting(c), Idle(c), Borrowed(c), Working(c), Judged(c),
           Doomed(c), Freed(c)>>[i]}) = 1
    /\ idle[c] <= 1
    /\ Len(task[c]) <= 1
    /\ Cardinality({w \in Worker : conn[w] = c}) <= 1
    /\ Cardinality({i \in 1..Len(ioQueue) : ioQueue[i].client = c}) <= 1

\* Clients m_currentPoolSize stands for: all but those on their way out, one of
\* which clearExpiredConnect takes off the count only after the delete.
Counted ==
  {c \in made : ~Doomed(c) /\ ~Freed(c)}

\* m_currentPoolSize is the number of clients the pool can still use, through
\* failed connects, replaced and expired clients: it does not drift.
PoolSizeExact ==
  poolSize = Cardinality(Counted)
               + (IF pc[Io] = "count" /\ conn[Io] = None THEN 1 ELSE 0)

\* A callback delivers at most one answer, and only for a request that was
\* made: not a second time when the connection breaks after the reply.
AnsweredOnce ==
  \A r \in Request : answers[r] <= IF r <= calls THEN 1 ELSE 0

\* A command that reached a client's loop is answered: with its reply, or with
\* an error when the connection was not ready or breaks.
CommandIsAnswered ==
  \A r \in Request :
    (\E c \in Client : inflight[c] = r \/ \E i \in DOMAIN task[c] : task[c][i] = r)
      ~> answers[r] = 1
=============================================================================
