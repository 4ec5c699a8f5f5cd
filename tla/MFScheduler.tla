----------------------------- MODULE MFScheduler -----------------------------
(***************************************************************************)
(* The actor scheduler of MFServer: MFLuaServiceManager and the part of    *)
(* MFLuaService that a message crosses.  Every service has an unbounded    *)
(* multi-producer single-consumer queue (daking::MPSC_queue) and a flag    *)
(* m_inReadyQueue; a pool of worker threads shares one blocking queue of   *)
(* services that have something to do.  A sender pushes its message and    *)
(* puts the service in the ready queue if its atomic exchange of the flag  *)
(* found it FALSE; a worker takes a service, drains its queue and clears   *)
(* the flag.                                                               *)
(*                                                                         *)
(* Every atomic step of a call is an action, so that calls of different    *)
(* threads interleave wherever the code lets them.  The only abstractions: *)
(*  - the memory of a freed service is not given to another service; an    *)
(*    access to it is recorded in touched, reads there return anything and *)
(*    a push there is lost;                                                *)
(*  - the ready queue is a bag: moodycamel's queue keeps the order of one  *)
(*    producer only, and no property needs even that.                      *)
(***************************************************************************)
EXTENDS Naturals, Sequences, FiniteSets

CONSTANTS
  Service,   \* the service objects that can be created
  IoThread,  \* threads that are not workers: event loops, main loop
  Worker,    \* the threads of m_threadVec
  MaxSend,   \* bound: manager calls that one thread makes
  None

ASSUME ThreadAssumption ==
  /\ IoThread \cap Worker = {}
  /\ IsFiniteSet(Worker)
  /\ MaxSend \in Nat
  /\ None \notin Service \cup IoThread \cup Worker

Thread == IoThread \cup Worker

\* A message carries its sender and the sender's call number, so that no two
\* messages are equal; only its kind matters to the scheduler.
Message == [src : Thread, call : 1..MaxSend, kind : {"data", "close"}]

NoMessage == [src |-> None, call |-> 0, kind |-> "data"]

VARIABLES
  object,        \* the life of the MFLuaService object
  creator,       \* the thread inside addService for it
  serviceMap,    \* m_serviceMap: the services that getService finds
  messageQueue,  \* m_luaMessageQueue
  inReadyQueue,  \* m_inReadyQueue
  readyQueue,    \* m_readyServiceQueue: how often each service is in it
  poison,        \* m_readyServiceQueue: how many nullptr are in it
  shutdown,      \* m_shutdown
  pc,            \* where a thread is in its call of the manager
  dst,           \* the MFLuaService* that call holds
  msg,           \* the message of that call
  calls,         \* how many calls the thread has made
  wpc,           \* where a worker is in serviceWorkThread
  svc,           \* the MFLuaService* the worker took
  handling,      \* the message the worker is handling
  touched        \* freed services that some thread has accessed

callVars == <<pc, dst, msg, calls>>
workerVars == <<wpc, svc, handling>>
lifeVars == <<object, creator, serviceMap>>
queueVars == <<messageQueue, inReadyQueue, readyQueue, poison, shutdown>>
vars == <<lifeVars, queueVars, callVars, workerVars, touched>>

Init ==
  /\ object = [s \in Service |-> "none"]
  /\ creator = [s \in Service |-> None]
  /\ serviceMap = {}
  /\ messageQueue = [s \in Service |-> <<>>]
  /\ inReadyQueue = [s \in Service |-> FALSE]
  /\ readyQueue = [s \in Service |-> 0]
  /\ poison = 0
  /\ shutdown = FALSE
  /\ pc = [t \in Thread |-> "idle"]
  /\ dst = [t \in Thread |-> None]
  /\ msg = [t \in Thread |-> NoMessage]
  /\ calls = [t \in Thread |-> 0]
  /\ wpc = [w \in Worker |-> "wait"]
  /\ svc = [w \in Worker |-> None]
  /\ handling = [w \in Worker |-> NoMessage]
  /\ touched = {}

Freed(s) == object[s] = "freed"

\* An access through a pointer to s.
Touch(s) == touched' = IF Freed(s) THEN touched \cup {s} ELSE touched

-----------------------------------------------------------------------------
(***************************************************************************)
(* Calls.  An io thread calls whenever it likes, a worker only from the    *)
(* Lua handler it is running.                                              *)
(***************************************************************************)
CanCall(t) ==
  /\ pc[t] = "idle"
  /\ t \in Worker => wpc[t] = "handle"

\* addService: the object exists and its Lua main runs, but getService cannot
\* find it.  main may itself call the manager.
CreateService(t, s) ==
  /\ CanCall(t)
  /\ object[s] = "none"
  /\ object' = [object EXCEPT ![s] = "init"]
  /\ creator' = [creator EXCEPT ![s] = t]
  /\ UNCHANGED <<serviceMap, queueVars, callVars, workerVars, touched>>

InsertService(t, s) ==
  /\ CanCall(t)
  /\ creator[s] = t
  /\ object' = [object EXCEPT ![s] = "live"]
  /\ creator' = [creator EXCEPT ![s] = None]
  /\ serviceMap' = serviceMap \cup {s}
  /\ UNCHANGED <<queueVars, callVars, workerVars, touched>>

\* getService.  When it finds nothing the call drops the message and changes no
\* state here; otherwise the call goes on with the pointer.
Lookup(t, s, kind) ==
  /\ CanCall(t)
  /\ calls[t] < MaxSend
  /\ s \in serviceMap
  /\ pc' = [pc EXCEPT ![t] = "push"]
  /\ dst' = [dst EXCEPT ![t] = s]
  /\ calls' = [calls EXCEPT ![t] = @ + 1]
  /\ msg' = [msg EXCEPT ![t] = [src |-> t, call |-> calls[t] + 1, kind |-> kind]]
  /\ UNCHANGED <<lifeVars, queueVars, workerVars, touched>>

\* send, ret and nativeDispatch: one message for one service.
Send(t, s) == Lookup(t, s, "data")

\* closeService: its close message goes the same way, and more follows.
CloseService(t, s) == Lookup(t, s, "close")

\* Mutant: isPriorityQueue honoured by pushing at the front.
PushAtFront(t) ==
  /\ pc[t] = "push"
  /\ messageQueue' =
       IF Freed(dst[t]) THEN messageQueue
       ELSE [messageQueue EXCEPT ![dst[t]] = <<msg[t]>> \o @]
  /\ pc' = [pc EXCEPT ![t] = "link"]
  /\ Touch(dst[t])
  /\ UNCHANGED <<lifeVars, inReadyQueue, readyQueue, poison, shutdown,
                 dst, msg, calls, workerVars>>

\* pushMessage, first half: the exchange of the queue's head puts the message
\* in the queue ...
Push(t) ==
  /\ pc[t] = "push"
  /\ messageQueue' =
       IF Freed(dst[t]) THEN messageQueue
       ELSE [messageQueue EXCEPT ![dst[t]] = Append(@, msg[t])]
  /\ pc' = [pc EXCEPT ![t] = "link"]
  /\ Touch(dst[t])
  /\ UNCHANGED <<lifeVars, inReadyQueue, readyQueue, poison, shutdown,
                 dst, msg, calls, workerVars>>

\* ... and second half: the store of its predecessor's next_ lets the consumer
\* reach it, and everything behind it.
Link(t) ==
  /\ pc[t] = "link"
  /\ pc' = [pc EXCEPT ![t] = "exchange"]
  /\ Touch(dst[t])
  /\ UNCHANGED <<lifeVars, queueVars, dst, msg, calls, workerVars>>

\* What follows enqueueService: closeService goes on, the others return.
AfterEnqueue(t) == IF msg[t].kind = "close" THEN "name" ELSE "idle"

\* Mutant: a store in the place of the exchange.
ExchangeUntested(t) ==
  /\ pc[t] = "exchange"
  /\ pc' = [pc EXCEPT ![t] = "enqueue"]
  /\ inReadyQueue' = [inReadyQueue EXCEPT ![dst[t]] = TRUE]
  /\ Touch(dst[t])
  /\ UNCHANGED <<lifeVars, messageQueue, readyQueue, poison, shutdown,
                 dst, msg, calls, workerVars>>

\* enqueueService: the exchange, then the enqueue if it found FALSE.
Exchange(t) ==
  /\ pc[t] = "exchange"
  /\ \E old \in IF Freed(dst[t]) THEN BOOLEAN ELSE {inReadyQueue[dst[t]]} :
       pc' = [pc EXCEPT ![t] = IF old THEN AfterEnqueue(t) ELSE "enqueue"]
  /\ inReadyQueue' = [inReadyQueue EXCEPT ![dst[t]] = TRUE]
  /\ Touch(dst[t])
  /\ UNCHANGED <<lifeVars, messageQueue, readyQueue, poison, shutdown,
                 dst, msg, calls, workerVars>>

EnqueueReady(t) ==
  /\ pc[t] = "enqueue"
  /\ readyQueue' = [readyQueue EXCEPT ![dst[t]] = @ + 1]
  /\ pc' = [pc EXCEPT ![t] = AfterEnqueue(t)]
  /\ UNCHANGED <<lifeVars, messageQueue, inReadyQueue, poison, shutdown,
                 dst, msg, calls, workerVars, touched>>

\* closeService reads the name of the service it has already handed over, and
\* only then takes it out of the map.
ReadName(t) ==
  /\ pc[t] = "name"
  /\ pc' = [pc EXCEPT ![t] = "erase"]
  /\ Touch(dst[t])
  /\ UNCHANGED <<lifeVars, queueVars, dst, msg, calls, workerVars>>

EraseService(t) ==
  /\ pc[t] = "erase"
  /\ serviceMap' = serviceMap \ {dst[t]}
  /\ pc' = [pc EXCEPT ![t] = "idle"]
  /\ UNCHANGED <<object, creator, queueVars, dst, msg, calls, workerVars, touched>>

\* Mutant: one nullptr for all workers.
ShutdownOneNull ==
  /\ ~shutdown
  /\ shutdown' = TRUE
  /\ poison' = poison + 1
  /\ UNCHANGED <<lifeVars, messageQueue, inReadyQueue, readyQueue, callVars,
                 workerVars, touched>>

\* shutdown, called by destroyInstance on the main loop: one nullptr for each
\* worker.
Shutdown ==
  /\ ~shutdown
  /\ shutdown' = TRUE
  /\ poison' = poison + Cardinality(Worker)
  /\ UNCHANGED <<lifeVars, messageQueue, inReadyQueue, readyQueue, callVars,
                 workerVars, touched>>

-----------------------------------------------------------------------------
(***************************************************************************)
(* Workers: serviceWorkThread and singleMessage.                           *)
(***************************************************************************)
\* Mutant: the flag is cleared before processMsg and not after it.
TakeAndClear(w, s) ==
  /\ wpc[w] = "wait"
  /\ readyQueue[s] > 0
  /\ readyQueue' = [readyQueue EXCEPT ![s] = @ - 1]
  /\ inReadyQueue' = [inReadyQueue EXCEPT ![s] = FALSE]
  /\ svc' = [svc EXCEPT ![w] = s]
  /\ wpc' = [wpc EXCEPT ![w] = "drain"]
  /\ UNCHANGED <<lifeVars, messageQueue, poison, shutdown, callVars,
                 handling, touched>>

TakeService(w, s) ==
  /\ wpc[w] = "wait"
  /\ readyQueue[s] > 0
  /\ readyQueue' = [readyQueue EXCEPT ![s] = @ - 1]
  /\ svc' = [svc EXCEPT ![w] = s]
  /\ wpc' = [wpc EXCEPT ![w] = "drain"]
  /\ UNCHANGED <<lifeVars, messageQueue, inReadyQueue, poison, shutdown,
                 callVars, handling, touched>>

TakeNull(w) ==
  /\ wpc[w] = "wait"
  /\ poison > 0
  /\ poison' = poison - 1
  /\ wpc' = [wpc EXCEPT ![w] = IF shutdown THEN "stopped" ELSE "wait"]
  /\ UNCHANGED <<lifeVars, messageQueue, inReadyQueue, readyQueue, shutdown,
                 callVars, svc, handling, touched>>

\* The consumer reaches a message once it and all before it are linked; it
\* looks at the head, so the head decides.
Linked(m) == ~\E t \in Thread : pc[t] = "link" /\ msg[t] = m

HeadVisible(s) == messageQueue[s] # <<>> /\ Linked(Head(messageQueue[s]))

\* try_dequeue returns a message and its handler starts ...
Dequeue(w) ==
  LET s == svc[w] IN
  /\ wpc[w] = "drain"
  /\ ~Freed(s)
  /\ HeadVisible(s)
  /\ Head(messageQueue[s]).kind = "data"
  /\ messageQueue' = [messageQueue EXCEPT ![s] = Tail(@)]
  /\ handling' = [handling EXCEPT ![w] = Head(messageQueue[s])]
  /\ wpc' = [wpc EXCEPT ![w] = "handle"]
  /\ UNCHANGED <<lifeVars, inReadyQueue, readyQueue, poison, shutdown,
                 callVars, svc, touched>>

\* Mutant: one message for each turn in the ready queue.
EndTurn(w) ==
  /\ wpc[w] = "handle"
  /\ pc[w] = "idle"
  /\ \A s \in Service : creator[s] # w
  /\ handling' = [handling EXCEPT ![w] = NoMessage]
  /\ wpc' = [wpc EXCEPT ![w] = "clear"]
  /\ UNCHANGED <<lifeVars, queueVars, callVars, svc, touched>>

\* ... and returns, or raises: the message goes back to its pool either way.
EndHandle(w) ==
  /\ wpc[w] = "handle"
  /\ pc[w] = "idle"
  /\ \A s \in Service : creator[s] # w
  /\ handling' = [handling EXCEPT ![w] = NoMessage]
  /\ wpc' = [wpc EXCEPT ![w] = "drain"]
  /\ UNCHANGED <<lifeVars, queueVars, callVars, svc, touched>>

\* The close message breaks the loop; delete this follows, and the destructor
\* drops whatever else is queued.
DequeueClose(w) ==
  LET s == svc[w] IN
  /\ wpc[w] = "drain"
  /\ ~Freed(s)
  /\ HeadVisible(s)
  /\ Head(messageQueue[s]).kind = "close"
  /\ wpc' = [wpc EXCEPT ![w] = "delete"]
  /\ UNCHANGED <<lifeVars, queueVars, callVars, svc, handling, touched>>

DeleteService(w) ==
  LET s == svc[w] IN
  /\ wpc[w] = "delete"
  /\ object' = [object EXCEPT ![s] = "freed"]
  /\ messageQueue' = [messageQueue EXCEPT ![s] = <<>>]
  /\ wpc' = [wpc EXCEPT ![w] = "clear"]
  /\ UNCHANGED <<creator, serviceMap, inReadyQueue, readyQueue, poison,
                 shutdown, callVars, svc, handling, touched>>

\* try_dequeue finds nothing it can reach.
DrainEnd(w) ==
  LET s == svc[w] IN
  /\ wpc[w] = "drain"
  /\ Freed(s) \/ ~HeadVisible(s)
  /\ wpc' = [wpc EXCEPT ![w] = "clear"]
  /\ Touch(s)
  /\ UNCHANGED <<lifeVars, queueVars, callVars, svc, handling>>

\* m_inReadyQueue.store(false): no second look at the queue, and the object
\* may be the one processMsg has just deleted.
ClearFlag(w) ==
  LET s == svc[w] IN
  /\ wpc[w] = "clear"
  /\ inReadyQueue' = [inReadyQueue EXCEPT ![s] = FALSE]
  /\ svc' = [svc EXCEPT ![w] = None]
  /\ wpc' = [wpc EXCEPT ![w] = "wait"]
  /\ Touch(s)
  /\ UNCHANGED <<lifeVars, messageQueue, readyQueue, poison, shutdown,
                 callVars, handling>>

-----------------------------------------------------------------------------
\* The steps a started call has left.
CallStep(t) ==
  \/ Push(t) \/ Link(t) \/ Exchange(t) \/ EnqueueReady(t)
  \/ ReadName(t) \/ EraseService(t)
  \/ \E s \in Service : InsertService(t, s)

WorkerStep(w) ==
  \/ \E s \in Service : TakeService(w, s)
  \/ TakeNull(w) \/ Dequeue(w) \/ EndHandle(w) \/ DequeueClose(w)
  \/ DeleteService(w) \/ DrainEnd(w) \/ ClearFlag(w)

StartCall(t) ==
  \E s \in Service :
    \/ CreateService(t, s)
    \/ Send(t, s)
    \/ CloseService(t, s)

Next ==
  \/ \E t \in Thread : StartCall(t) \/ CallStep(t)
  \/ \E w \in Worker : WorkerStep(w)
  \/ Shutdown

\* A thread that is inside a call or a handler goes on (main and the handlers
\* return); nobody has to start a call or to shut the server down.
Fairness ==
  /\ \A t \in Thread : WF_vars(CallStep(t))
  /\ \A w \in Worker : WF_vars(WorkerStep(w))

Spec == Init /\ [][Next]_vars

FairSpec == Spec /\ Fairness

-----------------------------------------------------------------------------
(***************************************************************************)
(* Properties.                                                             *)
(***************************************************************************)
CallPc == {"idle", "push", "link", "exchange", "enqueue", "name", "erase"}
WorkerPc == {"wait", "drain", "handle", "delete", "clear", "stopped"}

\* Every variable keeps its shape.
TypeOK ==
  /\ object \in [Service -> {"none", "init", "live", "freed"}]
  /\ creator \in [Service -> Thread \cup {None}]
  /\ serviceMap \in SUBSET Service
  /\ messageQueue \in [Service -> Seq(Message)]
  /\ inReadyQueue \in [Service -> BOOLEAN]
  /\ readyQueue \in [Service -> Nat]
  /\ poison \in Nat
  /\ shutdown \in BOOLEAN
  /\ pc \in [Thread -> CallPc]
  /\ dst \in [Thread -> Service \cup {None}]
  /\ msg \in [Thread -> Message \cup {NoMessage}]
  /\ calls \in [Thread -> 0..MaxSend]
  /\ wpc \in [Worker -> WorkerPc]
  /\ svc \in [Worker -> Service \cup {None}]
  /\ handling \in [Worker -> Message \cup {NoMessage}]
  /\ touched \in SUBSET Service

\* Who holds the right to drain s: the threads between their winning exchange
\* and their enqueue, the entries of the ready queue, the workers that took it.
Winners(s) == {t \in Thread : pc[t] = "enqueue" /\ dst[t] = s}
Holders(s) == {w \in Worker : svc[w] = s}

\* The queue of a service is single-consumer and its Lua state is not locked:
\* no two workers may be in singleMessage of one service, whatever the senders
\* and the other workers do between the exchange of the flag and its clearing.
OneWorkerPerService ==
  \A s \in Service : ~Freed(s) =>
    \A v, w \in Holders(s) : v = w

\* m_inReadyQueue tells the truth about who will drain the service: while it is
\* TRUE exactly one winner, ready-queue entry or worker exists, so a sender
\* that loses the exchange may rely on somebody else; while it is FALSE nobody
\* does, so a sender that wins is alone.
FlagIsToken ==
  \A s \in Service : ~Freed(s) =>
    /\ \A t, u \in Winners(s) : t = u
    /\ \A v, w \in Holders(s) : v = w
    /\ readyQueue[s] <= 1
    /\ Winners(s) # {} => readyQueue[s] = 0 /\ Holders(s) = {}
    /\ Holders(s) # {} => readyQueue[s] = 0
    /\ inReadyQueue[s] <=> (Winners(s) # {} \/ readyQueue[s] = 1 \/ Holders(s) # {})

\* When singleMessage deletes the service nobody is about to drain it: no other
\* worker took it, it is not in the ready queue, no sender is about to put it
\* there.  (Senders that merely hold the pointer are another matter: touched.)
DeletedByItsOnlyOwner ==
  [][\A s \in Service :
       ~Freed(s) /\ Freed(s)' =>
         /\ Cardinality(Holders(s)) = 1
         /\ readyQueue[s] = 0
         /\ Winners(s) = {}]_vars

\* The actor that the scheduler shows for s: what is being handled, and how far
\* its life has come.
Busy(s) == {handling[w] : w \in {v \in Holders(s) : wpc[v] = "handle"}}

Stage(s) ==
  IF object[s] = "live" THEN "open" ELSE IF Freed(s) THEN "gone" ELSE "none"

Mailbox == INSTANCE MFMailbox WITH
  Closing <- {m \in Message : m.kind = "close"},
  box <- messageQueue,
  busy <- [s \in Service |-> Busy(s)],
  stage <- [s \in Service |-> Stage(s)]

\* Each handler that runs, and the end of each service, is a step of the actor
\* of MFMailbox: one handler at a time, in the order of the pushes, and none
\* after the service is gone, although calls and workers interleave freely.
ImplementsMailbox == Mailbox!Spec

Waiting(s, m) == m \in {messageQueue[s][i] : i \in 1..Len(messageQueue[s])}

\* m and all messages before it are linked.
Reachable(s, m) ==
  \E i \in 1..Len(messageQueue[s]) :
    messageQueue[s][i] = m /\ \A j \in 1..i : Linked(messageQueue[s][j])

\* What the scheduler does guarantee: once a service is in the ready queue,
\* everything the consumer can reach at that moment is handled, or dropped with
\* the service, unless the server shuts down first.
ReadyIsServed ==
  \A s \in Service, m \in Message :
    (readyQueue[s] > 0 /\ Reachable(s, m)) ~> (~Waiting(s, m) \/ shutdown)

\* shutdown's nullptrs reach every worker, whatever is in the ready queue, so
\* the join in the manager's destructor returns once the handlers do.
ShutdownStopsWorkers == shutdown ~> (\A w \in Worker : wpc[w] = "stopped")

-----------------------------------------------------------------------------
(***************************************************************************)
(* What the comments of the code say and the code does not do.             *)
(***************************************************************************)

\* MFMacro.h:31: a request to a service is answered with ret.  So its handler
\* has to run.
RequestIsHandled ==
  \A s \in Service, m \in Message :
    (m.kind = "data" /\ Waiting(s, m)) ~> (~Waiting(s, m) \/ shutdown)
=============================================================================
