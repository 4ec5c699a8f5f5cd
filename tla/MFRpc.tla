-------------------------------- MODULE MFRpc --------------------------------
(***************************************************************************)
(* RPC to another server: services call MFRpcClient.lua, which sends over  *)
(* the one MFTcpClient that MFNetManager keeps for a server of the         *)
(* configuration; the server hands requests to a service by connection     *)
(* (MFTcpServer, MFConnectionManager, MFRpcServer.lua) and its replies     *)
(* come back as messages to the service that made the client.              *)
(*                                                                         *)
(* The connection's thread runs one event at a time; between its steps     *)
(* workers run the services.  The connection breaks and is made again.     *)
(* Framing is left out: a message is sent, read and lost as a whole.       *)
(***************************************************************************)
EXTENDS Naturals, Sequences, FiniteSets, SequencesExt

CONSTANTS
  Caller,     \* services that use the server
  Requester,  \* those that call request, the others call send only
  MaxCall,    \* bound: calls of each service
  MaxConn,    \* bound: connections
  None

\* sid is the session on the wire, 0 for send; call tells the calls of a service
\* apart and is not on the wire.
Message == [src : Caller, sid : 0..MaxCall, call : 1..MaxCall]

ASSUME RpcAssumption ==
  /\ Requester \subseteq Caller
  /\ MaxCall \in Nat /\ MaxConn \in Nat
  /\ None \notin Caller \cup Message

Conn == 1..MaxConn

VARIABLES
  pc,         \* where a service is in rpcClientSend, "lua" outside of it
  msg,        \* what it sends
  calls,      \* how many calls it has made
  cSid,       \* cSid of its MFRpcClient
  rpcCo,      \* rpcClientCo: the call whose coroutine waits for a session, or 0
  client,     \* m_serviceId of the client in m_clientMap, None if there is none
  created,    \* clients made so far
  lock,       \* m_clientCreateLock: who holds it
  waiting,    \* m_waitSendQueue, which keeps the order of one thread only
  connect,    \* m_connect: the connection it points to, 0 before the first
  conn,       \* the last connection of the trantor::TcpClient
  link,       \* it: "none", "connecting", "up", "broken" and not noticed yet
  loop,       \* the connection's thread: "idle" or in sendWait, "drain"
  tasks,      \* what was sent from other threads and its loop has yet to write
  toServer,   \* on the wire, by connection
  toClient,
  fds,        \* m_connectionMap of the server
  todo,       \* requests its service was given and has not answered
  handled,    \* history: messages the server has read
  box,        \* replies in the mailbox of the client's service
  lost        \* history: messages lost with a connection

callerVars == <<pc, msg, calls, cSid, rpcCo>>
managerVars == <<client, created, lock>>
clientVars == <<waiting, connect, conn, link, loop, tasks>>
serverVars == <<fds, todo, handled>>
vars == <<callerVars, managerVars, clientVars, toServer, toClient, serverVars,
          box, lost>>

Init ==
  /\ pc = [s \in Caller |-> "lua"]
  /\ msg = [s \in Caller |-> None]
  /\ calls = [s \in Caller |-> 0]
  /\ cSid = [s \in Caller |-> 0]
  /\ rpcCo = [s \in Caller |-> [n \in 1..MaxCall |-> 0]]
  /\ client = None /\ created = 0 /\ lock = None
  /\ waiting = {} /\ tasks = <<>>
  /\ connect = 0 /\ conn = 0 /\ link = "none" /\ loop = "idle"
  /\ toServer = [k \in Conn |-> <<>>]
  /\ toClient = [k \in Conn |-> <<>>]
  /\ fds = {} /\ todo = {} /\ handled = {}
  /\ box = <<>>
  /\ lost = {}

Goto(s, label) == pc' = [pc EXCEPT ![s] = label]

-----------------------------------------------------------------------------
(***************************************************************************)
(* A service: the Lua module, then MFNetManager::rpcClientSend.            *)
(***************************************************************************)
\* Mutant: the counter is not kept.
RequestSameSid(s) ==
  /\ s \in Requester
  /\ UNCHANGED cSid
  /\ rpcCo' = [rpcCo EXCEPT ![s][1] = calls'[s]]
  /\ msg' = [msg EXCEPT ![s] = [src |-> s, sid |-> 1, call |-> calls'[s]]]

Request(s) ==
  LET n == cSid[s] + 1 IN
  /\ s \in Requester
  /\ cSid' = [cSid EXCEPT ![s] = n]
  /\ rpcCo' = [rpcCo EXCEPT ![s][n] = calls'[s]]
  /\ msg' = [msg EXCEPT ![s] = [src |-> s, sid |-> n, call |-> calls'[s]]]

Send(s) ==
  /\ msg' = [msg EXCEPT ![s] = [src |-> s, sid |-> 0, call |-> calls'[s]]]
  /\ UNCHANGED <<cSid, rpcCo>>

Call(s) ==
  /\ pc[s] = "lua"
  /\ calls[s] < MaxCall
  /\ calls' = [calls EXCEPT ![s] = @ + 1]
  /\ Request(s) \/ Send(s)
  /\ Goto(s, "find")
  /\ UNCHANGED <<managerVars, clientVars, toServer, toClient, serverVars, box, lost>>

\* getClient: the map, under the shared lock.
FindClient(s) ==
  /\ pc[s] = "find"
  /\ Goto(s, IF client # None THEN "send" ELSE "lock")
  /\ UNCHANGED <<msg, calls, cSid, rpcCo, managerVars, clientVars, toServer,
                 toClient, serverVars, box, lost>>

LockCreate(s) ==
  /\ pc[s] = "lock"
  /\ lock = None
  /\ lock' = s
  /\ Goto(s, "recheck")
  /\ UNCHANGED <<msg, calls, cSid, rpcCo, client, created, clientVars, toServer,
                 toClient, serverVars, box, lost>>

\* Mutant: it does not look again.
RecheckNothing(s) ==
  /\ pc[s] = "recheck"
  /\ Goto(s, "create")
  /\ UNCHANGED <<msg, calls, cSid, rpcCo, managerVars, clientVars, toServer,
                 toClient, serverVars, box, lost>>

\* The map again, now under the creation lock.
Recheck(s) ==
  /\ pc[s] = "recheck"
  /\ IF client # None
       THEN lock' = None /\ Goto(s, "send")
       ELSE UNCHANGED lock /\ Goto(s, "create")
  /\ UNCHANGED <<msg, calls, cSid, rpcCo, client, created, clientVars, toServer,
                 toClient, serverVars, box, lost>>

\* The client is made for the service that is first, and connects, ...
CreateClient(s) ==
  /\ pc[s] = "create"
  /\ created' = created + 1
  /\ link' = "connecting"
  /\ Goto(s, "insert")
  /\ UNCHANGED <<msg, calls, cSid, rpcCo, client, lock, waiting, connect, conn,
                 loop, tasks, toServer, toClient, serverVars, box, lost>>

\* ... before others find it in the map.
InsertClient(s) ==
  /\ pc[s] = "insert"
  /\ client' = s
  /\ lock' = None
  /\ Goto(s, "send")
  /\ UNCHANGED <<msg, calls, cSid, rpcCo, created, clientVars, toServer,
                 toClient, serverVars, box, lost>>

\* MFTcpClient::send: the test ...
TestConnect(s) ==
  /\ pc[s] = "send"
  /\ Goto(s, IF connect = 0 THEN "enqueue" ELSE "direct")
  /\ UNCHANGED <<msg, calls, cSid, rpcCo, managerVars, clientVars, toServer,
                 toClient, serverVars, box, lost>>

\* ... and what it decides: the message waits for the connection,
Enqueue(s) ==
  /\ pc[s] = "enqueue"
  /\ waiting' = waiting \cup {msg[s]}
  /\ msg' = [msg EXCEPT ![s] = None]
  /\ Goto(s, "lua")
  /\ UNCHANGED <<calls, cSid, rpcCo, managerVars, connect, conn, link, loop,
                 tasks, toServer, toClient, serverVars, box, lost>>

\* or its thread is to write it.
Direct(s) ==
  /\ pc[s] = "direct"
  /\ tasks' = Append(tasks, [conn |-> connect, m |-> msg[s]])
  /\ msg' = [msg EXCEPT ![s] = None]
  /\ Goto(s, "lua")
  /\ UNCHANGED <<calls, cSid, rpcCo, managerVars, waiting, connect, conn, link,
                 loop, toServer, toClient, serverVars, box, lost>>

\* onRevResponse: the coroutine of the session, if one waits, goes on.
OnRevResponse(s) ==
  /\ pc[s] = "lua"
  /\ s = client
  /\ box # <<>>
  /\ box' = Tail(box)
  /\ rpcCo' = [rpcCo EXCEPT ![s] =
       [n \in DOMAIN @ |-> IF n = Head(box).sid THEN 0 ELSE @[n]]]
  /\ UNCHANGED <<pc, msg, calls, cSid, managerVars, clientVars, toServer,
                 toClient, serverVars, lost>>

-----------------------------------------------------------------------------
(***************************************************************************)
(* The thread of the client's connection.                                  *)
(***************************************************************************)
\* A write to connection k: what is not up any more takes it nowhere.
Write(k, m) ==
  IF k = conn /\ link = "up"
    THEN toServer' = [toServer EXCEPT ![k] = Append(@, m)] /\ UNCHANGED lost
    ELSE lost' = lost \cup {m} /\ UNCHANGED toServer

\* The connection callback sets m_connect and starts sendWait; the server's side
\* is registered before it reads.
OnConnect ==
  /\ loop = "idle"
  /\ link = "connecting"
  /\ conn < MaxConn
  /\ conn' = conn + 1
  /\ connect' = conn'
  /\ link' = "up"
  /\ loop' = "drain"
  /\ fds' = fds \cup {conn'}
  /\ UNCHANGED <<callerVars, managerVars, waiting, tasks, toServer, toClient,
                 todo, handled, box, lost>>

\* Mutant: a message stays in the queue that it is sent from.
SendWaitKeeps ==
  /\ loop = "drain"
  /\ \/ \E m \in waiting : Write(connect, m) /\ UNCHANGED loop
     \/ loop' = "idle" /\ UNCHANGED <<toServer, lost>>
  /\ UNCHANGED <<callerVars, managerVars, waiting, connect, conn, link, tasks,
                 toClient, serverVars, box>>

\* Mutant: only the first one is sent, and the queue cleared.
SendWaitFirst ==
  /\ loop = "drain"
  /\ IF waiting # {}
       THEN \E m \in waiting :
              /\ waiting' = {}
              /\ toServer' = [toServer EXCEPT ![connect] = Append(@, m)]
              /\ lost' = lost \cup (waiting \ {m})
              /\ UNCHANGED loop
       ELSE loop' = "idle" /\ UNCHANGED <<waiting, toServer, lost>>
  /\ UNCHANGED <<callerVars, managerVars, connect, conn, link, tasks, toClient,
                 serverVars, box>>

\* sendWait, one message or the end.
SendWait ==
  /\ loop = "drain"
  /\ IF waiting # {}
       THEN \E m \in waiting :
              waiting' = waiting \ {m} /\ Write(connect, m) /\ UNCHANGED loop
       ELSE loop' = "idle" /\ UNCHANGED <<waiting, toServer, lost>>
  /\ UNCHANGED <<callerVars, managerVars, connect, conn, link, tasks, toClient,
                 serverVars, box>>

RunTask ==
  /\ loop = "idle"
  /\ tasks # <<>>
  /\ tasks' = Tail(tasks)
  /\ Write(Head(tasks).conn, Head(tasks).m)
  /\ UNCHANGED <<callerVars, managerVars, waiting, connect, conn, link, loop,
                 toClient, serverVars, box>>

\* onRead: a message to the service the client was made for.
OnRead ==
  /\ loop = "idle"
  /\ conn # 0 /\ link # "connecting"
  /\ toClient[conn] # <<>>
  /\ toClient' = [toClient EXCEPT ![conn] = Tail(@)]
  /\ box' = Append(box, Head(toClient[conn]))
  /\ UNCHANGED <<callerVars, managerVars, clientVars, toServer, serverVars, lost>>

\* The network breaks the connection: on either side some of what is under way
\* still arrives.
Break ==
  /\ link = "up"
  /\ link' = "broken"
  /\ \E i \in 0..Len(toServer[conn]), j \in 0..Len(toClient[conn]) :
       /\ toServer' = [toServer EXCEPT ![conn] = SubSeq(@, 1, i)]
       /\ toClient' = [toClient EXCEPT ![conn] = SubSeq(@, 1, j)]
       /\ lost' = lost \cup Range(SubSeq(toServer[conn], i + 1, Len(toServer[conn])))
  /\ UNCHANGED <<callerVars, managerVars, waiting, connect, conn, loop, tasks,
                 serverVars, box>>

\* It is noticed; m_connect stays what it was.  enableRetry connects again.
OnDisconnect ==
  /\ loop = "idle"
  /\ link = "broken"
  /\ toClient[conn] = <<>>
  /\ link' = "connecting"
  /\ UNCHANGED <<callerVars, managerVars, waiting, connect, conn, loop, tasks,
                 toServer, toClient, serverVars, box, lost>>

-----------------------------------------------------------------------------
(***************************************************************************)
(* The other server.                                                       *)
(***************************************************************************)
\* onRead and onRevRequest: the session of a request names its connection.
ServerRead(k) ==
  /\ k \in fds
  /\ toServer[k] # <<>>
  /\ toServer' = [toServer EXCEPT ![k] = Tail(@)]
  /\ todo' = todo \cup {[conn |-> k, m |-> Head(toServer[k])]}
  /\ handled' = handled \cup {Head(toServer[k])}
  /\ UNCHANGED <<callerVars, managerVars, clientVars, toClient, fds, box, lost>>

ServerInActive(k) ==
  /\ k \in fds
  /\ k # conn \/ link \in {"broken", "connecting"}
  /\ toServer[k] = <<>>
  /\ fds' = fds \ {k}
  /\ UNCHANGED <<callerVars, managerVars, clientVars, toServer, toClient, todo,
                 handled, box, lost>>

\* response: sent if the map still has the connection, and arrives if that is up.
Response(x) ==
  /\ x \in todo
  /\ todo' = todo \ {x}
  /\ toClient' = IF x.conn \in fds /\ x.conn = conn /\ link = "up"
                   THEN [toClient EXCEPT ![conn] = Append(@, x.m)]
                   ELSE toClient
  /\ UNCHANGED <<callerVars, managerVars, clientVars, toServer, fds, handled,
                 box, lost>>

-----------------------------------------------------------------------------
Next ==
  \/ \E s \in Caller :
       \/ Call(s) \/ FindClient(s) \/ LockCreate(s) \/ Recheck(s)
       \/ CreateClient(s) \/ InsertClient(s)
       \/ TestConnect(s) \/ Enqueue(s) \/ Direct(s) \/ OnRevResponse(s)
  \/ OnConnect \/ SendWait \/ RunTask \/ OnRead \/ Break \/ OnDisconnect
  \/ \E k \in Conn : ServerRead(k) \/ ServerInActive(k)
  \/ \E x \in todo : Response(x)

Spec == Init /\ [][Next]_vars

-----------------------------------------------------------------------------
(***************************************************************************)
(* Correctness.                                                            *)
(***************************************************************************)
\* Every variable keeps its shape; the spin lock is held by who is inside.
TypeOK ==
  /\ pc \in [Caller -> {"lua", "find", "lock", "recheck", "create",
                        "insert", "send", "enqueue", "direct"}]
  /\ msg \in [Caller -> Message \cup {None}]
  /\ calls \in [Caller -> 0..MaxCall]
  /\ cSid \in [Caller -> 0..MaxCall]
  /\ rpcCo \in [Caller -> [1..MaxCall -> 0..MaxCall]]
  /\ client \in Caller \cup {None}
  /\ created \in Nat
  /\ lock \in Caller \cup {None}
  /\ \A s \in Caller : pc[s] \in {"recheck", "create", "insert"} <=> lock = s
  /\ waiting \subseteq Message
  /\ connect \in {0} \cup Conn /\ conn \in {0} \cup Conn
  /\ link \in {"none", "connecting", "up", "broken"}
  /\ loop \in {"idle", "drain"}
  /\ tasks \in Seq([conn : Conn, m : Message])
  /\ toServer \in [Conn -> Seq(Message)] /\ toClient \in [Conn -> Seq(Message)]
  /\ fds \subseteq Conn
  /\ todo \subseteq [conn : Conn, m : Message]
  /\ handled \subseteq Message
  /\ box \in Seq(Message)
  /\ lost \subseteq Message

\* However many services call first at once, one client is made for a server, so
\* that no message waits in one that nobody will find again.
OneClient == created <= 1

\* Where a message can be on its way to the server.
WithCaller(m) == {<<"caller", s>> : s \in {t \in Caller : msg[t] = m}}
AsTask(m) == {<<"task", i>> : i \in {j \in 1..Len(tasks) : tasks[j].m = m}}
OnConnection(m, k) ==
  {<<"wire", k, i>> : i \in {j \in 1..Len(toServer[k]) : toServer[k][j] = m}}
OnSomeConnection(m) == UNION {OnConnection(m, k) : k \in Conn}
InSet(m, name, S) == {<<name, x>> : x \in S \cap {m}}

Places(m) ==
  WithCaller(m) \cup AsTask(m) \cup OnSomeConnection(m)
    \cup InSet(m, "waiting", waiting) \cup InSet(m, "handled", handled)
    \cup InSet(m, "lost", lost)

\* A message is in one place from the call to the server that handles it, or to
\* the connection it gets lost with: through the waiting queue, the loop and a
\* new connection nothing is handled twice, and what the server has handled is
\* not reported lost.
MessageIsSingle ==
  \A s \in Caller, sid \in 0..MaxCall, n \in 1..MaxCall :
    Cardinality(Places([src |-> s, sid |-> sid, call |-> n])) <= 1

\* Nothing is lost before the first connection breaks: what is sent before it is
\* there waits for it.
NoLossWhileUp ==
  conn = 0 \/ (conn = 1 /\ link = "up") => lost = {}

\* A coroutine that waits for a reply is resumed with the reply to its own
\* request, in whatever order replies come and connections go.
ReplyIsOwn ==
  [][\A s \in Caller, n \in 1..MaxCall :
       rpcCo[s][n] # 0 /\ rpcCo'[s][n] = 0 =>
         Head(box) = [src |-> s, sid |-> n, call |-> rpcCo[s][n]]]_vars
=============================================================================
