---------------------------- MODULE MFRpc_proofs ----------------------------
(***************************************************************************)
(* Proofs about MFRpc, for every number of services, calls and             *)
(* connections.                                                            *)
(***************************************************************************)
EXTENDS MFRpc, FiniteSetTheorems, SequenceTheorems, TLAPS

Task == [conn : Conn, m : Message]
Label == {"lua", "find", "lock", "recheck", "create", "insert",
          "send", "enqueue", "direct"}

-----------------------------------------------------------------------------
\* What the queues do: the end, the front, and the part that survives a break.
LEMMA Appended ==
  ASSUME NEW S, NEW q \in Seq(S), NEW e \in S
  PROVE  /\ Append(q, e) \in Seq(S)
         /\ Len(Append(q, e)) = Len(q) + 1
         /\ \A i \in 1..Len(q) : Append(q, e)[i] = q[i]
         /\ Append(q, e)[Len(q) + 1] = e
         /\ Len(q) \in Nat
OBVIOUS

LEMMA Taken ==
  ASSUME NEW S, NEW q \in Seq(S), q # <<>>
  PROVE  /\ Tail(q) \in Seq(S)
         /\ Head(q) = q[1] /\ Head(q) \in S
         /\ Len(q) \in Nat /\ Len(q) >= 1
         /\ Len(Tail(q)) = Len(q) - 1
         /\ \A i \in 1..Len(q) - 1 : Tail(q)[i] = q[i + 1]
OBVIOUS

LEMMA Prefix ==
  ASSUME NEW S, NEW q \in Seq(S), NEW n \in 0..Len(q)
  PROVE  /\ SubSeq(q, 1, n) \in Seq(S)
         /\ Len(SubSeq(q, 1, n)) = n
         /\ \A i \in 1..n : SubSeq(q, 1, n)[i] = q[i]
         /\ Len(q) \in Nat
OBVIOUS

LEMMA Suffix ==
  ASSUME NEW S, NEW q \in Seq(S), NEW n \in 0..Len(q)
  PROVE  Range(SubSeq(q, n + 1, Len(q))) = {q[i] : i \in n + 1..Len(q)}
<1> DEFINE t == SubSeq(q, n + 1, Len(q))
<1>1. Len(q) \in Nat /\ n \in Nat
  OBVIOUS
<1>2. t \in Seq(S) /\ Len(t) = Len(q) - n
  BY <1>1
<1>3. \A i \in 1..Len(q) - n : t[i] = q[i + n]
  BY <1>1
<1>4. DOMAIN t = 1..Len(q) - n
  BY <1>1, <1>2
<1> HIDE DEF t
<1>5. ASSUME NEW x \in Range(t) PROVE x \in {q[i] : i \in n + 1..Len(q)}
  <2>1. PICK i \in 1..Len(q) - n : x = t[i]
    BY <1>4 DEF Range
  <2>2. i + n \in n + 1..Len(q) /\ x = q[i + n]
    BY <1>1, <1>3, <2>1
  <2>3. QED
    BY <2>2
<1>6. ASSUME NEW j \in n + 1..Len(q) PROVE q[j] \in Range(t)
  <2>1. j - n \in 1..Len(q) - n
    BY <1>1
  <2>2. t[j - n] = q[j]
    BY <1>1, <1>3, <2>1
  <2>3. QED
    BY <1>4, <2>1, <2>2 DEF Range
<1>7. Range(t) = {q[i] : i \in n + 1..Len(q)}
  BY <1>5, <1>6
<1>8. QED
  BY <1>7 DEF t

-----------------------------------------------------------------------------
\* What a write to connection k does.
LEMMA Written ==
  ASSUME TypeOK, NEW k \in Conn, NEW m \in Message, Write(k, m)
  PROVE  /\ toServer' \in [Conn -> Seq(Message)]
         /\ lost' \subseteq Message
<1>1. CASE k = conn /\ link = "up"
  <2>1. toServer' = [toServer EXCEPT ![k] = Append(@, m)] /\ lost' = lost
    BY <1>1 DEF Write
  <2>2. Append(toServer[k], m) \in Seq(Message)
    BY DEF TypeOK
  <2>3. QED
    BY <2>1, <2>2 DEF TypeOK
<1>2. CASE ~(k = conn /\ link = "up")
  BY <1>2 DEF Write, TypeOK
<1>3. QED
  BY <1>1, <1>2

\* A task, and a message in the waiting queue, go to a connection there was.
ConnInv ==
  /\ connect = conn
  /\ loop = "drain" => conn # 0
  /\ conn = 0 => tasks = <<>>
  /\ \A s \in Caller : pc[s] = "direct" => conn # 0
  /\ \A s \in Caller : pc[s] \in {"send", "enqueue", "direct", "find", "lock",
                                  "recheck", "create", "insert"} <=> msg[s] # None
  /\ conn = 0 => link \in {"none", "connecting"} /\ lost = {}
  /\ conn = 1 /\ link = "up" => lost = {}
  /\ \A i \in 1..Len(tasks) : tasks[i].conn <= conn
  /\ \A s \in Caller : cSid[s] <= calls[s]
  /\ link = "none" <=> created = 0

\* One client, made by who held the creation lock and found none, and in the map
\* when the lock is free again.
ClientInv ==
  /\ created \in {0, 1}
  /\ client # None => created = 1
  /\ created = 1 /\ client = None => \E s \in Caller : pc[s] = "insert"
  /\ \A s \in Caller : pc[s] = "create" => client = None /\ created = 0
  /\ \A s \in Caller : pc[s] = "insert" => client = None /\ created = 1

LEMMA TypeInit ==
  ASSUME RpcAssumption, Init
  PROVE  TypeOK /\ ConnInv /\ ClientInv
<1>1. TypeOK
  BY DEF RpcAssumption, Init, TypeOK, Message, Conn
<1>2. ConnInv
  BY DEF RpcAssumption, Init, ConnInv
<1>3. ClientInv
  BY DEF Init, ClientInv
<1>4. QED
  BY <1>1, <1>2, <1>3

LEMMA TypeStep ==
  ASSUME RpcAssumption, TypeOK, ConnInv, [Next]_vars
  PROVE  TypeOK'
<1>1. ASSUME NEW s \in Caller, Call(s) PROVE TypeOK'
  <2>a. /\ calls \in [Caller -> 0..MaxCall] /\ cSid \in [Caller -> 0..MaxCall]
        /\ pc \in [Caller -> Label] /\ msg \in [Caller -> Message \cup {None}]
        /\ rpcCo \in [Caller -> [1..MaxCall -> 0..MaxCall]] /\ MaxCall \in Nat
        /\ \A t \in Caller : pc[t] \in {"recheck", "create", "insert"} <=> lock = t
    BY RpcAssumption DEF RpcAssumption, TypeOK, Label
  <2>1. calls' \in [Caller -> 0..MaxCall] /\ calls'[s] \in 1..MaxCall /\ calls'[s] = calls[s] + 1
    <3>1. calls[s] \in 0..MaxCall /\ calls[s] < MaxCall
      BY <1>1, <2>a DEF Call
    <3>2. calls[s] + 1 \in 1..MaxCall
      BY <2>a, <3>1
    <3>3. calls' = [calls EXCEPT ![s] = calls[s] + 1]
      BY <1>1 DEF Call
    <3>4. QED
      BY <2>a, <3>2, <3>3
  <2>2. cSid[s] + 1 \in 1..MaxCall /\ MaxCall \in Nat
    <3>1. cSid[s] \in 0..MaxCall /\ calls[s] \in 0..MaxCall /\ MaxCall \in Nat
      BY <2>a
    <3>2. cSid[s] <= calls[s] /\ calls[s] < MaxCall
      BY <1>1 DEF Call, ConnInv
    <3>3. QED
      BY <3>1, <3>2
  <2>3. pc' \in [Caller -> Label]
    BY <1>1, <2>a DEF Call, Goto, Label
  <2>4. \A t \in Caller : pc'[t] \in {"recheck", "create", "insert"} <=> lock = t
    BY <1>1, <2>a DEF Call, Goto
  <2>5. CASE Request(s)
    <3>1. [src |-> s, sid |-> cSid[s] + 1, call |-> calls'[s]] \in Message
      BY <2>1, <2>2 DEF Message
    <3>2. msg' \in [Caller -> Message \cup {None}]
      BY <2>5, <2>a, <3>1 DEF Request
    <3>3. cSid' \in [Caller -> 0..MaxCall]
      BY <2>2, <2>5, <2>a DEF Request
    <3>4. rpcCo' \in [Caller -> [1..MaxCall -> 0..MaxCall]]
      <4>1. rpcCo' = [rpcCo EXCEPT ![s] = [rpcCo[s] EXCEPT ![cSid[s] + 1] = calls'[s]]]
        BY <2>5 DEF Request
      <4>2. [rpcCo[s] EXCEPT ![cSid[s] + 1] = calls'[s]] \in [1..MaxCall -> 0..MaxCall]
        BY <2>1, <2>2, <2>a
      <4>3. QED
        BY <2>a, <4>1, <4>2
    <3>5. QED
      BY <1>1, <2>1, <2>3, <2>4, <3>2, <3>3, <3>4
         DEF Call, managerVars, clientVars, serverVars, Label, TypeOK
  <2>6. CASE Send(s)
    <3>1. [src |-> s, sid |-> 0, call |-> calls'[s]] \in Message
      BY <2>1, <2>2 DEF Message
    <3>2. msg' \in [Caller -> Message \cup {None}]
      BY <2>6, <2>a, <3>1 DEF Send
    <3>3. cSid' = cSid /\ rpcCo' = rpcCo
      BY <2>6 DEF Send
    <3>4. QED
      BY <1>1, <2>1, <2>3, <2>4, <3>2, <3>3
         DEF Call, managerVars, clientVars, serverVars, Label, TypeOK
  <2>7. QED
    BY <1>1, <2>5, <2>6 DEF Call
<1> USE DEF TypeOK
<1>2. ASSUME NEW s \in Caller, FindClient(s) PROVE TypeOK'
  BY <1>2 DEF FindClient, Goto, managerVars, clientVars, serverVars
<1>3. ASSUME NEW s \in Caller, LockCreate(s) PROVE TypeOK'
  BY <1>3, RpcAssumption DEF LockCreate, Goto, clientVars, serverVars, RpcAssumption
<1>4. ASSUME NEW s \in Caller, Recheck(s) PROVE TypeOK'
  <2>1. \A t \in Caller : t # None
    BY RpcAssumption DEF RpcAssumption
  <2>2. CASE client # None
    BY <1>4, <2>1, <2>2 DEF Recheck, Goto, clientVars, serverVars
  <2>3. CASE client = None
    BY <1>4, <2>1, <2>3 DEF Recheck, Goto, clientVars, serverVars
  <2>4. QED
    BY <2>2, <2>3
<1>5. ASSUME NEW s \in Caller, CreateClient(s) PROVE TypeOK'
  BY <1>5 DEF CreateClient, Goto, serverVars
<1>5a. ASSUME NEW s \in Caller, InsertClient(s) PROVE TypeOK'
  <2>1. \A t \in Caller : t # None
    BY RpcAssumption DEF RpcAssumption
  <2>2. /\ pc[s] = "insert" /\ pc' = [pc EXCEPT ![s] = "send"] /\ lock' = None
        /\ client' = s
        /\ UNCHANGED <<msg, calls, cSid, rpcCo, created, waiting, connect, conn, link,
                       loop, tasks, toServer, toClient, fds, todo, handled, box, lost>>
    BY <1>5a DEF InsertClient, Goto, clientVars, serverVars
  <2>3. \A t \in Caller : t # s => pc[t] \notin {"recheck", "create", "insert"}
    BY <2>2
  <2>4. \A t \in Caller : pc'[t] \notin {"recheck", "create", "insert"}
    BY <2>2, <2>3
  <2>5. \A t \in Caller : pc'[t] \in {"recheck", "create", "insert"} <=> lock' = t
    BY <2>1, <2>2, <2>4
  <2>6. pc' \in [Caller -> {"lua", "find", "lock", "recheck", "create",
                            "insert", "send", "enqueue", "direct"}]
    BY <2>2
  <2>7. client' \in Caller \cup {None} /\ lock' \in Caller \cup {None}
    BY <2>2
  <2>8. QED
    BY <2>2, <2>5, <2>6, <2>7
<1>6. ASSUME NEW s \in Caller, TestConnect(s) PROVE TypeOK'
  BY <1>6 DEF TestConnect, Goto, managerVars, clientVars, serverVars
<1>7. ASSUME NEW s \in Caller, Enqueue(s) PROVE TypeOK'
  <2>1. msg[s] \in Message
    BY <1>7 DEF Enqueue, ConnInv
  <2>2. QED
    BY <1>7, <2>1 DEF Enqueue, Goto, managerVars, serverVars
<1>8. ASSUME NEW s \in Caller, Direct(s) PROVE TypeOK'
  <2>1. msg[s] \in Message /\ connect \in Conn
    BY <1>8 DEF Direct, ConnInv
  <2>2. tasks' \in Seq([conn : Conn, m : Message])
    BY <1>8, <2>1 DEF Direct
  <2>3. QED
    BY <1>8, <2>2 DEF Direct, Goto, managerVars, serverVars
<1>9. ASSUME NEW s \in Caller, OnRevResponse(s) PROVE TypeOK'
  <2>1. rpcCo' \in [Caller -> [1..MaxCall -> 0..MaxCall]]
    BY <1>9, RpcAssumption DEF OnRevResponse, RpcAssumption
  <2>2. box' \in Seq(Message)
    BY <1>9 DEF OnRevResponse
  <2>3. QED
    BY <1>9, <2>1, <2>2 DEF OnRevResponse, managerVars, clientVars, serverVars
<1>10. ASSUME OnConnect PROVE TypeOK'
  <2>1. conn' \in Conn
    BY <1>10, RpcAssumption DEF OnConnect, Conn, RpcAssumption
  <2>2. fds' \subseteq Conn /\ connect' \in {0} \cup Conn
    BY <1>10, <2>1 DEF OnConnect
  <2>3. link' = "up" /\ loop' = "drain"
    BY <1>10 DEF OnConnect
  <2>4. /\ UNCHANGED <<pc, msg, calls, cSid, rpcCo, client, created, lock>>
        /\ UNCHANGED <<waiting, tasks, toServer, toClient, todo, handled, box, lost>>
    BY <1>10 DEF OnConnect, callerVars, managerVars
  <2>5. QED
    BY <2>1, <2>2, <2>3, <2>4
<1>11. ASSUME SendWait PROVE TypeOK'
  <2>1. connect \in Conn
    BY <1>11 DEF SendWait, ConnInv
  <2>2. CASE waiting # {}
    <3>1. PICK m \in waiting :
            waiting' = waiting \ {m} /\ Write(connect, m) /\ UNCHANGED loop
      BY <1>11, <2>2 DEF SendWait
    <3>2. toServer' \in [Conn -> Seq(Message)] /\ lost' \subseteq Message
      BY <2>1, <3>1, Written
    <3>3. QED
      BY <1>11, <3>1, <3>2 DEF SendWait, callerVars, managerVars, serverVars
  <2>3. CASE waiting = {}
    BY <1>11, <2>3 DEF SendWait, callerVars, managerVars, serverVars
  <2>4. QED
    BY <2>2, <2>3
<1>12. ASSUME RunTask PROVE TypeOK'
  <2>1. /\ Head(tasks) \in [conn : Conn, m : Message]
        /\ Tail(tasks) \in Seq([conn : Conn, m : Message])
    BY <1>12, Taken DEF RunTask
  <2>2. toServer' \in [Conn -> Seq(Message)] /\ lost' \subseteq Message
    <3>1. Head(tasks).conn \in Conn /\ Head(tasks).m \in Message
      BY <2>1
    <3>2. Write(Head(tasks).conn, Head(tasks).m)
      BY <1>12 DEF RunTask
    <3>3. QED
      BY <3>1, <3>2, Written
  <2>3. QED
    BY <1>12, <2>1, <2>2 DEF RunTask, callerVars, managerVars, serverVars
<1>13. ASSUME OnRead PROVE TypeOK'
  <2>1. conn \in Conn
    BY <1>13 DEF OnRead
  <2>2. /\ Head(toClient[conn]) \in Message
        /\ Tail(toClient[conn]) \in Seq(Message)
    BY <1>13, <2>1 DEF OnRead
  <2>3. toClient' \in [Conn -> Seq(Message)] /\ box' \in Seq(Message)
    BY <1>13, <2>1, <2>2 DEF OnRead
  <2>4. QED
    BY <1>13, <2>3 DEF OnRead, callerVars, managerVars, clientVars, serverVars
<1>14. ASSUME Break PROVE TypeOK'
  <2>1. conn \in Conn
    BY <1>14 DEF Break, ConnInv
  <2>2. PICK i \in 0..Len(toServer[conn]), j \in 0..Len(toClient[conn]) :
          /\ toServer' = [toServer EXCEPT ![conn] = SubSeq(@, 1, i)]
          /\ toClient' = [toClient EXCEPT ![conn] = SubSeq(@, 1, j)]
          /\ lost' = lost \cup Range(SubSeq(toServer[conn], i + 1, Len(toServer[conn])))
    BY <1>14 DEF Break
  <2>3. toServer[conn] \in Seq(Message) /\ toClient[conn] \in Seq(Message)
    BY <2>1
  <2>4. SubSeq(toServer[conn], 1, i) \in Seq(Message)
    BY <2>3, Prefix
  <2>5. SubSeq(toClient[conn], 1, j) \in Seq(Message)
    BY <2>3, Prefix
  <2>6. toServer' \in [Conn -> Seq(Message)] /\ toClient' \in [Conn -> Seq(Message)]
    BY <2>1, <2>2, <2>4, <2>5
  <2>7. Range(SubSeq(toServer[conn], i + 1, Len(toServer[conn]))) \subseteq Message
    <3> HIDE DEF TypeOK
    <3>1. Range(SubSeq(toServer[conn], i + 1, Len(toServer[conn])))
            = {toServer[conn][n] : n \in i + 1..Len(toServer[conn])}
      BY <2>3, Suffix
    <3>2. \A n \in i + 1..Len(toServer[conn]) : toServer[conn][n] \in Message
      <4>1. Len(toServer[conn]) \in Nat /\ i \in Nat
        BY <2>3
      <4>2. QED
        BY <2>3, <4>1
    <3>3. QED
      BY <3>1, <3>2
  <2>8. lost' \subseteq Message
    BY <2>2, <2>7
  <2>9. QED
    BY <1>14, <2>6, <2>8 DEF Break, callerVars, managerVars, serverVars
<1>15. ASSUME OnDisconnect PROVE TypeOK'
  BY <1>15 DEF OnDisconnect, callerVars, managerVars, serverVars
<1>16. ASSUME NEW k \in Conn, ServerRead(k) PROVE TypeOK'
  <2>1. Head(toServer[k]) \in Message /\ Tail(toServer[k]) \in Seq(Message)
    BY <1>16 DEF ServerRead
  <2>2. toServer' \in [Conn -> Seq(Message)]
    BY <1>16, <2>1 DEF ServerRead
  <2>3. todo' \subseteq [conn : Conn, m : Message] /\ handled' \subseteq Message
    BY <1>16, <2>1 DEF ServerRead
  <2>4. QED
    BY <1>16, <2>2, <2>3 DEF ServerRead, callerVars, managerVars, clientVars
<1>17. ASSUME NEW k \in Conn, ServerInActive(k) PROVE TypeOK'
  BY <1>17 DEF ServerInActive, callerVars, managerVars, clientVars
<1>18. ASSUME NEW x \in todo, Response(x) PROVE TypeOK'
  <2>1. x \in [conn : Conn, m : Message]
    OBVIOUS
  <2>2. toClient' \in [Conn -> Seq(Message)]
    <3>1. CASE x.conn \in fds /\ x.conn = conn /\ link = "up"
      <4>1. conn \in Conn /\ Append(toClient[conn], x.m) \in Seq(Message)
        BY <2>1, <3>1
      <4>2. QED
        BY <1>18, <3>1, <4>1 DEF Response
    <3>2. CASE ~(x.conn \in fds /\ x.conn = conn /\ link = "up")
      BY <1>18, <3>2 DEF Response
    <3>3. QED
      BY <3>1, <3>2
  <2>3. QED
    BY <1>18, <2>2 DEF Response, callerVars, managerVars, clientVars
<1>19. ASSUME UNCHANGED vars PROVE TypeOK'
  BY <1>19 DEF vars, callerVars, managerVars, clientVars, serverVars
<1> QED
  BY <1>1, <1>2, <1>3, <1>4, <1>5, <1>5a, <1>6, <1>7, <1>8, <1>9, <1>10, <1>11, <1>12, <1>13,
     <1>14, <1>15, <1>16, <1>17, <1>18, <1>19 DEF Next
-----------------------------------------------------------------------------
LEMMA ConnStep ==
  ASSUME RpcAssumption, TypeOK, ConnInv, ClientInv, [Next]_vars
  PROVE  ConnInv'
<1>c. conn \in Nat
  BY DEF TypeOK, Conn
<1> USE DEF ConnInv
<1>0. /\ pc \in [Caller -> Label] /\ msg \in [Caller -> Message \cup {None}]
      /\ conn \in {0} \cup Conn /\ Conn \subseteq Nat \ {0}
      /\ tasks \in Seq(Task) /\ cSid \in [Caller -> 0..MaxCall]
      /\ calls \in [Caller -> 0..MaxCall] /\ MaxCall \in Nat
      /\ None \notin Message
  BY SMTT(60), RpcAssumption DEF TypeOK, Label, Task, Conn, RpcAssumption
<1>m. None \notin Caller
  BY RpcAssumption DEF RpcAssumption
\* A step of a service in rpcClientSend that leaves the connection alone.
<1>a. ASSUME NEW s \in Caller, NEW l \in Label, pc' = [pc EXCEPT ![s] = l],
             UNCHANGED <<msg, calls, cSid, connect, conn, link, loop, tasks, lost, created>>,
             pc[s] # "lua", l # "lua", l = "direct" => conn # 0
      PROVE  ConnInv'
  BY <1>0, <1>a DEF Label
<1>1. ASSUME NEW s \in Caller, Call(s) PROVE ConnInv'
  <2>1. \A t \in Caller : cSid'[t] <= calls'[t]
    <3>1. cSid' = [cSid EXCEPT ![s] = cSid[s] + 1] \/ cSid' = cSid
      BY <1>1 DEF Call, Request, Send
    <3>2. calls' = [calls EXCEPT ![s] = calls[s] + 1]
      BY <1>1 DEF Call
    <3>3. /\ DOMAIN cSid = Caller /\ DOMAIN calls = Caller
          /\ \A t \in Caller : cSid[t] \in Nat /\ calls[t] \in Nat /\ cSid[t] <= calls[t]
      BY <1>0
    <3>4. ASSUME NEW t \in Caller
          PROVE  /\ calls'[t] = IF t = s THEN calls[t] + 1 ELSE calls[t]
                 /\ cSid'[t] \in {cSid[t], IF t = s THEN cSid[t] + 1 ELSE cSid[t]}
      BY <3>1, <3>2, <3>3
    <3> HIDE DEF ConnInv
    <3>5. QED
      BY <3>3, <3>4
  <2>2. calls'[s] \in 1..MaxCall /\ cSid[s] + 1 \in 0..MaxCall
    BY <1>0, <1>1 DEF Call
  <2>3. msg' = [msg EXCEPT ![s] = msg'[s]] /\ msg'[s] \in Message
    BY <1>0, <1>1, <2>2 DEF Call, Request, Send, Message
  <2>4. pc' = [pc EXCEPT ![s] = "find"]
    BY <1>1 DEF Call, Goto
  <2>5. \A t \in Caller : /\ pc'[t] = "direct" => conn # 0
                          /\ pc'[t] \in {"send", "enqueue", "direct", "find", "lock",
                                         "recheck", "create", "insert"} <=> msg'[t] # None
    BY <1>0, <2>3, <2>4
  <2>6. UNCHANGED <<connect, conn, link, loop, tasks, lost, created>>
    BY <1>1 DEF Call, managerVars, clientVars
  <2>7. QED
    BY <2>1, <2>5, <2>6
<1>2. ASSUME NEW s \in Caller, FindClient(s) PROVE ConnInv'
  BY <1>a, <1>2 DEF FindClient, Goto, managerVars, clientVars, Label
<1>3. ASSUME NEW s \in Caller, LockCreate(s) PROVE ConnInv'
  BY <1>a, <1>3 DEF LockCreate, Goto, clientVars, Label
<1>4. ASSUME NEW s \in Caller, Recheck(s) PROVE ConnInv'
  <2>1. pc' = [pc EXCEPT ![s] = "send"] \/ pc' = [pc EXCEPT ![s] = "create"]
    BY <1>4 DEF Recheck, Goto
  <2>2. QED
    BY <1>a, <1>4, <2>1 DEF Recheck, clientVars, Label
<1>5. ASSUME NEW s \in Caller, CreateClient(s) PROVE ConnInv'
  <2>1. pc' = [pc EXCEPT ![s] = "insert"] /\ created' # 0
    BY <1>5 DEF CreateClient, Goto, TypeOK
  <2>2. QED
    BY <1>0, <1>5, <2>1 DEF CreateClient, Label
<1>5a. ASSUME NEW s \in Caller, InsertClient(s) PROVE ConnInv'
  BY <1>a, <1>5a DEF InsertClient, Goto, clientVars, Label
<1>6. ASSUME NEW s \in Caller, TestConnect(s) PROVE ConnInv'
  <2>1. \/ pc' = [pc EXCEPT ![s] = "enqueue"]
        \/ pc' = [pc EXCEPT ![s] = "direct"] /\ conn # 0
    BY <1>6 DEF TestConnect, Goto
  <2>2. QED
    BY <1>a, <1>6, <2>1 DEF TestConnect, managerVars, clientVars, Label
<1>7. ASSUME NEW s \in Caller, Enqueue(s) PROVE ConnInv'
  BY <1>0, <1>7 DEF Enqueue, Goto, managerVars, Label
<1>8. ASSUME NEW s \in Caller, Direct(s) PROVE ConnInv'
  <2>1. /\ connect = conn /\ conn # 0 /\ conn \in Conn /\ msg[s] \in Message
    BY <1>0, <1>8 DEF Direct
  <2>2. [conn |-> connect, m |-> msg[s]] \in Task
    BY <2>1 DEF Task
  <2>3. \A i \in 1..Len(tasks') : tasks'[i].conn <= conn
    <3>1. tasks' = Append(tasks, [conn |-> connect, m |-> msg[s]])
      BY <1>8 DEF Direct
    <3>2. /\ Len(tasks') = Len(tasks) + 1
          /\ \A i \in 1..Len(tasks) : tasks'[i] = tasks[i]
          /\ tasks'[Len(tasks) + 1] = [conn |-> connect, m |-> msg[s]]
          /\ Len(tasks) \in Nat
      BY <1>0, <2>2, <3>1, Appended
    <3>3. conn <= conn /\ [conn |-> connect, m |-> msg[s]].conn = conn
      <4> HIDE DEF ConnInv
      <4> QED
        BY <1>c, <2>1
    <3>4. QED
      BY <3>2, <3>3
  <2>4. \A t \in Caller : /\ pc'[t] = "direct" => conn # 0
                          /\ pc'[t] \in {"send", "enqueue", "direct", "find", "lock",
                                         "recheck", "create", "insert"} <=> msg'[t] # None
    BY <1>0, <1>8 DEF Direct, Goto, Label
  <2>5. UNCHANGED <<connect, conn, link, loop, lost, created, calls, cSid>>
    BY <1>8 DEF Direct, managerVars
  <2>6. QED
    BY <2>1, <2>3, <2>4, <2>5
<1>9. ASSUME NEW s \in Caller, OnRevResponse(s) PROVE ConnInv'
  BY <1>9 DEF OnRevResponse, managerVars, clientVars
<1>10. ASSUME OnConnect PROVE ConnInv'
  <2>1. conn' = conn + 1 /\ conn' # 0 /\ (conn' = 1 <=> conn = 0)
    BY <1>0, <1>10 DEF OnConnect
  <2>2. \A i \in 1..Len(tasks) : tasks[i].conn <= conn'
    <3>1. ASSUME NEW i \in 1..Len(tasks) PROVE tasks[i].conn <= conn'
      <4>1. tasks[i] \in Task /\ tasks[i].conn <= conn
        BY <1>0, <3>1
      <4>2. tasks[i].conn \in Nat
        BY <1>0, <4>1 DEF Task
      <4>3. QED
        BY <1>c, <2>1, <4>1, <4>2
    <3>2. QED
      BY <3>1
  <2>3. UNCHANGED <<pc, msg, calls, cSid, tasks, lost, created>>
    BY <1>10 DEF OnConnect, callerVars, managerVars
  <2>4. connect' = conn' /\ link' = "up" /\ link = "connecting"
    BY <1>10 DEF OnConnect
  <2>5. conn' = 1 => lost' = {}
    BY <2>1, <2>3
  <2>6. link' = "none" <=> created' = 0
    BY <2>3, <2>4
  <2>7. QED
    BY <2>1, <2>2, <2>3, <2>4, <2>5, <2>6
<1>11. ASSUME SendWait PROVE ConnInv'
  <2>1. UNCHANGED <<pc, msg, calls, cSid, connect, conn, link, tasks, created>>
    BY <1>11 DEF SendWait, callerVars, managerVars
  <2>2. conn # 0
    BY <1>11 DEF SendWait
  <2>3. conn = 1 /\ link = "up" => lost' = lost
    BY <1>11 DEF SendWait, Write
  <2>4. QED
    BY <2>1, <2>2, <2>3
<1>12. ASSUME RunTask PROVE ConnInv'
  <2>1. UNCHANGED <<pc, msg, calls, cSid, connect, conn, link, loop, created>>
    BY <1>12 DEF RunTask, callerVars, managerVars
  <2>2. /\ tasks' = Tail(tasks) /\ tasks # <<>> /\ conn # 0
        /\ Len(tasks) \in Nat /\ Len(tasks) >= 1 /\ Len(Tail(tasks)) = Len(tasks) - 1
        /\ \A i \in 1..Len(tasks) - 1 : Tail(tasks)[i] = tasks[i + 1]
        /\ Head(tasks) = tasks[1] /\ Head(tasks) \in Task
    BY <1>0, <1>12, Taken DEF RunTask
  <2>3. \A i \in 1..Len(tasks') : tasks'[i].conn <= conn
    <3>1. ASSUME NEW i \in 1..Len(tasks') PROVE tasks'[i].conn <= conn
      <4>1. i + 1 \in 1..Len(tasks) /\ tasks'[i] = tasks[i + 1]
        BY <2>2
      <4>2. QED
        BY <4>1
    <3>2. QED
      BY <3>1
  <2>4. ASSUME conn = 1, link = "up" PROVE lost' = lost
    <3>1. 1 \in 1..Len(tasks)
      BY <2>2
    <3>2. Head(tasks).conn <= 1 /\ Head(tasks).conn \in Nat \ {0}
      BY <1>0, <2>2, <2>4, <3>1 DEF Task
    <3>3. Head(tasks).conn = conn
      BY <2>4, <3>2
    <3>4. QED
      BY <1>12, <2>4, <3>3 DEF RunTask, Write
  <2>5. QED
    BY <2>1, <2>2, <2>3, <2>4
<1>13. ASSUME OnRead PROVE ConnInv'
  BY <1>13 DEF OnRead, callerVars, managerVars, clientVars
<1>14. ASSUME Break PROVE ConnInv'
  BY <1>14 DEF Break, callerVars, managerVars
<1>15. ASSUME OnDisconnect PROVE ConnInv'
  BY <1>15 DEF OnDisconnect, callerVars, managerVars
<1>16. ASSUME NEW k \in Conn, ServerRead(k) \/ ServerInActive(k) PROVE ConnInv'
  BY <1>16 DEF ServerRead, ServerInActive, callerVars, managerVars, clientVars
<1>17. ASSUME NEW x \in todo, Response(x) PROVE ConnInv'
  BY <1>17 DEF Response, callerVars, managerVars, clientVars
<1>18. ASSUME UNCHANGED vars PROVE ConnInv'
  BY <1>18 DEF vars, callerVars, managerVars, clientVars
<1> QED
  BY <1>1, <1>2, <1>3, <1>4, <1>5, <1>5a, <1>6, <1>7, <1>8, <1>9, <1>10, <1>11, <1>12, <1>13,
     <1>14, <1>15, <1>16, <1>17, <1>18 DEF Next

LEMMA ClientStep ==
  ASSUME RpcAssumption, TypeOK, ClientInv, [Next]_vars
  PROVE  ClientInv'
<1> USE DEF ClientInv
<1>0. /\ pc \in [Caller -> Label] /\ None \notin Caller
      /\ \A s \in Caller : pc[s] \in {"recheck", "create", "insert"} <=> lock = s
  BY RpcAssumption DEF TypeOK, Label, RpcAssumption
<1>1. ASSUME NEW s \in Caller, NEW l, l \notin {"create", "insert"}, pc[s] # "insert",
             pc' = [pc EXCEPT ![s] = l],
             UNCHANGED <<client, created>>
      PROVE  ClientInv'
  BY <1>0, <1>1
<1>2. ASSUME NEW s \in Caller, Call(s) \/ FindClient(s) \/ LockCreate(s) PROVE ClientInv'
  BY <1>1, <1>2 DEF Call, FindClient, LockCreate, Goto, managerVars
<1>3. ASSUME NEW s \in Caller, TestConnect(s) \/ Enqueue(s) \/ Direct(s) PROVE ClientInv'
  BY <1>1, <1>3 DEF TestConnect, Enqueue, Direct, Goto, managerVars
<1>4. ASSUME NEW s \in Caller, Recheck(s) PROVE ClientInv'
  BY <1>0, <1>4 DEF Recheck, Goto
<1>5. ASSUME NEW s \in Caller, CreateClient(s) PROVE ClientInv'
  <2>1. /\ client = None /\ lock = s /\ created = 0 /\ client' = None /\ created' = 1
        /\ pc' = [pc EXCEPT ![s] = "insert"]
    BY <1>0, <1>5 DEF CreateClient, Goto
  <2>2. \A t \in Caller : pc'[t] # "create" /\ pc'[s] = "insert"
    BY <1>0, <2>1
  <2>3. QED
    BY <2>1, <2>2
<1>5a. ASSUME NEW s \in Caller, InsertClient(s) PROVE ClientInv'
  <2>1. /\ lock = s /\ created = 1 /\ client' = s /\ client' # None /\ created' = 1
        /\ pc' = [pc EXCEPT ![s] = "send"]
    BY <1>0, <1>5a DEF InsertClient, Goto
  <2>2. \A t \in Caller : pc'[t] \notin {"create", "insert"}
    BY <1>0, <2>1
  <2>3. QED
    BY <2>1, <2>2
<1>6. ASSUME UNCHANGED <<pc, client, created>> PROVE ClientInv'
  BY <1>6
<1>7. ASSUME NEW s \in Caller, OnRevResponse(s) PROVE ClientInv'
  BY <1>6, <1>7 DEF OnRevResponse, managerVars
<1>8. ASSUME OnConnect \/ SendWait \/ RunTask \/ OnRead \/ Break \/ OnDisconnect
      PROVE  ClientInv'
  BY <1>6, <1>8 DEF OnConnect, SendWait, RunTask, OnRead, Break, OnDisconnect,
                    callerVars, managerVars
<1>9. ASSUME NEW k \in Conn, ServerRead(k) \/ ServerInActive(k) PROVE ClientInv'
  BY <1>6, <1>9 DEF ServerRead, ServerInActive, callerVars, managerVars
<1>10. ASSUME NEW x \in todo, Response(x) PROVE ClientInv'
  BY <1>6, <1>10 DEF Response, callerVars, managerVars
<1>11. ASSUME UNCHANGED vars PROVE ClientInv'
  BY <1>6, <1>11 DEF vars, callerVars, managerVars
<1> QED
  BY <1>2, <1>3, <1>4, <1>5, <1>5a, <1>7, <1>8, <1>9, <1>10, <1>11 DEF Next

-----------------------------------------------------------------------------
(***************************************************************************)
(* Where a message is.  kind names, for every message, the one set or      *)
(* queue that may hold it; the two queues hold it once.                    *)
(***************************************************************************)
Kind == {"none", "caller", "task", "wire", "waiting", "handled", "lost"}

Called(kind, g) ==
  \A s \in Caller : g[s] # None => kind[g[s]] = "caller" /\ g[s].src = s

InTasks(kind, q) ==
  /\ \A i \in 1..Len(q) : kind[q[i].m] = "task"
  /\ \A i, j \in 1..Len(q) : q[i].m = q[j].m => i = j

OnWire(kind, w) ==
  /\ \A k \in Conn : \A i \in 1..Len(w[k]) : kind[w[k][i]] = "wire"
  /\ \A k, l \in Conn : \A i \in 1..Len(w[k]), j \in 1..Len(w[l]) :
       w[k][i] = w[l][j] => k = l /\ i = j

In(kind, S, name) == \A m \in S : kind[m] = name

\* A call that is not made yet has no message.
Later(kind, c) == \A m \in Message : m.call > c[m.src] => kind[m] = "none"

KindInv ==
  \E kind \in [Message -> Kind] :
    /\ Called(kind, msg) /\ InTasks(kind, tasks) /\ OnWire(kind, toServer)
    /\ In(kind, waiting, "waiting") /\ In(kind, handled, "handled")
    /\ In(kind, lost, "lost") /\ Later(kind, calls)

\* One message goes from kind to kind: what it means for each of the places.
Moved(kind, m, name) == [kind EXCEPT ![m] = name]

LEMMA MovedKind ==
  ASSUME NEW kind \in [Message -> Kind], NEW m \in Message, NEW name \in Kind
  PROVE  /\ Moved(kind, m, name) \in [Message -> Kind]
         /\ Moved(kind, m, name)[m] = name
         /\ \A x \in Message : x # m => Moved(kind, m, name)[x] = kind[x]
BY DEF Moved

LEMMA CalledStays ==
  ASSUME NEW kind \in [Message -> Kind], NEW m \in Message, NEW name \in Kind,
         NEW g \in [Caller -> Message \cup {None}], Called(kind, g), kind[m] # "caller"
  PROVE  Called(Moved(kind, m, name), g)
<1> DEFINE k2 == Moved(kind, m, name)
<1>1. \A x \in Message : x # m => k2[x] = kind[x]
  BY MovedKind
<1> HIDE DEF k2
<1>2. ASSUME NEW s \in Caller, g[s] # None PROVE k2[g[s]] = "caller" /\ g[s].src = s
  <2>1. g[s] \in Message /\ kind[g[s]] = "caller" /\ g[s].src = s
    BY <1>2 DEF Called
  <2>2. QED
    BY <1>1, <2>1
<1>3. QED
  BY <1>2 DEF Called, k2

LEMMA CalledPut ==
  ASSUME RpcAssumption, NEW kind \in [Message -> Kind], NEW s \in Caller, NEW m \in Message,
         m.src = s, NEW g \in [Caller -> Message \cup {None}], Called(kind, g),
         kind[m] # "caller"
  PROVE  Called(Moved(kind, m, "caller"), [g EXCEPT ![s] = m])
<1> DEFINE k2 == Moved(kind, m, "caller")
<1>1. k2[m] = "caller" /\ \A x \in Message : x # m => k2[x] = kind[x]
  BY MovedKind DEF Kind
<1> HIDE DEF k2
<1>2. ASSUME NEW t \in Caller, t # s, g[t] # None
      PROVE  k2[g[t]] = "caller" /\ g[t].src = t
  <2>1. g[t] \in Message /\ kind[g[t]] = "caller" /\ g[t].src = t
    BY <1>2 DEF Called
  <2>2. QED
    BY <1>1, <2>1
<1>3. QED
  BY <1>1, <1>2 DEF Called, k2

LEMMA CalledTaken ==
  ASSUME NEW kind \in [Message -> Kind], NEW s \in Caller, NEW name \in Kind,
         NEW g \in [Caller -> Message \cup {None}], Called(kind, g), g[s] \in Message, g[s] # None
  PROVE  Called(Moved(kind, g[s], name), [g EXCEPT ![s] = None])
<1> DEFINE k2 == Moved(kind, g[s], name)
<1>1. \A x \in Message : x # g[s] => k2[x] = kind[x]
  BY MovedKind
<1> HIDE DEF k2
<1>2. ASSUME NEW t \in Caller, t # s, g[t] # None
      PROVE  k2[g[t]] = "caller" /\ g[t].src = t
  <2>1. g[t].src = t /\ g[s].src = s /\ kind[g[t]] = "caller"
    BY <1>2 DEF Called
  <2>2. g[t] \in Message /\ g[t] # g[s]
    BY <1>2, <2>1
  <2>3. QED
    BY <1>1, <2>1, <2>2
<1>3. QED
  BY <1>2 DEF Called, k2

LEMMA Entry ==
  ASSUME NEW q \in Seq(Task), NEW i \in 1..Len(q)
  PROVE  q[i].m \in Message
<1>1. q[i] \in Task
  OBVIOUS
<1>2. QED
  BY <1>1 DEF Task

LEMMA TasksStay ==
  ASSUME NEW kind \in [Message -> Kind], NEW m \in Message, NEW name \in Kind,
         NEW q \in Seq(Task), InTasks(kind, q), kind[m] # "task"
  PROVE  InTasks(Moved(kind, m, name), q)
<1> DEFINE k2 == Moved(kind, m, name)
<1>1. \A x \in Message : x # m => k2[x] = kind[x]
  BY MovedKind
<1> HIDE DEF k2
<1>2. ASSUME NEW i \in 1..Len(q) PROVE k2[q[i].m] = "task"
  <2>1. q[i].m \in Message
    BY Entry
  <2>2. kind[q[i].m] = "task"
    BY DEF InTasks
  <2>3. QED
    BY <1>1, <2>1, <2>2
<1>3. QED
  BY <1>2 DEF InTasks, k2

LEMMA TasksPut ==
  ASSUME NEW kind \in [Message -> Kind], NEW x \in Task, NEW q \in Seq(Task),
         InTasks(kind, q), kind[x.m] # "task"
  PROVE  InTasks(Moved(kind, x.m, "task"), Append(q, x))
<1> DEFINE k2 == Moved(kind, x.m, "task")
           a == Append(q, x)
<1>1. "task" \in Kind /\ x.m \in Message
  BY DEF Kind, Task
<1>2. k2[x.m] = "task" /\ \A y \in Message : y # x.m => k2[y] = kind[y]
  BY <1>1, MovedKind
<1>3. /\ Len(q) \in Nat /\ Len(a) = Len(q) + 1 /\ a[Len(q) + 1] = x
      /\ \A i \in 1..Len(q) : a[i] = q[i]
  BY Appended
<1>4. \A i \in 1..Len(q) : q[i].m \in Message /\ kind[q[i].m] = "task" /\ q[i].m # x.m
  BY Entry DEF InTasks
<1>5. \A i, j \in 1..Len(q) : q[i].m = q[j].m => i = j
  BY DEF InTasks
<1> HIDE DEF k2, a
<1>6. \A i \in 1..Len(a) : k2[a[i].m] = "task"
  BY <1>2, <1>3, <1>4
<1>7. \A i, j \in 1..Len(a) : a[i].m = a[j].m => i = j
  <2>1. \A i \in 1..Len(a) : i \in 1..Len(q) \/ i = Len(q) + 1
    BY <1>3
  <2>2. QED
    BY <1>3, <1>4, <1>5, <2>1
<1>8. InTasks(k2, a)
  BY <1>6, <1>7 DEF InTasks
<1>9. QED
  BY <1>8 DEF k2, a

LEMMA TasksTaken ==
  ASSUME NEW kind \in [Message -> Kind], NEW name \in Kind, NEW q \in Seq(Task),
         InTasks(kind, q), q # <<>>
  PROVE  /\ InTasks(Moved(kind, Head(q).m, name), Tail(q))
         /\ kind[Head(q).m] = "task" /\ Head(q).m \in Message
<1> DEFINE k2 == Moved(kind, Head(q).m, name)
           b == Tail(q)
<1>1. /\ Head(q) = q[1] /\ Head(q) \in Task /\ Len(q) \in Nat /\ Len(q) >= 1
      /\ Len(b) = Len(q) - 1 /\ \A i \in 1..Len(q) - 1 : b[i] = q[i + 1]
  BY Taken
<1>2. Head(q).m \in Message
  BY <1>1 DEF Task
<1>3. \A y \in Message : y # Head(q).m => k2[y] = kind[y]
  BY <1>2, MovedKind
<1>4. \A i \in 1..Len(q) : q[i].m \in Message /\ kind[q[i].m] = "task"
  BY Entry DEF InTasks
<1>5. \A i, j \in 1..Len(q) : q[i].m = q[j].m => i = j
  BY DEF InTasks
<1>6. 1 \in 1..Len(q)
  BY <1>1
<1> HIDE DEF k2, b
<1>7. ASSUME NEW i \in 1..Len(b)
      PROVE  i + 1 \in 1..Len(q) /\ b[i] = q[i + 1] /\ i + 1 # 1
  BY <1>1
<1>8. \A i \in 1..Len(b) : k2[b[i].m] = "task"
  BY <1>1, <1>3, <1>4, <1>5, <1>6, <1>7
<1>9. ASSUME NEW i \in 1..Len(b), NEW j \in 1..Len(b), b[i].m = b[j].m PROVE i = j
  <2>3. i + 1 \in 1..Len(q) /\ j + 1 \in 1..Len(q)
    BY <1>7
  <2>4. b[i] = q[i + 1] /\ b[j] = q[j + 1]
    BY <1>7
  <2>5. q[i + 1].m = q[j + 1].m
    BY <2>4, <1>9
  <2>1. i + 1 = j + 1
    BY <1>5, <2>3, <2>5
  <2>2. i \in Nat /\ j \in Nat
    BY <1>1
  <2> QED
    BY <2>1, <2>2
<1>10. InTasks(k2, b)
  BY <1>8, <1>9 DEF InTasks
<1>11. QED
  BY <1>1, <1>2, <1>4, <1>6, <1>10 DEF k2, b

LEMMA WireStays ==
  ASSUME NEW kind \in [Message -> Kind], NEW m \in Message, NEW name \in Kind,
         NEW w \in [Conn -> Seq(Message)], OnWire(kind, w), kind[m] # "wire"
  PROVE  OnWire(Moved(kind, m, name), w)
<1> DEFINE k2 == Moved(kind, m, name)
<1>1. \A x \in Message : x # m => k2[x] = kind[x]
  BY MovedKind
<1> HIDE DEF k2
<1>2. ASSUME NEW k \in Conn, NEW i \in 1..Len(w[k]) PROVE k2[w[k][i]] = "wire"
  <2>1. w[k] \in Seq(Message)
    OBVIOUS
  <2>2. w[k][i] \in Message /\ kind[w[k][i]] = "wire"
    BY <2>1 DEF OnWire
  <2>3. QED
    BY <1>1, <2>2
<1>3. QED
  BY <1>2 DEF OnWire, k2

LEMMA WirePut ==
  ASSUME NEW kind \in [Message -> Kind], NEW m \in Message, NEW k \in Conn,
         NEW w \in [Conn -> Seq(Message)], OnWire(kind, w), kind[m] # "wire"
  PROVE  OnWire(Moved(kind, m, "wire"), [w EXCEPT ![k] = Append(w[k], m)])
<1> DEFINE k2 == Moved(kind, m, "wire")
           a == Append(w[k], m)
           v == [w EXCEPT ![k] = a]
<1>1. "wire" \in Kind
  BY DEF Kind
<1>2. k2[m] = "wire" /\ \A y \in Message : y # m => k2[y] = kind[y]
  BY <1>1, MovedKind
<1>3. w[k] \in Seq(Message)
  OBVIOUS
<1>4. /\ Len(w[k]) \in Nat /\ Len(a) = Len(w[k]) + 1 /\ a[Len(w[k]) + 1] = m
      /\ \A i \in 1..Len(w[k]) : a[i] = w[k][i]
  BY <1>3, Appended
<1>5. \A l \in Conn : \A i \in 1..Len(w[l]) :
        w[l][i] \in Message /\ kind[w[l][i]] = "wire" /\ w[l][i] # m
  <2>1. ASSUME NEW l \in Conn, NEW i \in 1..Len(w[l])
        PROVE  w[l][i] \in Message /\ kind[w[l][i]] = "wire"
    <3>1. w[l] \in Seq(Message)
      OBVIOUS
    <3>2. QED
      BY <3>1 DEF OnWire
  <2>2. QED
    BY <2>1
<1>6. \A l1, l2 \in Conn : \A i \in 1..Len(w[l1]), j \in 1..Len(w[l2]) :
        w[l1][i] = w[l2][j] => l1 = l2 /\ i = j
  BY DEF OnWire
<1> HIDE DEF k2, a
<1>7. v[k] = a /\ \A l \in Conn : l # k => v[l] = w[l]
  OBVIOUS
<1> HIDE DEF v
\* An entry of v is one of w, or the new one.
<1>8. ASSUME NEW l \in Conn, NEW i \in 1..Len(v[l])
      PROVE  \/ i \in 1..Len(w[l]) /\ v[l][i] = w[l][i]
             \/ l = k /\ i = Len(w[k]) + 1 /\ v[l][i] = m
  <2>1. CASE l = k
    BY <1>4, <1>7, <2>1
  <2>2. CASE l # k
    BY <1>7, <2>2
  <2>3. QED
    BY <2>1, <2>2
<1>9. \A l \in Conn : \A i \in 1..Len(v[l]) : k2[v[l][i]] = "wire"
  BY SMTT(60), <1>2, <1>5, <1>8
<1>10. ASSUME NEW l1 \in Conn, NEW l2 \in Conn, NEW i \in 1..Len(v[l1]),
              NEW j \in 1..Len(v[l2]), v[l1][i] = v[l2][j]
       PROVE  l1 = l2 /\ i = j
  <2>1. CASE i \in 1..Len(w[l1]) /\ v[l1][i] = w[l1][i]
    <3>1. v[l1][i] # m
      BY <1>5, <2>1
    <3>2. j \in 1..Len(w[l2]) /\ v[l2][j] = w[l2][j]
      BY <1>8, <1>10, <3>1
    <3>3. w[l1][i] = w[l2][j]
      BY <1>10, <2>1, <3>2
    <3>4. QED
      BY <1>6, <2>1, <3>2, <3>3
  <2>2. CASE l1 = k /\ i = Len(w[k]) + 1 /\ v[l1][i] = m
    <3>1. v[l2][j] = m
      BY <1>10, <2>2
    <3>2. l2 = k /\ j = Len(w[k]) + 1
      <4>1. CASE j \in 1..Len(w[l2]) /\ v[l2][j] = w[l2][j]
        <5>1. w[l2][j] # m
          BY <1>5, <4>1
        <5>2. QED
          BY <3>1, <4>1, <5>1
      <4>2. QED
        BY <1>8, <4>1
    <3>3. QED
      BY <2>2, <3>2
  <2>3. QED
    BY <1>8, <2>1, <2>2
<1>11. OnWire(k2, v)
  BY <1>9, <1>10 DEF OnWire
<1>12. QED
  BY <1>11 DEF k2, a, v

LEMMA WireTaken ==
  ASSUME NEW kind \in [Message -> Kind], NEW name \in Kind, NEW k \in Conn,
         NEW w \in [Conn -> Seq(Message)], OnWire(kind, w), w[k] # <<>>
  PROVE  /\ OnWire(Moved(kind, Head(w[k]), name), [w EXCEPT ![k] = Tail(w[k])])
         /\ kind[Head(w[k])] = "wire" /\ Head(w[k]) \in Message
<1> DEFINE m == Head(w[k])
           k2 == Moved(kind, m, name)
           b == Tail(w[k])
           v == [w EXCEPT ![k] = b]
<1>1. w[k] \in Seq(Message)
  OBVIOUS
<1>2. /\ m = w[k][1] /\ m \in Message /\ Len(w[k]) \in Nat /\ Len(w[k]) >= 1
      /\ Len(b) = Len(w[k]) - 1 /\ \A i \in 1..Len(w[k]) - 1 : b[i] = w[k][i + 1]
  BY <1>1, Taken
<1>3. \A y \in Message : y # m => k2[y] = kind[y]
  BY <1>2, MovedKind
<1>4. ASSUME NEW l \in Conn, NEW i \in 1..Len(w[l])
      PROVE  w[l][i] \in Message /\ kind[w[l][i]] = "wire"
  <2>1. w[l] \in Seq(Message)
    OBVIOUS
  <2>2. QED
    BY <2>1 DEF OnWire
<1>5. \A l1, l2 \in Conn : \A i \in 1..Len(w[l1]), j \in 1..Len(w[l2]) :
        w[l1][i] = w[l2][j] => l1 = l2 /\ i = j
  BY DEF OnWire
<1>6. 1 \in 1..Len(w[k])
  BY <1>2
<1> HIDE DEF m, k2, b
<1>7. v[k] = b /\ \A l \in Conn : l # k => v[l] = w[l]
  OBVIOUS
<1> HIDE DEF v
\* An entry of v is one of w, one place on in the queue of k.
<1> DEFINE at(l, i) == IF l = k THEN i + 1 ELSE i
<1>8. ASSUME NEW l \in Conn, NEW i \in 1..Len(v[l])
      PROVE  /\ at(l, i) \in 1..Len(w[l]) /\ v[l][i] = w[l][at(l, i)]
             /\ l = k => at(l, i) # 1
  <2>1. CASE l = k
    BY <1>2, <1>7, <2>1
  <2>2. CASE l # k
    BY <1>7, <2>2
  <2>3. QED
    BY <2>1, <2>2
<1>9. ASSUME NEW l \in Conn, NEW i \in 1..Len(v[l]) PROVE k2[v[l][i]] = "wire"
  <2>1. w[l][at(l, i)] # m
    BY <1>2, <1>5, <1>6, <1>8
  <2>2. QED
    BY <1>3, <1>4, <1>8, <2>1
<1>10. ASSUME NEW l1 \in Conn, NEW l2 \in Conn, NEW i \in 1..Len(v[l1]),
              NEW j \in 1..Len(v[l2]), v[l1][i] = v[l2][j]
       PROVE  l1 = l2 /\ i = j
  <2>1. at(l1, i) \in 1..Len(w[l1]) /\ at(l2, j) \in 1..Len(w[l2])
    BY <1>8
  <2>2. l1 = l2 /\ at(l1, i) = at(l2, j)
    <3>1. w[l1][at(l1, i)] = w[l2][at(l2, j)]
      BY <1>8, <1>10
    <3> HIDE DEF at
    <3>2. QED
      BY <1>5, <2>1, <3>1
  <2>3. i \in Int /\ j \in Int
    OBVIOUS
  <2>4. QED
    BY <2>2, <2>3
<1>11. OnWire(k2, v)
  BY <1>9, <1>10 DEF OnWire
<1>12. kind[m] = "wire"
  BY <1>2, <1>4, <1>6
<1>13. QED
  BY <1>2, <1>11, <1>12 DEF m, k2, b, v

\* A break: the queue of k keeps n messages, those after them get lost.
Cut(kind, L) == [x \in Message |-> IF x \in L THEN "lost" ELSE kind[x]]

LEMMA WireCut ==
  ASSUME NEW kind \in [Message -> Kind], NEW k \in Conn, NEW w \in [Conn -> Seq(Message)],
         OnWire(kind, w), NEW n \in 0..Len(w[k])
  PROVE  /\ OnWire(Cut(kind, Range(SubSeq(w[k], n + 1, Len(w[k])))),
                   [w EXCEPT ![k] = SubSeq(w[k], 1, n)])
         /\ \A x \in Range(SubSeq(w[k], n + 1, Len(w[k]))) : x \in Message /\ kind[x] = "wire"
<1> DEFINE L == Range(SubSeq(w[k], n + 1, Len(w[k])))
           k2 == Cut(kind, L)
           b == SubSeq(w[k], 1, n)
           v == [w EXCEPT ![k] = b]
<1>1. w[k] \in Seq(Message) /\ n \in Nat
  OBVIOUS
<1>2. L = {w[k][i] : i \in n + 1..Len(w[k])}
  BY <1>1, Suffix
<1>3. Len(b) = n /\ Len(w[k]) \in Nat /\ \A i \in 1..n : b[i] = w[k][i]
  BY <1>1, Prefix
<1>4. ASSUME NEW l \in Conn, NEW i \in 1..Len(w[l])
      PROVE  w[l][i] \in Message /\ kind[w[l][i]] = "wire"
  <2>1. w[l] \in Seq(Message)
    OBVIOUS
  <2>2. QED
    BY <2>1 DEF OnWire
<1>5. \A l1, l2 \in Conn : \A i \in 1..Len(w[l1]), j \in 1..Len(w[l2]) :
        w[l1][i] = w[l2][j] => l1 = l2 /\ i = j
  BY DEF OnWire
<1> HIDE DEF L, b
<1>6. \A x \in Message : x \notin L => k2[x] = kind[x]
  BY DEF Cut
<1> HIDE DEF k2
<1>7. v[k] = b /\ \A l \in Conn : l # k => v[l] = w[l]
  OBVIOUS
<1> HIDE DEF v
<1>8. ASSUME NEW l \in Conn, NEW i \in 1..Len(v[l])
      PROVE  i \in 1..Len(w[l]) /\ v[l][i] = w[l][i] /\ (l = k => i \in 1..n)
  <2>1. CASE l = k
    BY <1>1, <1>3, <1>7, <2>1
  <2>2. CASE l # k
    BY <1>7, <2>2
  <2>3. QED
    BY <2>1, <2>2
<1>9. ASSUME NEW l \in Conn, NEW i \in 1..Len(v[l]) PROVE k2[v[l][i]] = "wire"
  <2>1. ASSUME w[l][i] \in L PROVE FALSE
    <3>1. PICK j \in n + 1..Len(w[k]) : w[l][i] = w[k][j]
      BY <1>2, <2>1
    <3>2. j \in 1..Len(w[k]) /\ j > n
      BY <1>1, <1>3, <3>1
    <3>3. l = k /\ i = j
      BY <1>5, <1>8, <3>1, <3>2
    <3>4. QED
      BY <1>1, <1>8, <3>2, <3>3
  <2>2. w[l][i] \in Message /\ kind[w[l][i]] = "wire"
    BY <1>4, <1>8
  <2>3. QED
    BY <1>6, <1>8, <2>1, <2>2
<1>10. \A l1, l2 \in Conn : \A i \in 1..Len(v[l1]), j \in 1..Len(v[l2]) :
         v[l1][i] = v[l2][j] => l1 = l2 /\ i = j
  BY <1>5, <1>8
<1>11. OnWire(k2, v)
  BY <1>9, <1>10 DEF OnWire
<1>12. \A x \in L : x \in Message /\ kind[x] = "wire"
  <2>1. ASSUME NEW x \in L PROVE x \in Message /\ kind[x] = "wire"
    <3>1. PICK j \in n + 1..Len(w[k]) : x = w[k][j]
      BY <1>2
    <3>2. j \in 1..Len(w[k])
      BY <1>1, <1>3, <3>1
    <3>3. QED
      BY <1>4, <3>1, <3>2
  <2>2. QED
    BY <2>1
<1>13. QED
  BY <1>11, <1>12 DEF L, k2, b, v

LEMMA SetStays ==
  ASSUME NEW kind \in [Message -> Kind], NEW m \in Message, NEW name \in Kind,
         NEW S \in SUBSET Message, NEW kept, In(kind, S, kept), kind[m] # kept
  PROVE  In(Moved(kind, m, name), S, kept)
<1> DEFINE k2 == Moved(kind, m, name)
<1>1. \A x \in Message : x # m => k2[x] = kind[x]
  BY MovedKind
<1> HIDE DEF k2
<1>2. In(k2, S, kept)
  BY <1>1 DEF In
<1>3. QED
  BY <1>2 DEF k2

LEMMA SetPut ==
  ASSUME NEW kind \in [Message -> Kind], NEW m \in Message, NEW name \in Kind,
         NEW S \in SUBSET Message, In(kind, S, name)
  PROVE  In(Moved(kind, m, name), S \cup {m}, name)
<1> DEFINE k2 == Moved(kind, m, name)
<1>1. k2[m] = name /\ \A x \in Message : x # m => k2[x] = kind[x]
  BY MovedKind
<1> HIDE DEF k2
<1>2. In(k2, S \cup {m}, name)
  BY <1>1 DEF In
<1>3. QED
  BY <1>2 DEF k2

LEMMA SetTaken ==
  ASSUME NEW kind \in [Message -> Kind], NEW m \in Message, NEW name \in Kind,
         NEW S \in SUBSET Message, NEW kept, In(kind, S, kept)
  PROVE  In(Moved(kind, m, name), S \ {m}, kept)
<1> DEFINE k2 == Moved(kind, m, name)
<1>1. \A x \in Message : x # m => k2[x] = kind[x]
  BY MovedKind
<1> HIDE DEF k2
<1>2. In(k2, S \ {m}, kept)
  BY <1>1 DEF In
<1>3. QED
  BY <1>2 DEF k2

LEMMA LaterStays ==
  ASSUME NEW kind \in [Message -> Kind], NEW m \in Message, NEW name \in Kind,
         NEW c, Later(kind, c), kind[m] # "none"
  PROVE  Later(Moved(kind, m, name), c)
<1> DEFINE k2 == Moved(kind, m, name)
<1>1. \A x \in Message : x # m => k2[x] = kind[x]
  BY MovedKind
<1> HIDE DEF k2
<1>2. Later(k2, c)
  BY <1>1 DEF Later
<1>3. QED
  BY <1>2 DEF k2

LEMMA KindInit ==
  ASSUME RpcAssumption, Init
  PROVE  KindInv
<1> DEFINE kind == [m \in Message |-> "none"]
<1>1. kind \in [Message -> Kind]
  BY DEF Kind
<1>2. Called(kind, msg) /\ InTasks(kind, tasks) /\ OnWire(kind, toServer)
  BY DEF Init, Called, InTasks, OnWire
<1>3. In(kind, waiting, "waiting") /\ In(kind, handled, "handled") /\ In(kind, lost, "lost")
  BY DEF Init, In
<1>4. Later(kind, calls)
  BY DEF Later
<1> HIDE DEF kind
<1>5. QED
  BY <1>1, <1>2, <1>3, <1>4 DEF KindInv

\* What a write to connection k does with a message that is nowhere else.
LEMMA WriteMoves ==
  ASSUME RpcAssumption, TypeOK, NEW kind \in [Message -> Kind],
         NEW g \in [Caller -> Message \cup {None}], Called(kind, g),
         NEW q \in Seq(Task), NEW S \in SUBSET Message,
         NEW k \in Conn, NEW m \in Message, kind[m] \in {"task", "waiting"},
         \A name \in {"wire", "lost"} :
           /\ InTasks(Moved(kind, m, name), q)
           /\ In(Moved(kind, m, name), S, "waiting"),
         OnWire(kind, toServer), In(kind, handled, "handled"), In(kind, lost, "lost"),
         Later(kind, calls), Write(k, m)
  PROVE  \E k2 \in [Message -> Kind] :
           /\ Called(k2, g) /\ InTasks(k2, q) /\ OnWire(k2, toServer')
           /\ In(k2, S, "waiting") /\ In(k2, handled, "handled")
           /\ In(k2, lost', "lost") /\ Later(k2, calls)
<1>0. /\ toServer \in [Conn -> Seq(Message)]
      /\ handled \in SUBSET Message /\ lost \in SUBSET Message
      /\ "wire" \in Kind /\ "lost" \in Kind
      /\ kind[m] \notin {"none", "caller", "wire", "handled", "lost"}
  BY DEF TypeOK, Kind
<1>1. CASE k = conn /\ link = "up"
  <2>1. toServer' = [toServer EXCEPT ![k] = Append(toServer[k], m)] /\ lost' = lost
    BY <1>1 DEF Write
  <2> DEFINE k2 == Moved(kind, m, "wire")
  <2>2. k2 \in [Message -> Kind]
    BY <1>0, MovedKind
  <2>3. Called(k2, g) /\ Later(k2, calls)
    BY <1>0, CalledStays, LaterStays
  <2>4. OnWire(k2, toServer')
    BY <1>0, <2>1, WirePut
  <2>5. In(k2, handled, "handled") /\ In(k2, lost', "lost")
    BY <1>0, <2>1, SetStays
  <2>6. InTasks(k2, q) /\ In(k2, S, "waiting")
    OBVIOUS
  <2> HIDE DEF k2
  <2>7. QED
    BY <2>2, <2>3, <2>4, <2>5, <2>6
<1>2. CASE ~(k = conn /\ link = "up")
  <2>1. toServer' = toServer /\ lost' = lost \cup {m}
    BY <1>2 DEF Write
  <2> DEFINE k2 == Moved(kind, m, "lost")
  <2>2. k2 \in [Message -> Kind]
    BY <1>0, MovedKind
  <2>3. Called(k2, g) /\ Later(k2, calls)
    BY <1>0, CalledStays, LaterStays
  <2>4. OnWire(k2, toServer')
    BY <1>0, <2>1, WireStays
  <2>5. In(k2, handled, "handled") /\ In(k2, lost', "lost")
    BY <1>0, <2>1, SetStays, SetPut
  <2>6. InTasks(k2, q) /\ In(k2, S, "waiting")
    OBVIOUS
  <2> HIDE DEF k2
  <2>7. QED
    BY <2>2, <2>3, <2>4, <2>5, <2>6
<1>3. QED
  BY <1>1, <1>2

LEMMA KindStep ==
  ASSUME RpcAssumption, TypeOK, ConnInv, KindInv, [Next]_vars
  PROVE  KindInv'
<1>0. /\ msg \in [Caller -> Message \cup {None}]
      /\ calls \in [Caller -> 0..MaxCall] /\ cSid \in [Caller -> 0..MaxCall]
      /\ MaxCall \in Nat
      /\ tasks \in Seq(Task) /\ toServer \in [Conn -> Seq(Message)]
      /\ waiting \in SUBSET Message /\ handled \in SUBSET Message /\ lost \in SUBSET Message
      /\ None \notin Message
  BY RpcAssumption DEF TypeOK, Task, RpcAssumption
<1>n. Kind = {"none", "caller", "task", "wire", "waiting", "handled", "lost"}
  BY DEF Kind
<1>k. PICK kind \in [Message -> Kind] :
        /\ Called(kind, msg) /\ InTasks(kind, tasks) /\ OnWire(kind, toServer)
        /\ In(kind, waiting, "waiting") /\ In(kind, handled, "handled")
        /\ In(kind, lost, "lost") /\ Later(kind, calls)
  BY DEF KindInv
\* A step that moves no message.
<1>s. ASSUME UNCHANGED <<msg, calls, tasks, toServer, waiting, handled, lost>>
      PROVE  KindInv'
  BY <1>k, <1>s DEF KindInv
<1>1. ASSUME NEW s \in Caller, Call(s) PROVE KindInv'
  <2> DEFINE m == msg'[s]
             k2 == Moved(kind, m, "caller")
  <2>1. calls'[s] \in 1..MaxCall /\ calls[s] \in Nat /\ calls'[s] = calls[s] + 1
        /\ calls' = [calls EXCEPT ![s] = calls[s] + 1]
    BY <1>0, <1>1 DEF Call
  <2>2. cSid[s] + 1 \in 0..MaxCall
    <3>1. cSid[s] <= calls[s] /\ calls[s] < MaxCall /\ cSid[s] \in Nat
      BY <1>0, <1>1 DEF Call, ConnInv
    <3>2. QED
      BY <1>0, <2>1, <3>1
  <2>3. m \in Message /\ m.src = s /\ m.call = calls'[s] /\ msg' = [msg EXCEPT ![s] = m]
    <3>1. \E sid \in 0..MaxCall :
            msg' = [msg EXCEPT ![s] = [src |-> s, sid |-> sid, call |-> calls'[s]]]
      BY <1>0, <1>1, <2>2 DEF Call, Request, Send
    <3>2. PICK sid \in 0..MaxCall :
            msg' = [msg EXCEPT ![s] = [src |-> s, sid |-> sid, call |-> calls'[s]]]
      BY <3>1
    <3>3. m = [src |-> s, sid |-> sid, call |-> calls'[s]]
      BY <1>0, <3>2
    <3>4. m \in Message
      BY <2>1, <3>3 DEF Message
    <3> HIDE DEF m
    <3>5. QED
      BY <3>2, <3>3, <3>4
  <2>4. UNCHANGED <<tasks, toServer, waiting, handled, lost>>
    BY <1>1 DEF Call, clientVars, serverVars
  <2> HIDE DEF m
  <2>5. kind[m] = "none"
    BY <1>k, <2>1, <2>3 DEF Later
  <2>6. k2 \in [Message -> Kind]
    BY <1>n, <2>3, MovedKind
  <2>7. Called(k2, msg')
    BY <1>0, <1>k, <2>3, <2>5, CalledPut
  <2>8. InTasks(k2, tasks) /\ OnWire(k2, toServer)
    BY <1>0, <1>k, <1>n, <2>3, <2>5, TasksStay, WireStays
  <2>9. In(k2, waiting, "waiting") /\ In(k2, handled, "handled") /\ In(k2, lost, "lost")
    BY <1>0, <1>k, <1>n, <2>3, <2>5, SetStays
  <2>10. Later(k2, calls')
    <3>1. \A x \in Message : x # m => k2[x] = kind[x]
      BY <1>n, <2>3, MovedKind
    <3> HIDE DEF k2
    <3>2. ASSUME NEW x \in Message, x.call > calls'[x.src] PROVE k2[x] = "none"
      <4>1. x.src \in Caller /\ x.call \in Nat
        BY DEF Message
      <4>2. x # m
        BY <2>1, <2>3, <3>2
      <4>3. calls[x.src] \in Nat /\ calls'[x.src] >= calls[x.src] /\ calls'[x.src] \in Nat
        BY <1>0, <2>1, <4>1
      <4>4. x.call > calls[x.src]
        BY <3>2, <4>1, <4>3
      <4>5. QED
        BY <1>k, <3>1, <4>2, <4>4 DEF Later
    <3>3. QED
      BY <3>2 DEF Later
  <2> HIDE DEF k2
  <2>11. QED
    BY <2>4, <2>6, <2>7, <2>8, <2>9, <2>10 DEF KindInv
<1>2. ASSUME NEW s \in Caller, FindClient(s) \/ LockCreate(s) \/ Recheck(s) \/
             CreateClient(s) \/ InsertClient(s) \/ TestConnect(s)
      PROVE  KindInv'
  BY <1>s, <1>2 DEF FindClient, LockCreate, Recheck, CreateClient, InsertClient, TestConnect,
                    managerVars, clientVars, serverVars
<1>3. ASSUME NEW s \in Caller, Enqueue(s) PROVE KindInv'
  <2> DEFINE m == msg[s]
             k2 == Moved(kind, m, "waiting")
  <2>1. m \in Message /\ m # None
    BY <1>0, <1>3 DEF Enqueue, ConnInv
  <2>2. kind[m] = "caller"
    BY <1>k, <2>1 DEF Called
  <2>3. /\ waiting' = waiting \cup {m} /\ msg' = [msg EXCEPT ![s] = None]
        /\ UNCHANGED <<calls, tasks, toServer, handled, lost>>
    BY <1>3 DEF Enqueue, serverVars
  <2>4. k2 \in [Message -> Kind]
    BY <1>n, <2>1, MovedKind
  <2>5. Called(k2, msg')
    BY <1>0, <1>k, <1>n, <2>1, <2>3, CalledTaken
  <2> HIDE DEF m
  <2>6. InTasks(k2, tasks) /\ OnWire(k2, toServer)
    BY <1>0, <1>k, <1>n, <2>1, <2>2, TasksStay, WireStays
  <2>7. In(k2, waiting', "waiting")
    BY <1>0, <1>k, <1>n, <2>1, <2>3, SetPut
  <2>8. In(k2, handled, "handled") /\ In(k2, lost, "lost") /\ Later(k2, calls)
    BY <1>0, <1>k, <1>n, <2>1, <2>2, SetStays, LaterStays
  <2> HIDE DEF k2
  <2>9. QED
    BY <2>3, <2>4, <2>5, <2>6, <2>7, <2>8 DEF KindInv
<1>4. ASSUME NEW s \in Caller, Direct(s) PROVE KindInv'
  <2> DEFINE m == msg[s]
             x == [conn |-> connect, m |-> m]
             k2 == Moved(kind, m, "task")
  <2>1. m \in Message /\ m # None /\ connect \in Conn
    <3>1. connect # 0
      BY <1>4 DEF Direct, ConnInv
    <3>2. QED
      BY <1>0, <1>4, <3>1 DEF Direct, ConnInv, TypeOK
  <2>2. kind[m] = "caller"
    BY <1>k, <2>1 DEF Called
  <2>3. /\ tasks' = Append(tasks, x) /\ msg' = [msg EXCEPT ![s] = None]
        /\ UNCHANGED <<calls, waiting, toServer, handled, lost>>
    BY <1>4 DEF Direct, serverVars
  <2>4. k2 \in [Message -> Kind]
    BY <1>n, <2>1, MovedKind
  <2>5. Called(k2, msg')
    BY <1>0, <1>k, <1>n, <2>1, <2>3, CalledTaken
  <2>6. x \in Task /\ x.m = m
    BY <2>1 DEF Task
  <2> HIDE DEF m, x
  <2>7. InTasks(k2, tasks')
    BY <1>0, <1>k, <2>2, <2>3, <2>6, TasksPut
  <2>8. OnWire(k2, toServer)
    BY <1>0, <1>k, <1>n, <2>1, <2>2, WireStays
  <2>9. /\ In(k2, waiting, "waiting") /\ In(k2, handled, "handled")
        /\ In(k2, lost, "lost") /\ Later(k2, calls)
    BY <1>0, <1>k, <1>n, <2>1, <2>2, SetStays, LaterStays
  <2> HIDE DEF k2
  <2>10. QED
    BY <2>3, <2>4, <2>5, <2>7, <2>8, <2>9 DEF KindInv
<1>5. ASSUME NEW s \in Caller, OnRevResponse(s) PROVE KindInv'
  BY <1>s, <1>5 DEF OnRevResponse, managerVars, clientVars, serverVars
<1>6. ASSUME OnConnect \/ OnRead \/ OnDisconnect PROVE KindInv'
  BY <1>s, <1>6 DEF OnConnect, OnRead, OnDisconnect, callerVars, managerVars,
                    clientVars, serverVars
<1>7. ASSUME SendWait PROVE KindInv'
  <2>1. connect \in Conn
    BY <1>7 DEF SendWait, ConnInv, TypeOK
  <2>2. UNCHANGED <<msg, calls, tasks, handled>>
    BY <1>7 DEF SendWait, callerVars, serverVars
  <2>3. CASE waiting = {}
    <3>1. UNCHANGED <<waiting, toServer, lost>>
      BY <1>7, <2>3 DEF SendWait
    <3>2. QED
      BY <1>s, <2>2, <3>1
  <2>4. CASE waiting # {}
    <3>1. PICK m \in waiting : waiting' = waiting \ {m} /\ Write(connect, m)
      BY <1>7, <2>4 DEF SendWait
    <3>2. m \in Message /\ kind[m] = "waiting"
      BY <1>0, <1>k DEF In
    <3>3. \A name \in {"wire", "lost"} :
            /\ InTasks(Moved(kind, m, name), tasks)
            /\ In(Moved(kind, m, name), waiting \ {m}, "waiting")
      BY <1>0, <1>k, <1>n, <3>2, TasksStay, SetTaken
    <3>4. waiting \ {m} \in SUBSET Message /\ kind[m] \in {"task", "waiting"}
      BY <1>0, <3>2
    <3>5. \E k2 \in [Message -> Kind] :
           /\ Called(k2, msg) /\ InTasks(k2, tasks) /\ OnWire(k2, toServer')
           /\ In(k2, waiting \ {m}, "waiting") /\ In(k2, handled, "handled")
           /\ In(k2, lost', "lost") /\ Later(k2, calls)
      BY <1>0, <1>k, <2>1, <3>1, <3>2, <3>3, <3>4, WriteMoves
    <3>6. QED
      BY <2>2, <3>1, <3>5 DEF KindInv
  <2>5. QED
    BY <2>3, <2>4
<1>8. ASSUME RunTask PROVE KindInv'
  <2> DEFINE m == Head(tasks).m
             k == Head(tasks).conn
  <2>1. /\ tasks # <<>> /\ tasks' = Tail(tasks) /\ Write(k, m)
        /\ UNCHANGED <<msg, calls, waiting, handled>>
    BY <1>8 DEF RunTask, callerVars, serverVars
  <2>2. Head(tasks) \in Task /\ Tail(tasks) \in Seq(Task)
    BY <1>0, <2>1, Taken
  <2>3. k \in Conn
    BY <2>2 DEF Task
  <2>4. kind[m] = "task" /\ m \in Message
    BY <1>0, <1>k, <1>n, <2>1, TasksTaken
  <2>5. \A name \in {"wire", "lost"} : InTasks(Moved(kind, m, name), Tail(tasks))
    BY <1>0, <1>k, <1>n, <2>1, TasksTaken
  <2> HIDE DEF m, k
  <2>6. \A name \in {"wire", "lost"} : In(Moved(kind, m, name), waiting, "waiting")
    BY <1>0, <1>k, <1>n, <2>4, SetStays
  <2>7. \E k2 \in [Message -> Kind] :
          /\ Called(k2, msg) /\ InTasks(k2, Tail(tasks)) /\ OnWire(k2, toServer')
          /\ In(k2, waiting, "waiting") /\ In(k2, handled, "handled")
          /\ In(k2, lost', "lost") /\ Later(k2, calls)
    BY <1>0, <1>k, <2>1, <2>2, <2>3, <2>4, <2>5, <2>6, WriteMoves
  <2>8. QED
    BY <2>1, <2>7 DEF KindInv
<1>9. ASSUME Break PROVE KindInv'
  <2>1. conn \in Conn
    BY <1>9 DEF Break, ConnInv, TypeOK
  <2>2. PICK n \in 0..Len(toServer[conn]) :
          /\ toServer' = [toServer EXCEPT ![conn] = SubSeq(toServer[conn], 1, n)]
          /\ lost' = lost \cup Range(SubSeq(toServer[conn], n + 1, Len(toServer[conn])))
    BY <1>9 DEF Break
  <2>3. UNCHANGED <<msg, calls, waiting, tasks, handled>>
    BY <1>9 DEF Break, callerVars, serverVars
  <2> DEFINE L == Range(SubSeq(toServer[conn], n + 1, Len(toServer[conn])))
             k2 == Cut(kind, L)
  <2>4. OnWire(k2, toServer') /\ \A x \in L : x \in Message /\ kind[x] = "wire"
    BY <1>0, <1>k, <2>1, <2>2, WireCut
  <2> HIDE DEF L
  <2>5. /\ k2 \in [Message -> Kind] /\ \A x \in Message : x \notin L => k2[x] = kind[x]
        /\ \A x \in L : k2[x] = "lost"
    BY <1>n, <2>4 DEF Cut
  <2> HIDE DEF k2
  <2>6. ASSUME NEW x \in Message, kind[x] # "wire" PROVE k2[x] = kind[x]
    BY <2>4, <2>5, <2>6
  <2>7. Called(k2, msg)
    <3>1. ASSUME NEW s \in Caller, msg[s] # None PROVE k2[msg[s]] = "caller" /\ msg[s].src = s
      <4>1. msg[s] \in Message /\ kind[msg[s]] = "caller" /\ msg[s].src = s
        BY <1>0, <1>k, <3>1 DEF Called
      <4>2. QED
        BY <2>6, <4>1
    <3>2. QED
      BY <3>1 DEF Called
  <2>8. InTasks(k2, tasks)
    <3>1. ASSUME NEW i \in 1..Len(tasks) PROVE k2[tasks[i].m] = "task"
      <4>1. tasks[i].m \in Message /\ kind[tasks[i].m] = "task"
        BY <1>0, <1>k, Entry DEF InTasks
      <4>2. QED
        BY <2>6, <4>1
    <3>2. QED
      BY <1>k, <3>1 DEF InTasks
  <2>9. In(k2, waiting, "waiting") /\ In(k2, handled, "handled") /\ In(k2, lost, "lost")
    BY <1>0, <1>k, <2>6 DEF In
  <2>10. In(k2, lost', "lost")
    BY <2>2, <2>5, <2>9 DEF In, L
  <2>11. Later(k2, calls)
    BY <1>k, <2>6 DEF Later
  <2>12. QED
    BY <2>3, <2>4, <2>5, <2>7, <2>8, <2>9, <2>10, <2>11 DEF KindInv
<1>10. ASSUME NEW k \in Conn, ServerRead(k) PROVE KindInv'
  <2> DEFINE m == Head(toServer[k])
             k2 == Moved(kind, m, "handled")
  <2>1. /\ toServer[k] # <<>> /\ toServer' = [toServer EXCEPT ![k] = Tail(toServer[k])]
        /\ handled' = handled \cup {m}
        /\ UNCHANGED <<msg, calls, tasks, waiting, lost>>
    BY <1>10 DEF ServerRead, callerVars, clientVars
  <2>2. OnWire(k2, toServer') /\ kind[m] = "wire" /\ m \in Message
    BY <1>0, <1>k, <1>n, <2>1, WireTaken
  <2> HIDE DEF m
  <2>3. k2 \in [Message -> Kind]
    BY <1>n, <2>2, MovedKind
  <2>4. Called(k2, msg) /\ InTasks(k2, tasks) /\ Later(k2, calls)
    BY <1>0, <1>k, <1>n, <2>2, CalledStays, TasksStay, LaterStays
  <2>5. In(k2, waiting, "waiting") /\ In(k2, lost, "lost") /\ In(k2, handled', "handled")
    BY <1>0, <1>k, <1>n, <2>1, <2>2, SetStays, SetPut
  <2> HIDE DEF k2
  <2>6. QED
    BY <2>1, <2>2, <2>3, <2>4, <2>5 DEF KindInv
<1>11. ASSUME NEW k \in Conn, ServerInActive(k) PROVE KindInv'
  BY <1>s, <1>11 DEF ServerInActive, callerVars, clientVars
<1>12. ASSUME NEW x \in todo, Response(x) PROVE KindInv'
  BY <1>s, <1>12 DEF Response, callerVars, clientVars
<1>13. ASSUME UNCHANGED vars PROVE KindInv'
  BY <1>s, <1>13 DEF vars, callerVars, clientVars, serverVars
<1> QED
  BY <1>1, <1>2, <1>3, <1>4, <1>5, <1>6, <1>7, <1>8, <1>9, <1>10, <1>11, <1>12, <1>13
     DEF Next

LEMMA PlacesAre ==
  ASSUME NEW m, NEW p, p \in Places(m)
  PROVE  \/ \E s \in Caller : msg[s] = m /\ p = <<"caller", s>>
         \/ \E i \in 1..Len(tasks) : tasks[i].m = m /\ p = <<"task", i>>
         \/ \E k \in Conn : \E i \in 1..Len(toServer[k]) :
              toServer[k][i] = m /\ p = <<"wire", k, i>>
         \/ m \in waiting /\ p = <<"waiting", m>>
         \/ m \in handled /\ p = <<"handled", m>>
         \/ m \in lost /\ p = <<"lost", m>>
<1>1. CASE p \in WithCaller(m)
  BY <1>1 DEF WithCaller
<1>2. CASE p \in AsTask(m)
  BY <1>2 DEF AsTask
<1>3. ASSUME NEW k \in Conn, p \in OnConnection(m, k)
      PROVE  \E i \in 1..Len(toServer[k]) : toServer[k][i] = m /\ p = <<"wire", k, i>>
  BY <1>3 DEF OnConnection
<1>4. \A S, name : p \in InSet(m, name, S) => m \in S /\ p = <<name, m>>
  BY DEF InSet
<1>5. \/ p \in WithCaller(m) \/ p \in AsTask(m)
      \/ \E k \in Conn : p \in OnConnection(m, k)
      \/ p \in InSet(m, "waiting", waiting) \/ p \in InSet(m, "handled", handled)
      \/ p \in InSet(m, "lost", lost)
  <2>1. p \in OnSomeConnection(m) => \E k \in Conn : p \in OnConnection(m, k)
    BY DEF OnSomeConnection
  <2>2. QED
    BY <2>1 DEF Places
<1>6. QED
  BY <1>1, <1>2, <1>3, <1>4, <1>5

\* Where a message is decides what its places can be.
LEMMA OnePlace ==
  ASSUME RpcAssumption, TypeOK, KindInv, NEW m \in Message
  PROVE  Cardinality(Places(m)) <= 1
<1>k. PICK kind \in [Message -> Kind] :
        /\ Called(kind, msg) /\ InTasks(kind, tasks) /\ OnWire(kind, toServer)
        /\ In(kind, waiting, "waiting") /\ In(kind, handled, "handled")
        /\ In(kind, lost, "lost") /\ Later(kind, calls)
  BY DEF KindInv
<1>m. m # None
  BY RpcAssumption DEF RpcAssumption
<1>1. ASSUME NEW p, p \in Places(m)
      PROVE  \/ kind[m] = "caller" /\ p = <<"caller", m.src>>
             \/ kind[m] = "task" /\ \E i \in 1..Len(tasks) : tasks[i].m = m /\ p = <<"task", i>>
             \/ kind[m] = "wire" /\ \E k \in Conn : \E i \in 1..Len(toServer[k]) :
                                      toServer[k][i] = m /\ p = <<"wire", k, i>>
             \/ kind[m] = "waiting" /\ p = <<"waiting", m>>
             \/ kind[m] = "handled" /\ p = <<"handled", m>>
             \/ kind[m] = "lost" /\ p = <<"lost", m>>
  <2>1. CASE \E s \in Caller : msg[s] = m /\ p = <<"caller", s>>
    BY <1>k, <1>m, <2>1 DEF Called
  <2>2. CASE \E i \in 1..Len(tasks) : tasks[i].m = m /\ p = <<"task", i>>
    BY <1>k, <2>2 DEF InTasks
  <2>3. CASE \E k \in Conn : \E i \in 1..Len(toServer[k]) :
               toServer[k][i] = m /\ p = <<"wire", k, i>>
    BY <1>k, <2>3 DEF OnWire
  <2>4. CASE m \in waiting /\ p = <<"waiting", m>>
    BY <1>k, <2>4 DEF In
  <2>5. CASE m \in handled /\ p = <<"handled", m>>
    BY <1>k, <2>5 DEF In
  <2>6. CASE m \in lost /\ p = <<"lost", m>>
    BY <1>k, <2>6 DEF In
  <2>7. QED
    BY <1>1, <2>1, <2>2, <2>3, <2>4, <2>5, <2>6, PlacesAre
<1>2. ASSUME NEW p \in Places(m), NEW r \in Places(m) PROVE p = r
  <2>1. CASE kind[m] = "task"
    <3>1. PICK i \in 1..Len(tasks) : tasks[i].m = m /\ p = <<"task", i>>
      BY <1>1, <2>1
    <3>2. PICK j \in 1..Len(tasks) : tasks[j].m = m /\ r = <<"task", j>>
      BY <1>1, <2>1
    <3>3. i = j
      BY <1>k, <3>1, <3>2 DEF InTasks
    <3>4. QED
      BY <3>1, <3>2, <3>3
  <2>2. CASE kind[m] = "wire"
    <3>1. PICK k \in Conn : \E i \in 1..Len(toServer[k]) :
            toServer[k][i] = m /\ p = <<"wire", k, i>>
      BY <1>1, <2>2
    <3>2. PICK i \in 1..Len(toServer[k]) : toServer[k][i] = m /\ p = <<"wire", k, i>>
      BY <3>1
    <3>3. PICK l \in Conn : \E j \in 1..Len(toServer[l]) :
            toServer[l][j] = m /\ r = <<"wire", l, j>>
      BY <1>1, <2>2
    <3>4. PICK j \in 1..Len(toServer[l]) : toServer[l][j] = m /\ r = <<"wire", l, j>>
      BY <3>3
    <3>5. k = l /\ i = j
      BY <1>k, <3>2, <3>4 DEF OnWire
    <3>6. QED
      BY <3>2, <3>4, <3>5
  <2>3. CASE kind[m] \notin {"task", "wire"}
    BY <1>1, <2>3
  <2>4. QED
    BY <2>1, <2>2, <2>3
<1>3. CASE Places(m) = {}
  BY <1>3, FS_EmptySet
<1>4. CASE Places(m) # {}
  <2>1. PICK p : p \in Places(m)
    BY <1>4
  <2>2. Places(m) = {p}
    BY <1>2, <2>1
  <2>3. QED
    BY SMTT(60), <2>2, FS_Singleton
<1>5. QED
  BY <1>3, <1>4

-----------------------------------------------------------------------------
(***************************************************************************)
(* A server that one service sends requests to.                            *)
(***************************************************************************)
OneRequester == \A s, t \in Requester : s = t

Has(q, m) == \E i \in 1..Len(q) : q[i] = m
HasTask(q, m) == \E i \in 1..Len(q) : q[i].m = m

\* Some part of the two programs or of the network holds message m or its reply.
Carried(m) ==
  \/ \E s \in Caller : msg[s] = m
  \/ m \in waiting
  \/ HasTask(tasks, m)
  \/ \E k \in Conn : Has(toServer[k], m)
  \/ \E k \in Conn : Has(toClient[k], m)
  \/ \E x \in todo : x.m = m
  \/ Has(box, m)

\* Its session is one of the service it came from, and nobody waits for it or
\* the coroutine that made the call.
Own(m) ==
  m.sid # 0 =>
    /\ m.src \in Requester
    /\ m.sid <= cSid[m.src]
    /\ rpcCo[m.src][m.sid] \in {0, m.call}

OwnInv ==
  /\ \A m \in Message : Carried(m) => Own(m)
  /\ \A s \in Caller : \A n \in 1..MaxCall : n > cSid[s] => rpcCo[s][n] = 0
  /\ \A s \in Caller \ Requester : \A n \in 1..MaxCall : rpcCo[s][n] = 0

LEMMA HasAppend ==
  ASSUME NEW S, NEW q \in Seq(S), NEW e \in S, NEW m, Has(Append(q, e), m)
  PROVE  Has(q, m) \/ m = e
BY Appended DEF Has

LEMMA HasTail ==
  ASSUME NEW S, NEW q \in Seq(S), q # <<>>, NEW m, Has(Tail(q), m)
  PROVE  Has(q, m)
<1>1. /\ Len(q) \in Nat /\ Len(q) >= 1 /\ Len(Tail(q)) = Len(q) - 1
      /\ \A i \in 1..Len(q) - 1 : Tail(q)[i] = q[i + 1]
  BY Taken
<1>2. PICK i \in 1..Len(Tail(q)) : Tail(q)[i] = m
  BY DEF Has
<1>3. i + 1 \in 1..Len(q) /\ q[i + 1] = m
  BY <1>1, <1>2
<1>4. QED
  BY <1>3 DEF Has

LEMMA HasHead ==
  ASSUME NEW S, NEW q \in Seq(S), q # <<>>
  PROVE  Has(q, Head(q))
<1>1. Head(q) = q[1] /\ 1 \in 1..Len(q)
  BY Taken
<1>2. QED
  BY <1>1 DEF Has

LEMMA HasPrefix ==
  ASSUME NEW S, NEW q \in Seq(S), NEW n \in 0..Len(q), NEW m, Has(SubSeq(q, 1, n), m)
  PROVE  Has(q, m)
<1>1. /\ Len(SubSeq(q, 1, n)) = n /\ Len(q) \in Nat /\ n \in Nat
      /\ \A i \in 1..n : SubSeq(q, 1, n)[i] = q[i]
  BY Prefix
<1>2. PICK i \in 1..n : q[i] = m
  BY <1>1 DEF Has
<1>3. i \in 1..Len(q)
  BY <1>1
<1>4. QED
  BY <1>2, <1>3 DEF Has

LEMMA TaskAppend ==
  ASSUME NEW q \in Seq(Task), NEW e \in Task, NEW m, HasTask(Append(q, e), m)
  PROVE  HasTask(q, m) \/ m = e.m
BY Appended DEF HasTask

LEMMA TaskTail ==
  ASSUME NEW q \in Seq(Task), q # <<>>, NEW m, HasTask(Tail(q), m) \/ m = Head(q).m
  PROVE  HasTask(q, m)
<1>1. /\ Len(q) \in Nat /\ Len(q) >= 1 /\ Len(Tail(q)) = Len(q) - 1
      /\ \A i \in 1..Len(q) - 1 : Tail(q)[i] = q[i + 1]
      /\ Head(q) = q[1]
  BY Taken
<1>2. CASE HasTask(Tail(q), m)
  <2>1. PICK i \in 1..Len(Tail(q)) : Tail(q)[i].m = m
    BY <1>2 DEF HasTask
  <2>2. i + 1 \in 1..Len(q) /\ q[i + 1].m = m
    BY <1>1, <2>1
  <2>3. QED
    BY <2>2 DEF HasTask
<1>3. CASE m = Head(q).m
  <2>1. 1 \in 1..Len(q) /\ q[1].m = m
    BY <1>1, <1>3
  <2>2. QED
    BY <2>1 DEF HasTask
<1>4. QED
  BY <1>2, <1>3

\* What a write adds to the wire.
LEMMA WriteCarries ==
  ASSUME TypeOK, NEW k \in Conn, NEW x \in Message, Write(k, x), NEW m,
         NEW l \in Conn, Has(toServer'[l], m)
  PROVE  Has(toServer[l], m) \/ m = x
<1>1. CASE toServer' = [toServer EXCEPT ![k] = Append(toServer[k], x)]
  <2>1. toServer[k] \in Seq(Message)
    BY DEF TypeOK
  <2>2. CASE l = k
    <3>1. toServer'[l] = Append(toServer[k], x)
      BY <1>1, <2>2 DEF TypeOK
    <3>2. Has(Append(toServer[k], x), m)
      BY <3>1
    <3>3. QED
      BY <2>1, <2>2, <3>2, HasAppend
  <2>3. CASE l # k
    <3>1. toServer'[l] = toServer[l]
      BY <1>1, <2>3 DEF TypeOK
    <3>2. QED
      BY <3>1
  <2>4. QED
    BY <2>2, <2>3
<1>2. CASE toServer' = toServer
  BY <1>2
<1>3. QED
  BY <1>1, <1>2 DEF Write

\* Only a call makes a message; every other step hands on what there is.
LEMMA CarriedStep ==
  ASSUME RpcAssumption, TypeOK, ConnInv, [Next]_vars, NEW m \in Message, Carried(m)'
  PROVE  Carried(m) \/ \E s \in Caller : Call(s) /\ m = msg'[s]
<1>0. /\ msg \in [Caller -> Message \cup {None}] /\ None \notin Message
      /\ tasks \in Seq(Task) /\ box \in Seq(Message)
      /\ toServer \in [Conn -> Seq(Message)] /\ toClient \in [Conn -> Seq(Message)]
      /\ todo \subseteq Task /\ waiting \subseteq Message
  BY RpcAssumption DEF TypeOK, Task, RpcAssumption
<1>s. ASSUME UNCHANGED <<msg, waiting, tasks, toServer, toClient, todo, box>>
      PROVE  Carried(m)
  BY <1>s DEF Carried, Has, HasTask
<1>1. ASSUME NEW s \in Caller, Call(s) PROVE Carried(m) \/ m = msg'[s]
  <2>1. UNCHANGED <<waiting, tasks, toServer, toClient, todo, box>>
    BY <1>1 DEF Call, clientVars, serverVars
  <2>2. \A t \in Caller : t # s => msg'[t] = msg[t]
    BY <1>0, <1>1 DEF Call, Request, Send
  <2>3. QED
    BY <2>1, <2>2 DEF Carried, Has, HasTask
<1>2. ASSUME NEW s \in Caller, FindClient(s) \/ LockCreate(s) \/ Recheck(s) \/
             CreateClient(s) \/ InsertClient(s) \/ TestConnect(s)
      PROVE  Carried(m)
  BY <1>s, <1>2 DEF FindClient, LockCreate, Recheck, CreateClient, InsertClient, TestConnect,
                    managerVars, clientVars, serverVars
<1>3. ASSUME NEW s \in Caller, Enqueue(s) PROVE Carried(m)
  <2>1. /\ waiting' = waiting \cup {msg[s]} /\ msg' = [msg EXCEPT ![s] = None]
        /\ UNCHANGED <<tasks, toServer, toClient, todo, box>>
    BY <1>3 DEF Enqueue, serverVars
  <2>2. \A t \in Caller : msg'[t] = m => msg[t] = m
    BY <1>0, <2>1
  <2>3. QED
    BY <2>1, <2>2 DEF Carried, Has, HasTask
<1>4. ASSUME NEW s \in Caller, Direct(s) PROVE Carried(m)
  <2> DEFINE x == [conn |-> connect, m |-> msg[s]]
  <2>1. /\ tasks' = Append(tasks, x) /\ msg' = [msg EXCEPT ![s] = None]
        /\ UNCHANGED <<waiting, toServer, toClient, todo, box>>
    BY <1>4 DEF Direct, serverVars
  <2>2. x \in Task /\ x.m = msg[s]
    <3>1. msg[s] \in Message /\ connect \in Conn
      BY <1>0, <1>4 DEF Direct, ConnInv, TypeOK
    <3>2. QED
      BY <3>1 DEF Task
  <2> HIDE DEF x
  <2>3. \A t \in Caller : msg'[t] = m => msg[t] = m
    BY <1>0, <2>1
  <2>4. HasTask(tasks', m) => HasTask(tasks, m) \/ m = msg[s]
    BY <1>0, <2>1, <2>2, TaskAppend
  <2>5. QED
    BY <2>1, <2>3, <2>4 DEF Carried, Has
<1>5. ASSUME NEW s \in Caller, OnRevResponse(s) PROVE Carried(m)
  <2>1. /\ box # <<>> /\ box' = Tail(box)
        /\ UNCHANGED <<msg, waiting, tasks, toServer, toClient, todo>>
    BY <1>5 DEF OnRevResponse, managerVars, clientVars, serverVars
  <2>2. Has(box', m) => Has(box, m)
    BY <1>0, <2>1, HasTail
  <2>3. Has(box, m) => Carried(m)
    BY DEF Carried
  <2>4. QED
    BY <2>1, <2>2, <2>3 DEF Carried, HasTask
<1>6. ASSUME OnConnect \/ OnDisconnect PROVE Carried(m)
  BY <1>s, <1>6 DEF OnConnect, OnDisconnect, callerVars, managerVars,
                    clientVars, serverVars
<1>7. ASSUME SendWait PROVE Carried(m)
  <2>1. UNCHANGED <<msg, tasks, toClient, todo, box>> /\ connect \in Conn
    BY <1>7 DEF SendWait, callerVars, serverVars, ConnInv, TypeOK
  <2>2. CASE waiting = {}
    BY <1>7, <1>s, <2>1, <2>2 DEF SendWait
  <2>3. CASE waiting # {}
    <3>1. PICK x \in waiting : waiting' = waiting \ {x} /\ Write(connect, x)
      BY <1>7, <2>3 DEF SendWait
    <3>2. x \in Message
      BY <1>0
    <3>3. \A l \in Conn : Has(toServer'[l], m) => Has(toServer[l], m) \/ m = x
      BY <2>1, <3>1, <3>2, WriteCarries
    <3>4. QED
      BY <2>1, <3>1, <3>3 DEF Carried
  <2>4. QED
    BY <2>2, <2>3
<1>8. ASSUME RunTask PROVE Carried(m)
  <2>1. /\ tasks # <<>> /\ tasks' = Tail(tasks)
        /\ Write(Head(tasks).conn, Head(tasks).m)
        /\ UNCHANGED <<msg, waiting, toClient, todo, box>>
    BY <1>8 DEF RunTask, callerVars, serverVars
  <2>2. Head(tasks).conn \in Conn /\ Head(tasks).m \in Message
    <3>1. Head(tasks) \in Task
      BY <1>0, <2>1, Taken
    <3>2. QED
      BY <3>1 DEF Task
  <2>3. \A l \in Conn : Has(toServer'[l], m) => Has(toServer[l], m) \/ m = Head(tasks).m
    BY <2>1, <2>2, WriteCarries
  <2>4. HasTask(tasks', m) \/ m = Head(tasks).m => HasTask(tasks, m)
    BY <1>0, <2>1, TaskTail
  <2>5. QED
    BY <2>1, <2>3, <2>4 DEF Carried
<1>9. ASSUME OnRead PROVE Carried(m)
  <2>1. /\ conn \in Conn /\ toClient[conn] # <<>>
        /\ toClient' = [toClient EXCEPT ![conn] = Tail(toClient[conn])]
        /\ box' = Append(box, Head(toClient[conn]))
        /\ UNCHANGED <<msg, waiting, tasks, toServer, todo>>
    BY <1>9 DEF OnRead, callerVars, clientVars, serverVars, TypeOK
  <2>2. toClient[conn] \in Seq(Message)
    BY <1>0, <2>1
  <2>3. Has(box', m) => Has(box, m) \/ Has(toClient[conn], m)
    <3>1. Head(toClient[conn]) \in Message
      BY <2>1, <2>2
    <3>2. Has(box', m) => Has(box, m) \/ m = Head(toClient[conn])
      BY <1>0, <2>1, <3>1, HasAppend
    <3>3. QED
      BY <2>1, <2>2, <3>2, HasHead
  <2>4. ASSUME NEW l \in Conn, Has(toClient'[l], m) PROVE Has(toClient[l], m)
    <3>1. CASE l = conn
      <4>1. toClient'[l] = Tail(toClient[conn])
        BY <1>0, <2>1, <3>1
      <4>2. Has(Tail(toClient[conn]), m)
        BY <2>4, <4>1
      <4>3. QED
        BY <2>1, <2>2, <3>1, <4>2, HasTail
    <3>2. CASE l # conn
      <4>1. toClient'[l] = toClient[l]
        BY <1>0, <2>1, <3>2
      <4>2. QED
        BY <2>4, <4>1
    <3>3. QED
      BY <3>1, <3>2
  <2>5. QED
    BY <2>1, <2>3, <2>4 DEF Carried, HasTask
<1>10. ASSUME Break PROVE Carried(m)
  <2>1. conn \in Conn
    BY <1>10 DEF Break, ConnInv, TypeOK
  <2>2. PICK i \in 0..Len(toServer[conn]), j \in 0..Len(toClient[conn]) :
          /\ toServer' = [toServer EXCEPT ![conn] = SubSeq(toServer[conn], 1, i)]
          /\ toClient' = [toClient EXCEPT ![conn] = SubSeq(toClient[conn], 1, j)]
    BY <1>10 DEF Break
  <2>3. UNCHANGED <<msg, waiting, tasks, todo, box>>
    BY <1>10 DEF Break, callerVars, serverVars
  <2>4. toServer[conn] \in Seq(Message) /\ toClient[conn] \in Seq(Message)
    BY <1>0, <2>1
  <2>5. ASSUME NEW l \in Conn, Has(toServer'[l], m) PROVE Has(toServer[l], m)
    <3>1. CASE l = conn
      <4>1. toServer'[l] = SubSeq(toServer[conn], 1, i)
        BY <1>0, <2>2, <3>1
      <4>2. Has(SubSeq(toServer[conn], 1, i), m)
        BY <2>5, <4>1
      <4>3. QED
        BY <2>4, <3>1, <4>2, HasPrefix
    <3>2. CASE l # conn
      <4>1. toServer'[l] = toServer[l]
        BY <1>0, <2>2, <3>2
      <4>2. QED
        BY <2>5, <4>1
    <3>3. QED
      BY <3>1, <3>2
  <2>6. ASSUME NEW l \in Conn, Has(toClient'[l], m) PROVE Has(toClient[l], m)
    <3>1. CASE l = conn
      <4>1. toClient'[l] = SubSeq(toClient[conn], 1, j)
        BY <1>0, <2>2, <3>1
      <4>2. Has(SubSeq(toClient[conn], 1, j), m)
        BY <2>6, <4>1
      <4>3. QED
        BY <2>4, <3>1, <4>2, HasPrefix
    <3>2. CASE l # conn
      <4>1. toClient'[l] = toClient[l]
        BY <1>0, <2>2, <3>2
      <4>2. QED
        BY <2>6, <4>1
    <3>3. QED
      BY <3>1, <3>2
  <2>7. QED
    BY <2>3, <2>5, <2>6 DEF Carried, HasTask
<1>11. ASSUME NEW k \in Conn, ServerRead(k) PROVE Carried(m)
  <2>1. /\ toServer[k] # <<>> /\ toServer' = [toServer EXCEPT ![k] = Tail(toServer[k])]
        /\ todo' = todo \cup {[conn |-> k, m |-> Head(toServer[k])]}
        /\ UNCHANGED <<msg, waiting, tasks, toClient, box>>
    BY <1>11 DEF ServerRead, callerVars, clientVars
  <2>2. toServer[k] \in Seq(Message)
    BY <1>0
  <2>3. ASSUME NEW l \in Conn, Has(toServer'[l], m) PROVE Has(toServer[l], m)
    <3>1. CASE l = k
      <4>1. toServer'[l] = Tail(toServer[k])
        BY <1>0, <2>1, <3>1
      <4>2. Has(Tail(toServer[k]), m)
        BY <2>3, <4>1
      <4>3. QED
        BY <2>1, <2>2, <3>1, <4>2, HasTail
    <3>2. CASE l # k
      <4>1. toServer'[l] = toServer[l]
        BY <1>0, <2>1, <3>2
      <4>2. QED
        BY <2>3, <4>1
    <3>3. QED
      BY <3>1, <3>2
  <2>4. \A x \in todo' : x.m = m => x \in todo \/ Has(toServer[k], m)
    <3>1. Has(toServer[k], Head(toServer[k]))
      BY <2>1, <2>2, HasHead
    <3>2. QED
      BY <2>1, <3>1
  <2>5. QED
    BY <2>1, <2>3, <2>4 DEF Carried, HasTask
<1>12. ASSUME NEW k \in Conn, ServerInActive(k) PROVE Carried(m)
  BY <1>s, <1>12 DEF ServerInActive, callerVars, clientVars
<1>13. ASSUME NEW x \in todo, Response(x) PROVE Carried(m)
  <2>1. /\ todo' = todo \ {x}
        /\ UNCHANGED <<msg, waiting, tasks, toServer, box>>
    BY <1>13 DEF Response, callerVars, clientVars
  <2>2. ASSUME NEW l \in Conn, Has(toClient'[l], m) PROVE Has(toClient[l], m) \/ m = x.m
    <3>1. CASE toClient' = toClient
      BY <2>2, <3>1
    <3>2. CASE toClient' = [toClient EXCEPT ![conn] = Append(toClient[conn], x.m)]
      <4>1. CASE l = conn
        <5>1. toClient'[l] = Append(toClient[l], x.m)
          BY <1>0, <3>2, <4>1
        <5>2. Has(Append(toClient[l], x.m), m)
          BY <2>2, <5>1
        <5>3. toClient[l] \in Seq(Message) /\ x.m \in Message
          BY <1>0 DEF Task
        <5>4. QED
          BY <5>2, <5>3, HasAppend
      <4>2. CASE l # conn
        <5>1. toClient'[l] = toClient[l]
          BY <1>0, <3>2, <4>2
        <5>2. QED
          BY <2>2, <5>1
      <4>3. QED
        BY <4>1, <4>2
    <3>3. QED
      BY <1>13, <3>1, <3>2 DEF Response
  <2>3. QED
    BY <2>1, <2>2 DEF Carried, HasTask
<1>14. ASSUME UNCHANGED vars PROVE Carried(m)
  BY <1>s, <1>14 DEF vars, callerVars, clientVars, serverVars
<1> QED
  BY <1>1, <1>2, <1>3, <1>4, <1>5, <1>6, <1>7, <1>8, <1>9, <1>10, <1>11, <1>12, <1>13,
     <1>14 DEF Next

LEMMA OwnInit ==
  ASSUME RpcAssumption, Init
  PROVE  OwnInv
<1>1. \A m \in Message : ~Carried(m)
  BY RpcAssumption DEF Init, Carried, Has, HasTask, RpcAssumption
<1>2. QED
  BY <1>1 DEF Init, OwnInv

LEMMA OwnStep ==
  ASSUME RpcAssumption, TypeOK, ConnInv, OwnInv, [Next]_vars
  PROVE  OwnInv'
<1>0. /\ cSid \in [Caller -> 0..MaxCall] /\ calls \in [Caller -> 0..MaxCall]
      /\ rpcCo \in [Caller -> [1..MaxCall -> 0..MaxCall]]
      /\ MaxCall \in Nat /\ Requester \subseteq Caller
  BY RpcAssumption DEF TypeOK, RpcAssumption
<1>m. \A m \in Message : m.src \in Caller /\ m.sid \in 0..MaxCall /\ m.call \in 1..MaxCall
  BY DEF Message
\* Nobody calls: coroutines that wait can only be resumed.
<1>s. ASSUME \A s \in Caller : ~Call(s), UNCHANGED cSid,
             \A s \in Caller : \A n \in 1..MaxCall : rpcCo'[s][n] \in {0, rpcCo[s][n]}
      PROVE  OwnInv'
  <2>1. \A m \in Message : Carried(m)' => Carried(m)
    BY <1>s, CarriedStep
  <2>2. ASSUME NEW m \in Message, Carried(m)' PROVE Own(m)'
    <3>1. Own(m)
      BY <2>1, <2>2 DEF OwnInv
    <3>2. m.sid # 0 => m.sid \in 1..MaxCall
      BY <1>0, <1>m
    <3>3. m.sid # 0 => rpcCo'[m.src][m.sid] \in {0, rpcCo[m.src][m.sid]}
      BY <1>m, <1>s, <3>2
    <3>4. QED
      BY <1>s, <3>1, <3>3 DEF Own
  <2>3. \A s \in Caller : \A n \in 1..MaxCall : rpcCo[s][n] = 0 => rpcCo'[s][n] = 0
    BY <1>s
  <2>4. QED
    BY <1>s, <2>2, <2>3 DEF OwnInv
<1>1. ASSUME NEW s \in Caller, Call(s) PROVE OwnInv'
  <2> DEFINE x == msg'[s]
             n == cSid[s] + 1
  <2>1. /\ calls'[s] \in 1..MaxCall /\ cSid[s] \in Nat /\ n \in 1..MaxCall
    <3>1. cSid[s] <= calls[s] /\ calls[s] < MaxCall /\ calls'[s] = calls[s] + 1
      BY <1>0, <1>1 DEF Call, ConnInv
    <3>2. calls[s] \in Nat /\ cSid[s] \in Nat
      BY <1>0
    <3>3. QED
      BY <1>0, <3>1, <3>2
  <2>2. \A m \in Message : Carried(m)' => Carried(m) \/ \E t \in Caller : Call(t) /\ m = msg'[t]
    BY CarriedStep
  <2>3. ASSUME NEW t \in Caller, Call(t) PROVE t = s
    <3>1. calls' = [calls EXCEPT ![s] = @ + 1] /\ calls' = [calls EXCEPT ![t] = @ + 1]
      BY <1>1, <2>3 DEF Call
    <3>2. calls[t] \in Nat
      BY <1>0
    <3>3. QED
      BY <1>0, <3>1, <3>2
  <2>4. \A m \in Message : Carried(m)' => Carried(m) \/ m = x
    BY <2>2, <2>3
  <2>5. CASE Send(s)
    <3>1. UNCHANGED <<cSid, rpcCo>>
      BY <2>5 DEF Send
    <3>2. x.sid = 0
      BY <2>5 DEF Send, TypeOK
    <3> HIDE DEF x
    <3>3. ASSUME NEW m \in Message, Carried(m)' PROVE Own(m)'
      BY <2>4, <3>1, <3>2, <3>3 DEF Own, OwnInv
    <3>4. QED
      BY <3>1, <3>3 DEF OwnInv
  <2>6. CASE Request(s)
    <3>1. /\ s \in Requester
          /\ cSid' = [cSid EXCEPT ![s] = n]
          /\ rpcCo' = [rpcCo EXCEPT ![s][n] = calls'[s]]
      BY <2>6 DEF Request
    <3>2. x = [src |-> s, sid |-> n, call |-> calls'[s]]
      BY <2>6 DEF Request, TypeOK
    <3> HIDE DEF x, n
    <3>3. /\ cSid'[s] = n /\ rpcCo'[s][n] = calls'[s]
          /\ \A t \in Caller : t # s => cSid'[t] = cSid[t] /\ rpcCo'[t] = rpcCo[t]
          /\ \A i \in 1..MaxCall : i # n => rpcCo'[s][i] = rpcCo[s][i]
      BY <1>0, <2>1, <3>1
    <3>4. n = cSid[s] + 1
      BY DEF n
    <3>5. ASSUME NEW m \in Message, Carried(m)' PROVE Own(m)'
      <4>1. CASE m = x
        BY <3>1, <3>2, <3>3, <4>1, <2>1 DEF Own
      <4>2. CASE Carried(m)
        <5>1. Own(m)
          BY <4>2 DEF OwnInv
        <5>2. CASE m.src = s /\ m.sid # 0
          <6>1. m.sid <= cSid[s] /\ m.sid \in 1..MaxCall /\ m.sid # n
            BY <1>0, <1>m, <2>1, <3>4, <5>1, <5>2 DEF Own
          <6>2. m.sid <= n
            BY <2>1, <3>4, <6>1
          <6>3. QED
            BY <3>3, <5>1, <5>2, <6>1, <6>2 DEF Own
        <5>3. CASE m.src # s \/ m.sid = 0
          BY <1>m, <3>3, <5>1, <5>3 DEF Own
        <5>4. QED
          BY <5>2, <5>3
      <4>3. QED
        BY <2>4, <3>5, <4>1, <4>2
    <3>6. ASSUME NEW t \in Caller, NEW i \in 1..MaxCall, i > cSid'[t] PROVE rpcCo'[t][i] = 0
      <4>1. CASE t = s
        <5>1. i > cSid[s] /\ i # n
          BY <2>1, <3>3, <3>4, <3>6, <4>1
        <5>2. QED
          BY <3>3, <4>1, <5>1 DEF OwnInv
      <4>2. CASE t # s
        BY <3>3, <3>6, <4>2 DEF OwnInv
      <4>3. QED
        BY <4>1, <4>2
    <3>7. \A t \in Caller \ Requester : \A i \in 1..MaxCall : rpcCo'[t][i] = 0
      BY <3>1, <3>3 DEF OwnInv
    <3>8. QED
      BY <3>5, <3>6, <3>7 DEF OwnInv
  <2>7. QED
    BY <1>1, <2>5, <2>6 DEF Call
<1>2. CASE \A s \in Caller : ~Call(s)
  <2>1. cSid' = cSid /\ \A s \in Caller : \A n \in 1..MaxCall : rpcCo'[s][n] \in {0, rpcCo[s][n]}
    <3>0. ASSUME UNCHANGED <<cSid, rpcCo>>
          PROVE  cSid' = cSid /\ \A s \in Caller : \A n \in 1..MaxCall :
                                   rpcCo'[s][n] \in {0, rpcCo[s][n]}
      BY <3>0
    <3>1. ASSUME NEW t \in Caller, OnRevResponse(t)
          PROVE  cSid' = cSid /\ \A s \in Caller : \A n \in 1..MaxCall :
                                   rpcCo'[s][n] \in {0, rpcCo[s][n]}
      <4>1. /\ cSid' = cSid
            /\ rpcCo' = [rpcCo EXCEPT ![t] =
                 [n \in DOMAIN rpcCo[t] |-> IF n = Head(box).sid THEN 0 ELSE rpcCo[t][n]]]
        BY <3>1 DEF OnRevResponse
      <4>2. DOMAIN rpcCo[t] = 1..MaxCall
        BY <1>0
      <4>3. \A n \in 1..MaxCall : rpcCo'[t][n] \in {0, rpcCo[t][n]}
        BY <1>0, <4>1, <4>2
      <4>4. \A s \in Caller : s # t => rpcCo'[s] = rpcCo[s]
        BY <1>0, <4>1
      <4>5. QED
        BY <4>1, <4>3, <4>4
    <3>2. ASSUME NEW t \in Caller, FindClient(t) \/ LockCreate(t) \/ Recheck(t) \/
                 CreateClient(t) \/ InsertClient(t) \/ TestConnect(t) \/ Enqueue(t) \/
                 Direct(t)
          PROVE  UNCHANGED <<cSid, rpcCo>>
      BY <3>2 DEF FindClient, LockCreate, Recheck, CreateClient, InsertClient,
                  TestConnect, Enqueue, Direct
    <3>3. ASSUME \/ OnConnect \/ SendWait \/ RunTask \/ OnRead \/ Break \/ OnDisconnect
                 \/ \E k \in Conn : ServerRead(k) \/ ServerInActive(k)
                 \/ \E y \in todo : Response(y)
                 \/ UNCHANGED vars
          PROVE  UNCHANGED <<cSid, rpcCo>>
      BY <3>3 DEF OnConnect, SendWait, RunTask, OnRead, Break, OnDisconnect, ServerRead,
                  ServerInActive, Response, vars, callerVars
    <3>4. QED
      BY <1>2, <3>0, <3>1, <3>2, <3>3 DEF Next
  <2>2. QED
    BY <1>2, <1>s, <2>1
<1>3. QED
  BY <1>1, <1>2

\* A coroutine stops waiting only when the reply in front of the mailbox names its
\* session; with one service that requests, that reply is to its own call.
LEMMA ResumeStep ==
  ASSUME RpcAssumption, OneRequester, TypeOK, ConnInv, OwnInv, [Next]_vars,
         NEW s \in Caller, NEW n \in 1..MaxCall, rpcCo[s][n] # 0, rpcCo'[s][n] = 0
  PROVE  Head(box) = [src |-> s, sid |-> n, call |-> rpcCo[s][n]]
<1>0. /\ cSid \in [Caller -> 0..MaxCall] /\ calls \in [Caller -> 0..MaxCall]
      /\ rpcCo \in [Caller -> [1..MaxCall -> 0..MaxCall]]
      /\ box \in Seq(Message)
      /\ MaxCall \in Nat /\ Requester \subseteq Caller
  BY RpcAssumption DEF TypeOK, RpcAssumption
<1>1. ASSUME UNCHANGED rpcCo PROVE FALSE
  BY <1>1
<1>2. ASSUME NEW t \in Caller, Call(t) PROVE FALSE
  <2>1. calls'[t] = calls[t] + 1 /\ calls[t] \in Nat
    BY <1>0, <1>2 DEF Call
  <2>2. CASE Send(t)
    BY <1>1, <2>2 DEF Send
  <2>3. CASE Request(t)
    <3>1. rpcCo' = [rpcCo EXCEPT ![t][cSid[t] + 1] = calls'[t]]
      BY <2>3 DEF Request
    <3>2. rpcCo'[s][n] = rpcCo[s][n] \/ rpcCo'[s][n] = calls'[t]
      BY <1>0, <3>1
    <3>3. QED
      BY <2>1, <3>2
  <2>4. QED
    BY <1>2, <2>2, <2>3 DEF Call
<1>3. ASSUME NEW t \in Caller, OnRevResponse(t)
      PROVE  Head(box) = [src |-> s, sid |-> n, call |-> rpcCo[s][n]]
  <2> DEFINE m == Head(box)
  <2>1. /\ box # <<>>
        /\ rpcCo' = [rpcCo EXCEPT ![t] =
             [i \in DOMAIN rpcCo[t] |-> IF i = m.sid THEN 0 ELSE rpcCo[t][i]]]
    BY <1>3 DEF OnRevResponse
  <2>2. m \in Message /\ Has(box, m)
    BY <1>0, <2>1, HasHead
  <2> HIDE DEF m
  <2>3. t = s /\ m.sid = n
    BY <1>0, <2>1
  <2>4. Own(m)
    BY <2>2 DEF OwnInv, Carried
  <2>5. s \in Requester
    BY DEF OwnInv
  <2>6. m.src \in Requester /\ rpcCo[m.src][n] \in {0, m.call}
    BY <1>0, <2>3, <2>4 DEF Own
  <2>7. m.src = s
    BY <2>5, <2>6 DEF OneRequester
  <2>8. m.call = rpcCo[s][n]
    BY <2>6, <2>7
  <2>9. m = [src |-> m.src, sid |-> m.sid, call |-> m.call]
    BY <2>2 DEF Message
  <2>10. QED
    BY <2>3, <2>7, <2>8, <2>9 DEF m
<1>4. ASSUME NEW t \in Caller, FindClient(t) \/ LockCreate(t) \/ Recheck(t) \/
             CreateClient(t) \/ InsertClient(t) \/ TestConnect(t) \/ Enqueue(t) \/ Direct(t)
      PROVE  FALSE
  BY <1>1, <1>4 DEF FindClient, LockCreate, Recheck, CreateClient, InsertClient,
                    TestConnect, Enqueue, Direct
<1>5. ASSUME \/ OnConnect \/ SendWait \/ RunTask \/ OnRead \/ Break \/ OnDisconnect
             \/ \E k \in Conn : ServerRead(k) \/ ServerInActive(k)
             \/ \E y \in todo : Response(y)
             \/ UNCHANGED vars
      PROVE  FALSE
  BY <1>1, <1>5 DEF OnConnect, SendWait, RunTask, OnRead, Break, OnDisconnect, ServerRead,
                    ServerInActive, Response, vars, callerVars
<1>6. QED
  BY <1>2, <1>3, <1>4, <1>5 DEF Next

-----------------------------------------------------------------------------
RpcInv == TypeOK /\ ConnInv /\ ClientInv /\ KindInv

\* The types, the connection that messages go to, the one client and the place of
\* every message are kept by every step of the services, the connection's thread
\* and the other server.
THEOREM RpcInvariant == Spec => []RpcInv
<1>1. Init => RpcInv
  BY RpcAssumption, TypeInit, KindInit DEF RpcInv
<1>2. RpcInv /\ [Next]_vars => RpcInv'
  BY RpcAssumption, TypeStep, ConnStep, ClientStep, KindStep DEF RpcInv
<1>3. QED
  BY <1>1, <1>2, PTL DEF Spec

\* Every variable keeps its shape, and the creation lock of MFNetManager is held
\* by the service that is inside.
THEOREM RpcTypes == Spec => []TypeOK
<1>1. RpcInv => TypeOK
  BY DEF RpcInv
<1>2. QED
  BY <1>1, RpcInvariant, PTL

\* MFNetManager makes one client for a server, however many services ask first.
THEOREM OneClientAlways == Spec => []OneClient
<1>1. RpcInv => OneClient
  BY DEF RpcInv, ClientInv, OneClient
<1>2. QED
  BY <1>1, RpcInvariant, PTL

\* MFTcpClient loses nothing as long as the first connection holds.
THEOREM NoLossAlways == Spec => []NoLossWhileUp
<1>1. RpcInv => NoLossWhileUp
  BY DEF RpcInv, ConnInv, NoLossWhileUp
<1>2. QED
  BY <1>1, RpcInvariant, PTL

\* A message is in one place: through the queue of MFTcpClient, its loop and any
\* number of connections it is handled once or lost, and never both.
THEOREM MessageIsSingleAlways == Spec => []MessageIsSingle
<1>1. ASSUME RpcInv PROVE MessageIsSingle
  <2>1. ASSUME NEW s \in Caller, NEW sid \in 0..MaxCall, NEW n \in 1..MaxCall
        PROVE  [src |-> s, sid |-> sid, call |-> n] \in Message
    BY DEF Message
  <2>2. QED
    BY RpcAssumption, <1>1, <2>1, OnePlace DEF RpcInv, MessageIsSingle
<1>2. QED
  BY <1>1, RpcInvariant, PTL

\* With one service that requests, a coroutine is resumed with the reply to its
\* own call: the session of MFRpcClient.lua is enough to tell replies apart.
\* (With two it is not: the run rpc_misrouting.)
THEOREM ReplyIsOwnAlways ==
  ASSUME OneRequester
  PROVE  Spec => ReplyIsOwn
<1> DEFINE Resumed == \A s \in Caller, n \in 1..MaxCall :
             rpcCo[s][n] # 0 /\ rpcCo'[s][n] = 0 =>
               Head(box) = [src |-> s, sid |-> n, call |-> rpcCo[s][n]]
<1>1. Init => OwnInv
  BY RpcAssumption, OwnInit
<1>2. RpcInv /\ OwnInv /\ [Next]_vars => OwnInv'
  BY RpcAssumption, OwnStep DEF RpcInv
<1>3. RpcInv /\ OwnInv /\ [Next]_vars => [Resumed]_vars
  BY RpcAssumption, OneRequester, ResumeStep DEF RpcInv
<1> HIDE DEF Resumed
<1>4. Spec => [][Resumed]_vars
  BY <1>1, <1>2, <1>3, RpcInvariant, PTL DEF Spec
<1>5. QED
  BY <1>4 DEF Resumed, ReplyIsOwn
=============================================================================
