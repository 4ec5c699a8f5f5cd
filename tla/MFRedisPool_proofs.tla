-------------------------- MODULE MFRedisPool_proofs --------------------------
(***************************************************************************)
(* Proofs about MFRedisPool, for every number of workers and of clients,   *)
(* every size of the pool and every number of commands.                    *)
(***************************************************************************)
EXTENDS MFRedisPool, FiniteSetTheorems, SequenceTheorems, TLAPS

\* Where the I/O thread's queue comes from.
IoTask == [op : {"delete"}, client : Client] \cup {[op |-> "expire", client |-> None]}

\* TypeOK but for what PlaceInv says better: poolSize, and freed within made.
Shape ==
  /\ made \in SUBSET Client
  /\ freed \in SUBSET Client
  /\ state \in [Client -> State]
  /\ ready \in [Client -> BOOLEAN]
  /\ retry \in [Client -> BOOLEAN]
  /\ inflight \in [Client -> Request \cup {0}]
  /\ task \in [Client -> Seq(Request)]
  /\ idle \in [Client -> Nat]
  /\ ioQueue \in Seq(IoTask)
  /\ expires \in 0..MaxExpire
  /\ checked \in 0..MaxSize
  /\ pc \in [Worker \cup Client \cup {Io} -> WorkerPc \cup LoopPc \cup IoPc]
  /\ conn \in [Worker \cup {Io} -> Client \cup {None}]
  /\ request \in [Worker \cup Client -> Request \cup {0}]
  /\ sync \in SUBSET Request
  /\ calls \in 0..MaxCalls
  /\ answers \in [Request -> Nat]

\* What a worker, a loop and the I/O thread have in hand at each place.
WorkerPlace(w) ==
  /\ pc[w] \in WorkerPc
  /\ conn[w] # None <=> pc[w] = "execute"
  /\ pc[w] # "lua" => request[w] \in Request

LoopPlace(c) ==
  /\ pc[c] \in LoopPc
  /\ pc[c] = "loop" => request[c] = 0
  /\ pc[c] \in {"release", "check", "create", "answer"} => request[c] \in Request

IoPlace ==
  /\ pc[Io] \in IoPc
  /\ pc[Io] \in {"wait", "expire"} => conn[Io] = None
  /\ pc[Io] \in {"judge", "destroy"} => conn[Io] # None

LocalInv ==
  /\ \A w \in Worker : WorkerPlace(w)
  /\ \A c \in Client : LoopPlace(c)
  /\ IoPlace

\* The places of a client, told apart finer than OnePlace does.
Live == {"ready", "idle", "borrowed", "task", "inflight", "release"}
PlaceName == Live \cup {"none", "leaving", "queued", "io", "freed"}

\* place says where every client is, and the pool's variables say the same.
At(place, c) ==
  /\ c \in made <=> place[c] # "none"
  /\ c \in freed <=> place[c] = "freed"
  /\ ready[c] <=> place[c] = "ready"
  /\ idle[c] = IF place[c] = "idle" THEN 1 ELSE 0
  /\ IF place[c] = "task" THEN Len(task[c]) = 1 ELSE task[c] = <<>>
  /\ inflight[c] # 0 <=> place[c] = "inflight"
  /\ pc[c] = "release" <=> place[c] = "release"
  /\ pc[c] \in {"check", "create", "delete"} <=> place[c] = "leaving"
  /\ place[c] \in {"none", "freed"} => pc[c] = "loop"

Lent(place) ==
  /\ \A w \in Worker : conn[w] # None => place[conn[w]] = "borrowed"
  /\ \A c \in Client : place[c] = "borrowed" => \E w \in Worker : conn[w] = c
  /\ \A v, w \in Worker : conn[w] # None /\ conn[v] = conn[w] => v = w

Queued(place) ==
  /\ \A i \in 1..Len(ioQueue) :
       ioQueue[i].client # None => place[ioQueue[i].client] = "queued"
  /\ \A c \in Client :
       place[c] = "queued" => \E i \in 1..Len(ioQueue) : ioQueue[i].client = c
  /\ \A i, j \in 1..Len(ioQueue) :
       ioQueue[i].client # None /\ ioQueue[j].client = ioQueue[i].client => i = j

Examined(place) ==
  /\ conn[Io] # None => place[conn[Io]] = "io"
  /\ \A c \in Client : place[c] = "io" => conn[Io] = c

LiveOnes(place) == {c \in Client : place[c] \in Live}
Expiring == IF pc[Io] \in {"judge", "count"} THEN 1 ELSE 0
Sized(place) == poolSize = Cardinality(LiveOnes(place)) + Expiring

PlaceIs(place) ==
  /\ place \in [Client -> PlaceName]
  /\ \A c \in Client : At(place, c)
  /\ Lent(place)
  /\ Queued(place)
  /\ Examined(place)
  /\ Sized(place)

PlaceInv == \E place \in [Client -> PlaceName] : PlaceIs(place)

-----------------------------------------------------------------------------
\* How many live clients a move changes.
LEMMA LiveMove ==
  ASSUME RedisAssumption, NEW place \in [Client -> PlaceName], NEW c \in Client,
         NEW k \in PlaceName
  PROVE  LET q == [place EXCEPT ![c] = k] IN
         /\ Cardinality(LiveOnes(place)) \in Nat
         /\ (place[c] \in Live) = (k \in Live)
              => Cardinality(LiveOnes(q)) = Cardinality(LiveOnes(place))
         /\ place[c] \in Live /\ k \notin Live
              => Cardinality(LiveOnes(q)) = Cardinality(LiveOnes(place)) - 1
         /\ place[c] \notin Live /\ k \in Live
              => Cardinality(LiveOnes(q)) = Cardinality(LiveOnes(place)) + 1
<1> DEFINE q == [place EXCEPT ![c] = k]
<1>1. IsFiniteSet(LiveOnes(place))
  BY FS_Subset DEF RedisAssumption, LiveOnes
<1>2. Cardinality(LiveOnes(place)) \in Nat
  BY <1>1, FS_CardinalityType
<1>3. (place[c] \in Live) = (k \in Live) => LiveOnes(q) = LiveOnes(place)
  BY DEF LiveOnes
<1>4. place[c] \in Live /\ k \notin Live
        => LiveOnes(q) = LiveOnes(place) \ {c} /\ c \in LiveOnes(place)
  BY DEF LiveOnes
<1>5. place[c] \notin Live /\ k \in Live
        => LiveOnes(q) = LiveOnes(place) \cup {c} /\ c \notin LiveOnes(place)
  BY DEF LiveOnes
<1>6. c \in LiveOnes(place)
        => Cardinality(LiveOnes(place) \ {c}) = Cardinality(LiveOnes(place)) - 1
  BY <1>1, FS_RemoveElement
<1>7. c \notin LiveOnes(place)
        => Cardinality(LiveOnes(place) \cup {c}) = Cardinality(LiveOnes(place)) + 1
  BY <1>1, FS_AddElement
<1> HIDE DEF q
<1>8. QED
  BY <1>2, <1>3, <1>4, <1>5, <1>6, <1>7 DEF q

\* What an action leaves alone of a client.
Same(d) ==
  /\ d \in made' <=> d \in made
  /\ d \in freed' <=> d \in freed
  /\ ready'[d] = ready[d] /\ idle'[d] = idle[d] /\ task'[d] = task[d]
  /\ inflight'[d] = inflight[d]
  /\ pc'[d] = pc[d] \/ {pc[d], pc'[d]} \subseteq {"check", "create", "delete"}
       \/ (pc[d] = "answer" /\ pc'[d] = "loop")

LEMMA AtSame ==
  ASSUME NEW place \in [Client -> PlaceName], NEW c \in Client, NEW k \in PlaceName,
         NEW d \in Client, d # c, At(place, d), Same(d)
  PROVE  At([place EXCEPT ![c] = k], d)'
BY DEF At, Same

LEMMA AtStays ==
  ASSUME NEW place \in [Client -> PlaceName], NEW d \in Client, At(place, d), Same(d)
  PROVE  At(place, d)'
BY DEF At, Same

\* A move that has nothing to do with borrowing, the queue, the I/O thread.
LEMMA LentSame ==
  ASSUME Shape, NEW place \in [Client -> PlaceName], NEW c \in Client,
         NEW k \in PlaceName, Lent(place), \A w \in Worker : conn'[w] = conn[w],
         place[c] # "borrowed", k # "borrowed"
  PROVE  Lent([place EXCEPT ![c] = k])'
<1>1. \A w \in Worker : conn[w] \in Client \cup {None}
  BY DEF Shape
<1>2. QED
  BY <1>1 DEF Lent

LEMMA QueuedSame ==
  ASSUME Shape, RedisAssumption, NEW place \in [Client -> PlaceName], NEW c \in Client,
         NEW k \in PlaceName, Queued(place), ioQueue' = ioQueue,
         place[c] # "queued", k # "queued"
  PROVE  Queued([place EXCEPT ![c] = k])'
<1>1. \A i \in 1..Len(ioQueue) : ioQueue[i].client \in Client \cup {None}
  BY DEF Shape, IoTask
<1>2. QED
  BY <1>1 DEF Queued

LEMMA ExaminedSame ==
  ASSUME Shape, NEW place \in [Client -> PlaceName], NEW c \in Client,
         NEW k \in PlaceName, Examined(place), conn'[Io] = conn[Io],
         place[c] # "io", k # "io"
  PROVE  Examined([place EXCEPT ![c] = k])'
<1>1. conn[Io] \in Client \cup {None}
  BY DEF Shape
<1>2. QED
  BY <1>1 DEF Examined

\* An action that moves nothing.
LEMMA PlaceStays ==
  ASSUME NEW place, PlaceIs(place), \A d \in Client : Same(d),
         \A w \in Worker : conn'[w] = conn[w], ioQueue' = ioQueue,
         conn'[Io] = conn[Io], poolSize' = poolSize, Expiring' = Expiring
  PROVE  PlaceIs(place)'
<1>1. place \in [Client -> PlaceName] /\ \A d \in Client : At(place, d)
  BY DEF PlaceIs
<1>2. \A d \in Client : At(place, d)'
  BY <1>1, AtStays
<1>3. Lent(place)' /\ Queued(place)' /\ Examined(place)' /\ Sized(place)'
  BY DEF PlaceIs, Lent, Queued, Examined, Sized, LiveOnes
<1>4. QED
  BY <1>1, <1>2, <1>3 DEF PlaceIs

-----------------------------------------------------------------------------
\* The processes are different.
LEMMA Distinct ==
  ASSUME RedisAssumption
  PROVE  /\ \A w \in Worker : w # Io /\ w \notin Client
         /\ \A c \in Client : c # Io /\ c \notin Worker /\ c # None
BY DEF RedisAssumption

LEMMA CountUp ==
  ASSUME NEW f \in [Client -> Nat], NEW c \in Client
  PROVE  [f EXCEPT ![c] = @ + 1] \in [Client -> Nat]
OBVIOUS

LEMMA Connects ==
  ASSUME NEW c \in Client, idle \in [Client -> Nat], BecomeConnected(c)
  PROVE  idle' \in [Client -> Nat]
<1>1. CASE ready[c]
  BY <1>1, CountUp DEF BecomeConnected
<1>2. CASE ~ready[c]
  BY <1>2 DEF BecomeConnected
<1>3. QED
  BY <1>1, <1>2

LEMMA ExceptTyped ==
  ASSUME NEW D, NEW R, NEW f \in [D -> R], NEW x, NEW y \in R
  PROVE  [f EXCEPT ![x] = y] \in [D -> R]
OBVIOUS

LEMMA GotoTyped ==
  ASSUME NEW D, NEW R, pc \in [D -> R], NEW p, NEW place \in R, Goto(p, place)
  PROVE  pc' \in [D -> R]
BY DEF Goto

\* The step that every connect makes, whatever it does to the pool.
LEMMA ConnectTyped ==
  ASSUME Shape, NEW c \in Client, OnConnect(c) \/ AuthOk(c),
         idle' \in [Client -> Nat]
  PROVE  Shape'
<1>1. \E s \in State : state' = [state EXCEPT ![c] = s]
  BY DEF OnConnect, AuthOk, BecomeConnected, State
<1>2. ready' = ready \/ ready' = [ready EXCEPT ![c] = FALSE]
  BY DEF OnConnect, AuthOk, BecomeConnected
<1>3. retry' = retry \/ retry' = [retry EXCEPT ![c] = FALSE]
  BY DEF OnConnect, AuthOk
<1>4. UNCHANGED <<made, freed, inflight, task, ioQueue, expires, checked, sync, calls,
                  answers, pc, conn, request>>
  BY DEF OnConnect, AuthOk, ioVars, callVars
<1>5. state' \in [Client -> State]
  BY <1>1, ExceptTyped DEF Shape
<1>6. ready' \in [Client -> BOOLEAN] /\ retry' \in [Client -> BOOLEAN]
  BY <1>2, <1>3 DEF Shape
<1>7. QED
  BY <1>4, <1>5, <1>6 DEF Shape

LEMMA ShapeInit ==
  ASSUME RedisAssumption, Init
  PROVE  Shape /\ LocalInv
<1>1. Shape
  BY DEF RedisAssumption, Init, Shape, Request, State, WorkerPc, LoopPc, IoPc, IoTask
<1>2. LocalInv
  BY Distinct DEF Init, LocalInv, WorkerPlace, LoopPlace, IoPlace, WorkerPc, LoopPc, IoPc
<1>3. QED
  BY <1>1, <1>2

\* Every step keeps the shapes, and each process at a place of its own.
LEMMA ShapeStep ==
  ASSUME RedisAssumption, Shape, LocalInv, [Next]_vars
  PROVE  Shape'
<1> USE DEF Shape
<1>1. ASSUME NEW p \in Worker \cup Client, CheckRoom(p) PROVE Shape'
  BY <1>1 DEF CheckRoom, Goto, AfterCreate, clientVars, poolVars, ioVars, callVars,
              WorkerPc, LoopPc
<1>2. ASSUME NEW p \in Worker \cup Client, NEW c \in Client, Create(p, c) PROVE Shape'
  BY <1>2 DEF Create, Goto, AfterCreate, ioVars, callVars, WorkerPc, LoopPc, State
<1>3. ASSUME NEW w \in Worker, Start(w) PROVE Shape'
  BY <1>3, RedisAssumption
     DEF Start, Goto, clientVars, poolVars, ioVars, WorkerPc, Request, RedisAssumption
<1>4. ASSUME NEW p \in Worker \cup {Io}, NEW c \in Client, TakeIdle(p, c)
      PROVE  idle' \in [Client -> Nat] /\ conn' \in [Worker \cup {Io} -> Client \cup {None}]
  BY <1>4 DEF TakeIdle
<1>5. ASSUME NEW w \in Worker, TryDequeue(w) PROVE Shape'
  BY <1>5, <1>4 DEF TryDequeue, Goto, clientVars, ioVars, callVars, WorkerPc
<1>6. ASSUME NEW w \in Worker, WaitDequeue(w) PROVE Shape'
  BY <1>6, <1>4 DEF WaitDequeue, Goto, clientVars, ioVars, callVars, WorkerPc
<1>7. ASSUME NEW w \in Worker, Execute(w) PROVE Shape'
  <2>1. conn[w] \in Client /\ request[w] \in Request
    BY <1>7 DEF Execute, LocalInv, WorkerPlace
  <2>2. Append(task[conn[w]], request[w]) \in Seq(Request)
    BY <2>1
  <2>3. task' \in [Client -> Seq(Request)]
    BY <1>7, <2>1, <2>2 DEF Execute
  <2>4. QED
    BY <1>7, <2>3 DEF Execute, Goto, poolVars, ioVars, callVars, WorkerPc
<1>8. ASSUME NEW w \in Worker, WaitFor(w) PROVE Shape'
  BY <1>8 DEF WaitFor, Goto, clientVars, poolVars, ioVars, callVars, WorkerPc
<1>9. ASSUME NEW c \in Client, NEW r \in Request, BeginAnswer(c, r)
      PROVE  /\ request' \in [Worker \cup Client -> Request \cup {0}]
             /\ answers' \in [Request -> Nat]
             /\ pc' \in [Worker \cup Client \cup {Io} -> WorkerPc \cup LoopPc \cup IoPc]
  BY <1>9 DEF BeginAnswer, Goto, LoopPc
<1>10. ASSUME NEW c \in Client, RunExecute(c) PROVE Shape'
  <2>1. Head(task[c]) \in Request /\ Tail(task[c]) \in Seq(Request)
    BY <1>10 DEF RunExecute
  <2>2. task' \in [Client -> Seq(Request)]
    BY <1>10, <2>1 DEF RunExecute
  <2>3. inflight' \in [Client -> Request \cup {0}]
    <3>1. inflight' = inflight \/ inflight' = [inflight EXCEPT ![c] = Head(task[c])]
      BY <1>10 DEF RunExecute
    <3>2. inflight \in [Client -> Request \cup {0}]
      OBVIOUS
    <3> HIDE DEF Shape
    <3>3. QED
      BY <2>1, <3>1, <3>2
  <2>4. /\ request' \in [Worker \cup Client -> Request \cup {0}]
        /\ answers' \in [Request -> Nat]
        /\ pc' \in [Worker \cup Client \cup {Io} -> WorkerPc \cup LoopPc \cup IoPc]
    BY <1>10, <1>9, <2>1 DEF RunExecute
  <2>5. QED
    BY <1>10, <2>2, <2>3, <2>4 DEF RunExecute, poolVars, ioVars
<1>11. ASSUME NEW c \in Client, Reply(c) PROVE Shape'
  <2>1. inflight[c] \in Request
    BY <1>11 DEF Reply
  <2>2. QED
    BY <1>11, <1>9, <2>1 DEF Reply, poolVars, ioVars
<1>12. ASSUME NEW c \in Client, OnConnect(c) PROVE Shape'
  <2>1. CASE Password
    <3>1. idle' \in [Client -> Nat]
      BY <1>12, <2>1 DEF OnConnect
    <3>2. QED
      BY <1>12, <3>1, ConnectTyped
  <2>2. CASE ~Password
    <3>1. idle' \in [Client -> Nat]
      BY <1>12, <2>2, Connects DEF OnConnect
    <3>2. QED
      BY <1>12, <3>1, ConnectTyped
  <2>3. QED
    BY <2>1, <2>2
<1>13. ASSUME NEW c \in Client, AuthOk(c) PROVE Shape'
  <2>1. idle' \in [Client -> Nat]
    BY <1>13, Connects DEF AuthOk
  <2>2. QED
    BY <1>13, <2>1, ConnectTyped
<1>14. ASSUME NEW c \in Client, NEW again \in BOOLEAN, BecomeDisconnected(c, again)
       PROVE  Shape'
  <2>1. /\ request' \in [Worker \cup Client -> Request \cup {0}]
        /\ answers' \in [Request -> Nat]
        /\ pc' \in [Worker \cup Client \cup {Io} -> WorkerPc \cup LoopPc \cup IoPc]
    <3>1. CASE inflight[c] # 0
      BY <1>14, <1>9, <3>1 DEF BecomeDisconnected
    <3>2. CASE inflight[c] = 0
      <4>1. UNCHANGED <<request, answers>> /\ (pc' = pc \/ Goto(c, "delete"))
        BY <1>14, <3>2 DEF BecomeDisconnected
      <4>2. "delete" \in WorkerPc \cup LoopPc \cup IoPc
        BY DEF LoopPc
      <4>3. pc' \in [Worker \cup Client \cup {Io} -> WorkerPc \cup LoopPc \cup IoPc]
        <5>1. CASE pc' = pc
          BY <5>1
        <5>2. CASE Goto(c, "delete")
          BY <4>2, <5>2, GotoTyped
        <5>3. QED
          BY <4>1, <5>1, <5>2
      <4>4. QED
        BY <4>1, <4>3
    <3>3. QED
      BY <3>1, <3>2
  <2>2. QED
    BY <1>14, <2>1 DEF BecomeDisconnected, ioVars, State
<1>15. ASSUME NEW c \in Client, ReconnectError(c) PROVE Shape'
  BY <1>15 DEF ReconnectError, poolVars, ioVars, callVars
<1>16. ASSUME NEW c \in Client, Release(c) PROVE Shape'
  <2>1. /\ idle' \in [Client -> Nat]
        /\ pc' \in [Worker \cup Client \cup {Io} -> WorkerPc \cup LoopPc \cup IoPc]
    <3>0. "answer" \in WorkerPc \cup LoopPc \cup IoPc
          /\ "check" \in WorkerPc \cup LoopPc \cup IoPc
      BY DEF LoopPc
    <3>5. Goto(c, "answer") \/ Goto(c, "check")
      BY <1>16 DEF Release
    <3>4. pc' \in [Worker \cup Client \cup {Io} -> WorkerPc \cup LoopPc \cup IoPc]
      <4>1. ASSUME NEW k \in {"answer", "check"}, Goto(c, k)
            PROVE  pc' \in [Worker \cup Client \cup {Io} -> WorkerPc \cup LoopPc \cup IoPc]
        <5>1. k \in WorkerPc \cup LoopPc \cup IoPc
          BY <3>0, <4>1
        <5>2. pc \in [Worker \cup Client \cup {Io} -> WorkerPc \cup LoopPc \cup IoPc]
          OBVIOUS
        <5> HIDE DEF Shape
        <5>3. QED
          BY <4>1, <5>1, <5>2, GotoTyped
      <4>2. QED
        BY <3>5, <4>1
    <3>1. CASE state[c] = "Connected" /\ inflight[c] = 0
      <4>1. idle' = [idle EXCEPT ![c] = @ + 1]
        BY <1>16, <3>1 DEF Release
      <4>2. idle' \in [Client -> Nat]
        BY <4>1, CountUp
      <4>3. QED
        BY <3>4, <4>2
    <3>2. CASE ~(state[c] = "Connected" /\ inflight[c] = 0)
      BY <1>16, <3>2, <3>4 DEF Release
    <3>3. QED
      BY <3>1, <3>2
  <2>2. QED
    BY <1>16, <2>1 DEF Release, clientVars, ioVars, callVars
<1>17. ASSUME NEW c \in Client, Delete(c) PROVE Shape'
  <2>1. ioQueue' \in Seq(IoTask)
    BY <1>17 DEF Delete, IoTask
  <2>2. QED
    BY <1>17, <2>1 DEF Delete, Goto, clientVars, poolVars, callVars, LoopPc
<1>18. ASSUME NEW c \in Client, Answer(c) PROVE Shape'
  <2>1. request[c] \in Request
    BY <1>18 DEF Answer, LocalInv, LoopPlace
  <2>2. answers' \in [Request -> Nat]
    BY <1>18, <2>1 DEF Answer
  <2>3. QED
    BY <1>18, <2>2 DEF Answer, Goto, clientVars, poolVars, ioVars, LoopPc
<1>19. ASSUME Timer PROVE Shape'
  <2>1. ioQueue' \in Seq(IoTask)
    BY <1>19 DEF Timer, IoTask
  <2>2. QED
    BY <1>19, <2>1, RedisAssumption
       DEF Timer, clientVars, poolVars, callVars, RedisAssumption
<1>20. ASSUME IoTake PROVE Shape'
  <2>1. Head(ioQueue) \in IoTask /\ Tail(ioQueue) \in Seq(IoTask)
    BY <1>20 DEF IoTake
  <2>2. Head(ioQueue).client \in Client \cup {None}
    BY <2>1 DEF IoTask
  <2>3. ioQueue' \in Seq(IoTask) /\ conn' \in [Worker \cup {Io} -> Client \cup {None}]
    BY <1>20, <2>1, <2>2 DEF IoTake
  <2>4. QED
    BY <1>20, <2>3, RedisAssumption
       DEF IoTake, Goto, clientVars, poolVars, callVars, IoPc, RedisAssumption
<1>21. ASSUME ExpireNext PROVE Shape'
  <2>1. CASE checked < MaxSize /\ poolSize > MinSize /\ \E c \in Client : idle[c] > 0
    <3>1. idle' \in [Client -> Nat] /\ conn' \in [Worker \cup {Io} -> Client \cup {None}]
      BY <1>21, <1>4, <2>1 DEF ExpireNext
    <3>2. checked' \in 0..MaxSize
      BY <1>21, <2>1 DEF ExpireNext, RedisAssumption
    <3>3. QED
      BY SMTT(60), <1>21, <2>1, <3>1, <3>2 DEF ExpireNext, Goto, clientVars, callVars, IoPc
  <2>2. CASE ~(checked < MaxSize /\ poolSize > MinSize /\ \E c \in Client : idle[c] > 0)
    BY <1>21, <2>2 DEF ExpireNext, Goto, clientVars, callVars, IoPc
  <2>3. QED
    BY <2>1, <2>2
<1>22. ASSUME KeepIdle PROVE Shape'
  <2>1. conn[Io] \in Client
    BY <1>22 DEF KeepIdle, LocalInv, IoPlace
  <2>2. QED
    BY <1>22, <2>1 DEF KeepIdle, Goto, clientVars, ioVars, callVars, IoPc
<1>23. ASSUME Expired PROVE Shape'
  BY <1>23 DEF Expired, Goto, clientVars, poolVars, ioVars, callVars, IoPc
<1>24. ASSUME Destroy PROVE Shape'
  <2>1. conn[Io] \in Client
    BY <1>24 DEF Destroy, LocalInv, IoPlace
  <2>2. QED
    BY <1>24, <2>1 DEF Destroy, Free, Goto, poolVars, ioVars, callVars, IoPc, State
<1>25. ASSUME DestroyExpired PROVE Shape'
  BY <1>25 DEF DestroyExpired, Free, poolVars, ioVars, callVars, State
<1>26. ASSUME CountExpired PROVE Shape'
  BY <1>26 DEF CountExpired, Goto, clientVars, ioVars, callVars, IoPc
<1>27. ASSUME UNCHANGED vars PROVE Shape'
  BY <1>27 DEF vars, clientVars, poolVars, ioVars, callVars
<1> QED
  BY <1>1, <1>2, <1>3, <1>5, <1>6, <1>7, <1>8, <1>10, <1>11, <1>12, <1>13, <1>14,
     <1>15, <1>16, <1>17, <1>18, <1>19, <1>20, <1>21, <1>22, <1>23, <1>24, <1>25,
     <1>26, <1>27
     DEF Next, WorkerStep, LoopStep, NetworkStep, IoStep, ConnectError, OnDisconnect,
         Disconnect

LEMMA LocalStep ==
  ASSUME RedisAssumption, Shape, LocalInv, [Next]_vars
  PROVE  LocalInv'
<1> USE Distinct DEF LocalInv
<1> DEFINE Proc == Worker \cup Client \cup {Io}
<1>0. /\ pc \in [Proc -> WorkerPc \cup LoopPc \cup IoPc]
      /\ conn \in [Worker \cup {Io} -> Client \cup {None}]
      /\ request \in [Worker \cup Client -> Request \cup {0}]
  BY DEF Shape
\* What others do not see of a step of p.
<1> DEFINE Others(p) == /\ \A o \in Proc \ {p} : pc'[o] = pc[o]
                        /\ \A o \in (Worker \cup {Io}) \ {p} : conn'[o] = conn[o]
                        /\ \A o \in (Worker \cup Client) \ {p} : request'[o] = request[o]
<1>a. ASSUME NEW w \in Worker, Others(w), WorkerPlace(w)' PROVE LocalInv'
  BY <1>a DEF WorkerPlace, LoopPlace, IoPlace
<1>b. ASSUME NEW c \in Client, Others(c), LoopPlace(c)' PROVE LocalInv'
  BY <1>b DEF WorkerPlace, LoopPlace, IoPlace
<1>c. ASSUME Others(Io), IoPlace' PROVE LocalInv'
  BY <1>c DEF WorkerPlace, LoopPlace, IoPlace
<1>d. ASSUME UNCHANGED <<pc, conn, request>> PROVE LocalInv'
  BY <1>d DEF WorkerPlace, LoopPlace, IoPlace
<1> USE <1>0
<1>1. ASSUME NEW p \in Worker \cup Client, CheckRoom(p) PROVE LocalInv'
  <2>1. Others(p)
    BY <1>1 DEF CheckRoom, Goto
  <2>2. pc'[p] \in {AfterCreate(p), "create"}
    BY <1>1 DEF CheckRoom, Goto
  <2>3. CASE p \in Worker
    <3>1. WorkerPlace(p)'
      BY <1>1, <2>2, <2>3 DEF CheckRoom, AfterCreate, WorkerPlace, WorkerPc
    <3>2. QED
      BY <3>1, <2>1, <2>3, <1>a
  <2>4. CASE p \in Client
    <3>1. LoopPlace(p)'
      BY <1>1, <2>2, <2>4 DEF CheckRoom, AfterCreate, LoopPlace, LoopPc
    <3>2. QED
      BY <3>1, <2>1, <2>4, <1>b
  <2>5. QED
    BY <2>3, <2>4
<1>2. ASSUME NEW p \in Worker \cup Client, NEW c \in Client, Create(p, c) PROVE LocalInv'
  <2>1. Others(p)
    BY <1>2 DEF Create, Goto
  <2>2. pc'[p] = AfterCreate(p)
    BY <1>2 DEF Create, Goto
  <2>3. CASE p \in Worker
    <3>1. WorkerPlace(p)'
      BY <1>2, <2>2, <2>3 DEF Create, AfterCreate, WorkerPlace, WorkerPc
    <3>2. QED
      BY <3>1, <2>1, <2>3, <1>a
  <2>4. CASE p \in Client
    <3>1. LoopPlace(p)'
      BY <1>2, <2>2, <2>4 DEF Create, AfterCreate, LoopPlace, LoopPc
    <3>2. QED
      BY <3>1, <2>1, <2>4, <1>b
  <2>5. QED
    BY <2>3, <2>4
<1>3. ASSUME NEW w \in Worker, Start(w) PROVE LocalInv'
  <2>1. Others(w)
    BY <1>3 DEF Start, Goto
  <2>2. calls + 1 \in Request
    BY <1>3, RedisAssumption DEF Start, Shape, Request, RedisAssumption
  <2>3. WorkerPlace(w)'
    BY <1>3, <2>2 DEF Start, Goto, WorkerPlace, WorkerPc
  <2>4. QED
    BY <2>1, <2>3, <1>a
<1>4. ASSUME NEW w \in Worker, NEW c \in Client, TakeIdle(w, c), Goto(w, "execute"),
             pc[w] # "lua", UNCHANGED request
      PROVE  LocalInv'
  <2>1. Others(w)
    BY <1>4 DEF TakeIdle, Goto
  <2>2. WorkerPlace(w)'
    BY <1>4 DEF TakeIdle, Goto, WorkerPlace, WorkerPc
  <2>3. QED
    BY <2>1, <2>2, <1>a
<1>5. ASSUME NEW w \in Worker, TryDequeue(w) PROVE LocalInv'
  <2>1. CASE \E c \in Client : TakeIdle(w, c) /\ Goto(w, "execute")
    BY <1>4, <1>5, <2>1 DEF TryDequeue
  <2>2. CASE Goto(w, "check") /\ UNCHANGED conn
    <3>1. Others(w)
      BY <1>5, <2>2 DEF TryDequeue, Goto
    <3>2. WorkerPlace(w)'
      BY <1>5, <2>2 DEF TryDequeue, Goto, WorkerPlace, WorkerPc
    <3>3. QED
      BY <3>1, <3>2, <1>a
  <2>3. QED
    BY <1>5, <2>1, <2>2 DEF TryDequeue
<1>6. ASSUME NEW w \in Worker, WaitDequeue(w) PROVE LocalInv'
  BY <1>4, <1>6 DEF WaitDequeue
<1>7. ASSUME NEW w \in Worker, Execute(w) PROVE LocalInv'
  <2>1. Others(w)
    BY <1>7 DEF Execute, Goto
  <2>2. WorkerPlace(w)'
    BY <1>7 DEF Execute, Goto, WorkerPlace, WorkerPc
  <2>3. QED
    BY <2>1, <2>2, <1>a
<1>8. ASSUME NEW w \in Worker, WaitFor(w) PROVE LocalInv'
  <2>1. Others(w)
    BY <1>8 DEF WaitFor, Goto
  <2>2. WorkerPlace(w)'
    BY <1>8 DEF WaitFor, Goto, WorkerPlace, WorkerPc
  <2>3. QED
    BY <2>1, <2>2, <1>a
<1>9. ASSUME NEW c \in Client, NEW r \in Request, BeginAnswer(c, r), UNCHANGED conn
      PROVE  LocalInv'
  <2>1. Others(c)
    BY <1>9 DEF BeginAnswer, Goto
  <2>2. LoopPlace(c)'
    BY <1>9 DEF BeginAnswer, Goto, LoopPlace, LoopPc
  <2>3. QED
    BY <2>1, <2>2, <1>b
<1>10. ASSUME NEW c \in Client, RunExecute(c) PROVE LocalInv'
  <2>1. Head(task[c]) \in Request
    BY <1>10 DEF RunExecute, Shape
  <2>2. QED
    BY <1>9, <1>10, <1>d, <2>1 DEF RunExecute
<1>11. ASSUME NEW c \in Client, Reply(c) PROVE LocalInv'
  <2>1. inflight[c] \in Request
    BY <1>11 DEF Reply, Shape
  <2>2. QED
    BY <1>9, <1>11, <2>1 DEF Reply
<1>12. ASSUME NEW c \in Client, OnConnect(c) \/ AuthOk(c) \/ ReconnectError(c)
       PROVE  LocalInv'
  BY <1>12, <1>d DEF OnConnect, AuthOk, ReconnectError
<1>13. ASSUME NEW c \in Client, NEW again \in BOOLEAN, Looping(c),
              BecomeDisconnected(c, again)
       PROVE  LocalInv'
  <2>1. CASE inflight[c] # 0
    <3>1. inflight[c] \in Request
      BY <2>1 DEF Shape
    <3>2. QED
      BY <1>9, <1>13, <2>1, <3>1 DEF BecomeDisconnected
  <2>2. CASE inflight[c] = 0 /\ ready[c]
    <3>1. Others(c)
      BY <1>13, <2>2 DEF BecomeDisconnected, Goto
    <3>2. LoopPlace(c)'
      BY <1>13, <2>2 DEF BecomeDisconnected, Goto, LoopPlace, LoopPc
    <3>3. QED
      BY <3>1, <3>2, <1>b
  <2>3. CASE inflight[c] = 0 /\ ~ready[c]
    BY <1>13, <2>3, <1>d DEF BecomeDisconnected
  <2>4. QED
    BY <2>1, <2>2, <2>3
<1>14. ASSUME NEW c \in Client, Release(c) PROVE LocalInv'
  <2>1. Others(c)
    BY <1>14 DEF Release, Goto
  <2>2. LoopPlace(c)'
    BY <1>14 DEF Release, Goto, LoopPlace, LoopPc
  <2>3. QED
    BY <2>1, <2>2, <1>b
<1>15. ASSUME NEW c \in Client, Delete(c) PROVE LocalInv'
  <2>1. Others(c)
    BY <1>15 DEF Delete, Goto
  <2>2. LoopPlace(c)'
    BY <1>15 DEF Delete, Goto, LoopPlace, LoopPc
  <2>3. QED
    BY <2>1, <2>2, <1>b
<1>16. ASSUME NEW c \in Client, Answer(c) PROVE LocalInv'
  <2>1. Others(c)
    BY <1>16 DEF Answer, Goto
  <2>2. LoopPlace(c)'
    BY <1>16 DEF Answer, Goto, LoopPlace, LoopPc
  <2>3. QED
    BY <2>1, <2>2, <1>b
<1>17. ASSUME Timer PROVE LocalInv'
  BY <1>17, <1>d DEF Timer
<1>18. ASSUME IoTake PROVE LocalInv'
  <2>1. Others(Io)
    BY <1>18 DEF IoTake, Goto
  <2>2. Head(ioQueue) \in IoTask
    BY <1>18 DEF IoTake, Shape
  <2>3. IoPlace'
    BY <1>18, <2>2 DEF IoTake, Goto, IoPlace, IoPc, IoTask
  <2>4. QED
    BY <2>1, <2>3, <1>c
<1>19. ASSUME ExpireNext PROVE LocalInv'
  <2>1. Others(Io)
    BY <1>19 DEF ExpireNext, TakeIdle, Goto
  <2>2. IoPlace'
    BY <1>19 DEF ExpireNext, TakeIdle, Goto, IoPlace, IoPc
  <2>3. QED
    BY <2>1, <2>2, <1>c
<1>20. ASSUME KeepIdle \/ Expired \/ CountExpired PROVE LocalInv'
  <2>1. Others(Io)
    BY <1>20 DEF KeepIdle, Expired, CountExpired, Goto
  <2>2. IoPlace'
    BY <1>20 DEF KeepIdle, Expired, CountExpired, Goto, IoPlace, IoPc
  <2>3. QED
    BY <2>1, <2>2, <1>c
<1>21. ASSUME Destroy \/ DestroyExpired PROVE LocalInv'
  <2>1. Others(Io)
    BY <1>21 DEF Destroy, DestroyExpired, Free, Goto
  <2>2. IoPlace'
    BY <1>21 DEF Destroy, DestroyExpired, Free, Goto, IoPlace, IoPc
  <2>3. QED
    BY <2>1, <2>2, <1>c
<1>22. ASSUME UNCHANGED vars PROVE LocalInv'
  BY <1>22, <1>d DEF vars
<1> QED
  BY <1>1, <1>2, <1>3, <1>5, <1>6, <1>7, <1>8, <1>10, <1>11, <1>12, <1>13, <1>14,
     <1>15, <1>16, <1>17, <1>18, <1>19, <1>20, <1>21, <1>22
     DEF Next, WorkerStep, LoopStep, NetworkStep, IoStep, ConnectError, OnDisconnect,
         Disconnect

-----------------------------------------------------------------------------
LEMMA PlaceInit ==
  ASSUME RedisAssumption, Init
  PROVE  PlaceInv
<1> DEFINE p == [c \in Client |-> IF c \in made THEN "ready" ELSE "none"]
<1>1. p \in [Client -> PlaceName]
  BY DEF PlaceName, Live
<1>2. \A c \in Client : At(p, c)
  BY Distinct DEF Init, At
<1>3. Lent(p) /\ Queued(p) /\ Examined(p)
  BY Distinct DEF Init, Lent, Queued, Examined
<1>4. Sized(p)
  <2>1. LiveOnes(p) = made
    BY DEF Init, LiveOnes, Live
  <2>2. Expiring = 0
    BY Distinct DEF Init, Expiring
  <2>3. poolSize = Cardinality(made) /\ Cardinality(made) \in Nat
    BY DEF Init, RedisAssumption
  <2>4. QED
    BY <2>1, <2>2, <2>3 DEF Sized
<1>5. QED
  BY <1>1, <1>2, <1>3, <1>4 DEF PlaceIs, PlaceInv

\* A client's own event moves it, and nothing else.
LEMMA MovesAlone ==
  ASSUME RedisAssumption, Shape, NEW place \in [Client -> PlaceName], PlaceIs(place),
         NEW c \in Client, NEW k \in PlaceName,
         At([place EXCEPT ![c] = k], c)', \A d \in Client \ {c} : Same(d),
         conn' = conn, ioQueue' = ioQueue,
         place[c] \notin {"borrowed", "queued", "io"}, k \notin {"borrowed", "queued", "io"},
         Sized([place EXCEPT ![c] = k])'
  PROVE  PlaceInv'
<1> DEFINE q == [place EXCEPT ![c] = k]
<1>1. q \in [Client -> PlaceName]
  OBVIOUS
<1>2. ASSUME NEW d \in Client, d # c PROVE At(q, d)'
  <2>1. At(place, d) /\ Same(d)
    BY <1>2 DEF PlaceIs
  <2>2. QED
    BY <1>2, <2>1, AtSame
<1>3. \A d \in Client : At(q, d)'
  BY <1>2
<1>4. Lent(q)'
  BY LentSame DEF PlaceIs
<1>5. Queued(q)'
  BY QueuedSame DEF PlaceIs
<1>6. Examined(q)'
  BY ExaminedSame DEF PlaceIs
<1> HIDE DEF q
<1>7. PlaceIs(q)'
  BY <1>1, <1>3, <1>4, <1>5, <1>6 DEF PlaceIs, q
<1>8. QED
  BY <1>1, <1>7 DEF PlaceInv

\* The size over such a move, when the I/O thread is not concerned.
LEMMA SizeMove ==
  ASSUME RedisAssumption, NEW place \in [Client -> PlaceName], Sized(place),
         NEW c \in Client, NEW k \in PlaceName, Expiring' = Expiring,
         \/ (place[c] \in Live) = (k \in Live) /\ poolSize' = poolSize
         \/ place[c] \in Live /\ k \notin Live /\ poolSize' = poolSize - 1
         \/ place[c] \notin Live /\ k \in Live /\ poolSize' = poolSize + 1
  PROVE  Sized([place EXCEPT ![c] = k])'
<1> DEFINE q == [place EXCEPT ![c] = k]
           a == Cardinality(LiveOnes(place))
           b == Cardinality(LiveOnes(q))
<1>1. /\ a \in Nat
      /\ (place[c] \in Live) = (k \in Live) => b = a
      /\ place[c] \in Live /\ k \notin Live => b = a - 1
      /\ place[c] \notin Live /\ k \in Live => b = a + 1
  BY LiveMove
<1>2. poolSize = a + Expiring
  BY DEF Sized
<1>3. Expiring \in Nat
  BY DEF Expiring
<1> HIDE DEF a, b
<1>4. poolSize' = b + Expiring'
  BY <1>1, <1>2, <1>3
<1>5. QED
  BY <1>4 DEF Sized, LiveOnes, b, q

\* A move and what it means for the others, put together.
LEMMA Moves ==
  ASSUME NEW place \in [Client -> PlaceName], PlaceIs(place),
         NEW c \in Client, NEW k \in PlaceName,
         At([place EXCEPT ![c] = k], c)', \A d \in Client \ {c} : Same(d),
         Lent([place EXCEPT ![c] = k])', Queued([place EXCEPT ![c] = k])',
         Examined([place EXCEPT ![c] = k])', Sized([place EXCEPT ![c] = k])'
  PROVE  PlaceInv'
<1> DEFINE q == [place EXCEPT ![c] = k]
<1>1. q \in [Client -> PlaceName]
  OBVIOUS
<1>2. ASSUME NEW d \in Client, d # c PROVE At(q, d)'
  <2>1. At(place, d) /\ Same(d)
    BY <1>2 DEF PlaceIs
  <2>2. QED
    BY <1>2, <2>1, AtSame
<1>3. \A d \in Client : At(q, d)'
  BY <1>2
<1>4. Lent(q)' /\ Queued(q)' /\ Examined(q)' /\ Sized(q)'
  OBVIOUS
<1> HIDE DEF q
<1>5. PlaceIs(q)'
  BY <1>1, <1>3, <1>4 DEF PlaceIs
<1>6. QED
  BY <1>1, <1>5 DEF PlaceInv

LEMMA Stays ==
  ASSUME NEW place \in [Client -> PlaceName], PlaceIs(place), \A d \in Client : Same(d),
         conn' = conn, ioQueue' = ioQueue, poolSize' = poolSize, Expiring' = Expiring
  PROVE  PlaceInv'
<1>1. PlaceIs(place)'
  BY PlaceStays
<1>2. QED
  BY <1>1 DEF PlaceInv

\* The same of the client that the process p is creating.
LEMMA CreateKeepsPlaces ==
  ASSUME RedisAssumption, Shape, NEW place \in [Client -> PlaceName], PlaceIs(place),
         NEW p \in Worker \cup Client, NEW c \in Client, Create(p, c)
  PROVE  PlaceInv'
<1> USE Distinct
<1>1. At(place, c) /\ c \notin made \ freed /\ pc[p] = "create"
  BY DEF PlaceIs, Create
<1>2. place[c] \in {"none", "freed"} /\ pc[c] = "loop" /\ p # c
  BY <1>1 DEF At
<1>3. /\ pc' = [pc EXCEPT ![p] = AfterCreate(p)]
      /\ pc \in [Worker \cup Client \cup {Io} -> WorkerPc \cup LoopPc \cup IoPc]
  BY DEF Create, Goto, Shape
<1>4. At([place EXCEPT ![c] = "ready"], c)'
  BY <1>1, <1>2, <1>3 DEF At, Create, Shape
<1>5. ASSUME NEW d \in Client \ {c} PROVE Same(d)
  <2>1. pc'[d] = pc[d] \/ {pc[d], pc'[d]} \subseteq {"check", "create", "delete"}
    BY <1>1, <1>3 DEF AfterCreate
  <2>2. QED
    BY <2>1 DEF Same, Create, Shape
<1>6. conn' = conn /\ ioQueue' = ioQueue /\ poolSize' = poolSize + 1
  BY DEF Create, ioVars
<1>7. Expiring' = Expiring
  BY <1>3 DEF Expiring
<1>8. "ready" \in PlaceName /\ "ready" \in Live /\ place[c] \notin Live
  BY <1>2 DEF PlaceName, Live
<1>9. Sized([place EXCEPT ![c] = "ready"])'
  BY <1>6, <1>7, <1>8, SizeMove DEF PlaceIs
<1>10. QED
  BY <1>2, <1>4, <1>5, <1>6, <1>8, <1>9, MovesAlone

\* A worker takes an idle client.
LEMMA TakeKeepsPlaces ==
  ASSUME RedisAssumption, Shape, LocalInv,
         NEW place \in [Client -> PlaceName], PlaceIs(place),
         NEW w \in Worker, NEW c \in Client, TakeIdle(w, c), Goto(w, "execute"),
         pc[w] # "execute", UNCHANGED <<clientVars, poolSize, ioVars>>
  PROVE  PlaceInv'
<1> USE Distinct
<1> DEFINE q == [place EXCEPT ![c] = "borrowed"]
<1>1. At(place, c) /\ conn[w] = None /\ conn \in [Worker \cup {Io} -> Client \cup {None}]
  BY DEF PlaceIs, LocalInv, WorkerPlace, Shape
<1>2. place[c] = "idle" /\ idle[c] = 1
  BY <1>1 DEF At, TakeIdle
<1>3. idle' = [idle EXCEPT ![c] = 0] /\ conn' = [conn EXCEPT ![w] = c]
  BY <1>2 DEF TakeIdle
<1>4. \A d \in Client \cup {Io} : pc'[d] = pc[d]
  BY DEF Goto, Shape
<1>5. At(q, c)'
  BY <1>1, <1>2, <1>3, <1>4 DEF At, clientVars, Shape
<1>6. \A d \in Client \ {c} : Same(d)
  BY <1>3, <1>4 DEF Same, clientVars, Shape
<1>7. Lent(q)'
  <2>1. Lent(place) /\ \A v \in Worker : conn[v] # c
    BY <1>2 DEF PlaceIs, Lent
  <2>2. QED
    BY <1>1, <1>2, <1>3, <2>1 DEF Lent
<1>8. Queued(q)'
  BY <1>2, QueuedSame DEF PlaceIs, PlaceName, Live, ioVars
<1>9. Examined(q)'
  <2>1. conn'[Io] = conn[Io]
    BY <1>1, <1>3
  <2>2. QED
    BY <1>2, <2>1, ExaminedSame DEF PlaceIs, PlaceName, Live
<1>10. Sized(q)'
  <2>1. Expiring' = Expiring
    BY <1>4 DEF Expiring
  <2>2. "borrowed" \in PlaceName /\ "borrowed" \in Live /\ place[c] \in Live
    BY <1>2 DEF PlaceName, Live
  <2>3. QED
    BY <2>1, <2>2, SizeMove DEF PlaceIs
<1>11. "borrowed" \in PlaceName
  BY DEF PlaceName, Live
<1>12. QED
  BY <1>5, <1>6, <1>7, <1>8, <1>9, <1>10, <1>11, Moves

LEMMA ExecuteKeepsPlaces ==
  ASSUME RedisAssumption, Shape, LocalInv,
         NEW place \in [Client -> PlaceName], PlaceIs(place),
         NEW w \in Worker, NEW c \in Client, conn[w] = c, Execute(w)
  PROVE  PlaceInv'
<1> USE Distinct
<1> DEFINE q == [place EXCEPT ![c] = "task"]
<1>1. /\ c # None
      /\ request[w] \in Request
      /\ conn \in [Worker \cup {Io} -> Client \cup {None}]
  BY DEF Execute, LocalInv, WorkerPlace, Shape
<1>2. At(place, c) /\ place[c] = "borrowed" /\ Lent(place)
  BY <1>1 DEF PlaceIs, Lent
<1>3. conn' = [conn EXCEPT ![w] = None] /\ task' = [task EXCEPT ![c] = <<request[w]>>]
  <2>1. task[c] = <<>>
    BY <1>2 DEF At
  <2>2. Append(<<>>, request[w]) = <<request[w]>>
    OBVIOUS
  <2>3. QED
    BY <2>1, <2>2 DEF Execute
<1>4. \A d \in Client \cup {Io} : pc'[d] = pc[d]
  BY DEF Execute, Goto, Shape
<1>5. At(q, c)'
  <2>1. Len(task'[c]) = 1
    BY <1>1, <1>3 DEF Shape
  <2>2. QED
    BY <1>1, <1>2, <1>4, <2>1 DEF At, Execute, poolVars, Shape
<1>6. \A d \in Client \ {c} : Same(d)
  BY <1>3, <1>4 DEF Same, Execute, poolVars, Shape
<1>7. Lent(q)'
  <2>1. \A v \in Worker : conn[v] = c => v = w
    BY <1>1, <1>2 DEF Lent
  <2>2. QED
    BY <1>1, <1>2, <1>3, <2>1 DEF Lent
<1>8. Queued(q)'
  <2>1. ioQueue' = ioQueue
    BY DEF Execute, ioVars
  <2>2. QED
    BY <1>1, <1>2, <2>1, QueuedSame DEF PlaceIs, PlaceName, Live
<1>9. Examined(q)'
  <2>1. conn'[Io] = conn[Io]
    BY <1>1, <1>3
  <2>2. QED
    BY <1>1, <1>2, <2>1, ExaminedSame DEF PlaceIs, PlaceName, Live
<1>10. Sized(q)'
  <2>1. Expiring' = Expiring
    BY <1>4 DEF Expiring
  <2>2. "task" \in PlaceName /\ "task" \in Live /\ place[c] \in Live
    BY <1>2 DEF PlaceName, Live
  <2>3. poolSize' = poolSize
    BY DEF Execute, poolVars
  <2>4. QED
    BY <1>1, <2>1, <2>2, <2>3, SizeMove DEF PlaceIs
<1>11. "task" \in PlaceName
  BY DEF PlaceName, Live
<1>12. QED
  BY <1>1, <1>5, <1>6, <1>7, <1>8, <1>9, <1>10, <1>11, Moves

\* The steps of a client's own loop that move it.
LEMMA LoopKeepsPlaces ==
  ASSUME RedisAssumption, Shape, LocalInv,
         NEW place \in [Client -> PlaceName], PlaceIs(place), NEW c \in Client,
         NEW k \in Live \cup {"leaving"}, At([place EXCEPT ![c] = k], c)',
         place[c] \in Live \ {"borrowed"}, k # "borrowed",
         \A d \in (Client \cup {Io}) \ {c} : pc'[d] = pc[d],
         \A d \in Client \ {c} : Same(d),
         conn' = conn, ioQueue' = ioQueue,
         poolSize' = IF k = "leaving" THEN poolSize - 1 ELSE poolSize
  PROVE  PlaceInv'
<1>1. Expiring' = Expiring
  BY Distinct DEF Expiring
<1>2. k \in PlaceName /\ k \notin {"borrowed", "queued", "io"}
      /\ place[c] \notin {"borrowed", "queued", "io"}
  BY DEF PlaceName, Live
<1>3. k \in Live <=> k # "leaving"
  BY DEF Live
<1>4. Sized([place EXCEPT ![c] = k])'
  BY <1>1, <1>2, <1>3, SizeMove DEF PlaceIs
<1>5. QED
  BY <1>2, <1>4, MovesAlone

LEMMA RunExecuteKeepsPlaces ==
  ASSUME RedisAssumption, Shape, LocalInv,
         NEW place \in [Client -> PlaceName], PlaceIs(place), NEW c \in Client, RunExecute(c)
  PROVE  PlaceInv'
<1> USE Distinct
<1>1. At(place, c) /\ pc[c] = "loop" /\ task[c] # <<>>
  BY DEF PlaceIs, RunExecute, Looping
<1>2. place[c] = "task" /\ Len(task[c]) = 1 /\ inflight[c] = 0
  BY <1>1 DEF At
<1>3. Head(task[c]) \in Request /\ Tail(task[c]) = <<>> /\ Head(task[c]) # 0
  <2>1. task[c] \in Seq(Request)
    BY DEF Shape
  <2>2. Head(task[c]) \in Request /\ Tail(task[c]) \in Seq(Request) /\ Len(Tail(task[c])) = 0
    BY <1>1, <1>2, <2>1, HeadTailProperties
  <2>3. Tail(task[c]) = <<>>
    BY <2>2, EmptySeq
  <2>4. QED
    BY <2>2, <2>3 DEF Request
<1>4. /\ task' = [task EXCEPT ![c] = <<>>]
      /\ conn' = conn /\ ioQueue' = ioQueue /\ poolSize' = poolSize
      /\ UNCHANGED <<made, freed, ready, idle>>
  BY <1>3 DEF RunExecute, poolVars, ioVars
<1>5. CASE state[c] # "Connected" \/ inflight[c] # 0
  <2>1. pc' = [pc EXCEPT ![c] = "release"] /\ inflight' = inflight
    BY <1>5 DEF RunExecute, BeginAnswer, Goto
  <2>2. At([place EXCEPT ![c] = "release"], c)'
    BY <1>1, <1>2, <1>4, <2>1 DEF At, Shape
  <2>3. \A d \in Client \ {c} : Same(d)
    BY <1>4, <2>1 DEF Same, Shape
  <2>4. \A d \in (Client \cup {Io}) \ {c} : pc'[d] = pc[d]
    BY <2>1 DEF Shape
  <2>5. QED
    BY <1>2, <1>4, <2>2, <2>3, <2>4, LoopKeepsPlaces DEF Live
<1>6. CASE ~(state[c] # "Connected" \/ inflight[c] # 0)
  <2>1. pc' = pc /\ inflight' = [inflight EXCEPT ![c] = Head(task[c])]
    BY <1>6 DEF RunExecute
  <2>2. At([place EXCEPT ![c] = "inflight"], c)'
    BY <1>1, <1>2, <1>3, <1>4, <2>1 DEF At, Shape
  <2>3. \A d \in Client \ {c} : Same(d)
    BY <1>4, <2>1 DEF Same, Shape
  <2>4. QED
    BY <1>2, <1>4, <2>1, <2>2, <2>3, LoopKeepsPlaces DEF Live
<1>7. QED
  BY <1>5, <1>6

\* Reply, or a connection that breaks, while a command is in flight.
LEMMA EndKeepsPlaces ==
  ASSUME RedisAssumption, Shape, LocalInv,
         NEW place \in [Client -> PlaceName], PlaceIs(place), NEW c \in Client,
         inflight[c] # 0, inflight' = [inflight EXCEPT ![c] = 0],
         pc' = [pc EXCEPT ![c] = "release"],
         ready' = ready \/ ready' = [ready EXCEPT ![c] = FALSE],
         UNCHANGED <<made, freed, task, poolVars, ioQueue, conn>>
  PROVE  PlaceInv'
<1> USE Distinct
<1>1. At(place, c)
  BY DEF PlaceIs
<1>2. place[c] = "inflight" /\ ~ready[c]
  BY <1>1 DEF At
<1>3. At([place EXCEPT ![c] = "release"], c)'
  BY <1>1, <1>2 DEF At, Shape, poolVars
<1>4. \A d \in Client \ {c} : Same(d)
  BY DEF Same, Shape, poolVars
<1>5. \A d \in (Client \cup {Io}) \ {c} : pc'[d] = pc[d]
  BY DEF Shape
<1>6. QED
  BY <1>2, <1>3, <1>4, <1>5, LoopKeepsPlaces DEF Live, poolVars

LEMMA ConnectKeepsPlaces ==
  ASSUME RedisAssumption, Shape, LocalInv,
         NEW place \in [Client -> PlaceName], PlaceIs(place), NEW c \in Client,
         BecomeConnected(c),
         UNCHANGED <<made, freed, task, inflight, poolSize, ioQueue, pc, conn>>
  PROVE  PlaceInv'
<1> USE Distinct
<1>1. At(place, c)
  BY DEF PlaceIs
<1>2. CASE ready[c]
  <2>1. place[c] = "ready"
    BY <1>1, <1>2 DEF At
  <2>2. At([place EXCEPT ![c] = "idle"], c)'
    BY <1>1, <1>2, <2>1 DEF At, Shape, BecomeConnected
  <2>3. \A d \in Client \ {c} : Same(d)
    BY DEF Same, Shape, BecomeConnected
  <2>4. QED
    BY <2>1, <2>2, <2>3, LoopKeepsPlaces DEF Live
<1>3. CASE ~ready[c]
  <2>1. \A d \in Client : Same(d)
    BY <1>3 DEF Same, Shape, BecomeConnected
  <2>2. Expiring' = Expiring
    BY DEF Expiring
  <2>3. QED
    BY <2>1, <2>2, Stays
<1>4. QED
  BY <1>2, <1>3

LEMMA DisconnectKeepsPlaces ==
  ASSUME RedisAssumption, Shape, LocalInv,
         NEW place \in [Client -> PlaceName], PlaceIs(place), NEW c \in Client,
         NEW again \in BOOLEAN, Looping(c), BecomeDisconnected(c, again)
  PROVE  PlaceInv'
<1> USE Distinct
<1>1. At(place, c) /\ pc[c] = "loop"
  BY DEF PlaceIs, Looping
<1>2. /\ UNCHANGED <<made, freed, task, idle, ioQueue, conn>>
      /\ inflight' = [inflight EXCEPT ![c] = 0] /\ ready' = [ready EXCEPT ![c] = FALSE]
  BY DEF BecomeDisconnected, ioVars
<1>3. CASE inflight[c] # 0
  <2>1. pc' = [pc EXCEPT ![c] = "release"] /\ UNCHANGED poolVars
    BY <1>2, <1>3 DEF BecomeDisconnected, BeginAnswer, Goto, poolVars
  <2>2. QED
    BY <1>2, <1>3, <2>1, EndKeepsPlaces
<1>4. CASE inflight[c] = 0 /\ ready[c]
  <2>1. pc' = [pc EXCEPT ![c] = "delete"] /\ poolSize' = poolSize - 1
    BY <1>4 DEF BecomeDisconnected, Goto
  <2>2. place[c] = "ready"
    BY <1>1, <1>4 DEF At
  <2>3. At([place EXCEPT ![c] = "leaving"], c)'
    BY <1>1, <1>2, <1>4, <2>1, <2>2 DEF At, Shape
  <2>4. \A d \in Client \ {c} : Same(d)
    BY <1>2, <2>1 DEF Same, Shape
  <2>5. \A d \in (Client \cup {Io}) \ {c} : pc'[d] = pc[d]
    BY <2>1 DEF Shape
  <2>6. QED
    BY <1>2, <2>1, <2>2, <2>3, <2>4, <2>5, LoopKeepsPlaces DEF Live
<1>5. CASE inflight[c] = 0 /\ ~ready[c]
  <2>1. pc' = pc /\ poolSize' = poolSize
    BY <1>5 DEF BecomeDisconnected
  <2>2. \A d \in Client : Same(d)
    BY <1>2, <1>5, <2>1 DEF Same, Shape
  <2>3. Expiring' = Expiring
    BY <2>1 DEF Expiring
  <2>4. QED
    BY <1>2, <2>1, <2>2, <2>3, Stays
<1>6. QED
  BY <1>3, <1>4, <1>5

LEMMA ReleaseKeepsPlaces ==
  ASSUME RedisAssumption, Shape, LocalInv,
         NEW place \in [Client -> PlaceName], PlaceIs(place), NEW c \in Client, Release(c)
  PROVE  PlaceInv'
<1> USE Distinct
<1>1. At(place, c) /\ pc[c] = "release"
  BY DEF PlaceIs, Release
<1>2. place[c] = "release"
  BY <1>1 DEF At
<1>3. UNCHANGED <<made, freed, ready, task, inflight, ioQueue, conn>>
  BY DEF Release, clientVars, ioVars
<1>4. CASE state[c] = "Connected" /\ inflight[c] = 0
  <2>1. /\ pc' = [pc EXCEPT ![c] = "answer"] /\ idle' = [idle EXCEPT ![c] = @ + 1]
        /\ poolSize' = poolSize
    BY <1>4 DEF Release, Goto
  <2>2. At([place EXCEPT ![c] = "idle"], c)'
    BY <1>1, <1>2, <1>3, <2>1 DEF At, Shape
  <2>3. \A d \in Client \ {c} : Same(d)
    BY <1>3, <2>1 DEF Same, Shape
  <2>4. \A d \in (Client \cup {Io}) \ {c} : pc'[d] = pc[d]
    BY <2>1 DEF Shape
  <2>5. QED
    BY <1>2, <1>3, <2>1, <2>2, <2>3, <2>4, LoopKeepsPlaces DEF Live
<1>5. CASE ~(state[c] = "Connected" /\ inflight[c] = 0)
  <2>1. pc' = [pc EXCEPT ![c] = "check"] /\ idle' = idle /\ poolSize' = poolSize - 1
    BY <1>5 DEF Release, Goto
  <2>2. At([place EXCEPT ![c] = "leaving"], c)'
    BY <1>1, <1>2, <1>3, <2>1 DEF At, Shape
  <2>3. \A d \in Client \ {c} : Same(d)
    BY <1>3, <2>1 DEF Same, Shape
  <2>4. \A d \in (Client \cup {Io}) \ {c} : pc'[d] = pc[d]
    BY <2>1 DEF Shape
  <2>5. QED
    BY <1>2, <1>3, <2>1, <2>2, <2>3, <2>4, LoopKeepsPlaces DEF Live
<1>6. QED
  BY <1>4, <1>5

LEMMA DeleteKeepsPlaces ==
  ASSUME RedisAssumption, Shape, LocalInv,
         NEW place \in [Client -> PlaceName], PlaceIs(place), NEW c \in Client, Delete(c)
  PROVE  PlaceInv'
<1> USE Distinct
<1> DEFINE q == [place EXCEPT ![c] = "queued"]
           t == [op |-> "delete", client |-> c]
<1>1. At(place, c) /\ pc[c] = "delete"
  BY DEF PlaceIs, Delete
<1>2. place[c] = "leaving"
  BY <1>1 DEF At
<1>3. /\ UNCHANGED <<made, freed, ready, task, inflight, idle, poolSize, conn>>
      /\ ioQueue' = Append(ioQueue, t)
      /\ pc' = [pc EXCEPT ![c] = "loop"] \/ pc' = [pc EXCEPT ![c] = "answer"]
  BY DEF Delete, clientVars, poolVars, Goto
<1>4. At(q, c)'
  BY <1>1, <1>2, <1>3 DEF At, Shape
<1>5. \A d \in Client \ {c} : Same(d)
  BY <1>3 DEF Same, Shape
<1>6. Queued(q)'
  <2>1. /\ Len(ioQueue') = Len(ioQueue) + 1 /\ Len(ioQueue) \in Nat
        /\ ioQueue'[Len(ioQueue) + 1].client = c
        /\ \A i \in 1..Len(ioQueue) : ioQueue'[i] = ioQueue[i]
        /\ \A i \in 1..Len(ioQueue) : ioQueue[i].client \in Client \cup {None}
    BY <1>3 DEF Shape, IoTask
  <2>2. Queued(place) /\ \A i \in 1..Len(ioQueue) : ioQueue[i].client # c
    BY <1>2 DEF PlaceIs, Queued
  <2>3. \A i \in 1..Len(ioQueue') :
          i \in 1..Len(ioQueue) \/ i = Len(ioQueue) + 1
    BY <2>1
  <2>4. \A i \in 1..Len(ioQueue') : ioQueue'[i].client # None => q[ioQueue'[i].client] = "queued"
    BY <2>1, <2>2, <2>3 DEF Queued
  <2>5. ASSUME NEW d \in Client, q[d] = "queued"
        PROVE  \E i \in 1..Len(ioQueue') : ioQueue'[i].client = d
    <3>1. CASE d = c
      BY <2>1, <3>1
    <3>2. CASE d # c
      <4>1. PICK i \in 1..Len(ioQueue) : ioQueue[i].client = d
        BY <2>2, <2>5, <3>2 DEF Queued
      <4>2. i \in 1..Len(ioQueue') /\ ioQueue'[i].client = d
        BY <2>1, <4>1
      <4>3. QED
        BY <4>2
    <3>3. QED
      BY <3>1, <3>2
  <2>6. \A i, j \in 1..Len(ioQueue') :
          ioQueue'[i].client # None /\ ioQueue'[j].client = ioQueue'[i].client => i = j
    BY <2>1, <2>2, <2>3 DEF Queued
  <2> HIDE DEF q
  <2>7. QED
    BY <2>4, <2>5, <2>6 DEF Queued
<1>7. Lent(q)'
  BY <1>2, <1>3, LentSame DEF PlaceIs, PlaceName, Live
<1>8. Examined(q)'
  BY <1>2, <1>3, ExaminedSame DEF PlaceIs, PlaceName, Live
<1>9. "queued" \in PlaceName /\ "queued" \notin Live /\ place[c] \notin Live
  BY <1>2 DEF PlaceName, Live
<1>10. Sized(q)'
  <2>1. Expiring' = Expiring
    BY <1>3 DEF Expiring, Shape
  <2>2. (place[c] \in Live) = ("queued" \in Live)
    BY <1>9
  <2>3. Sized(place) /\ poolSize' = poolSize
    BY <1>3 DEF PlaceIs
  <2>4. QED
    BY <1>9, <2>1, <2>2, <2>3, SizeMove
<1>11. QED
  BY <1>4, <1>5, <1>6, <1>7, <1>8, <1>9, <1>10, Moves

-----------------------------------------------------------------------------
\* The steps of the I/O thread move no loop and no worker.
LEMMA IoFrame ==
  ASSUME RedisAssumption, Shape, NEW v, Goto(Io, v)
  PROVE  /\ \A d \in Client : pc'[d] = pc[d]
         /\ pc'[Io] = v
BY Distinct DEF Goto, Shape

LEMMA TimerKeepsPlaces ==
  ASSUME RedisAssumption, Shape, NEW place \in [Client -> PlaceName], PlaceIs(place),
         Timer
  PROVE  PlaceInv'
<1> DEFINE t == [op |-> "expire", client |-> None]
<1>1. /\ UNCHANGED <<made, freed, ready, task, inflight, idle, poolSize, conn, pc>>
      /\ ioQueue' = Append(ioQueue, t)
  BY DEF Timer, clientVars, poolVars
<1>2. /\ Len(ioQueue') = Len(ioQueue) + 1 /\ Len(ioQueue) \in Nat
      /\ ioQueue'[Len(ioQueue) + 1].client = None
      /\ \A i \in 1..Len(ioQueue) : ioQueue'[i] = ioQueue[i]
  BY <1>1 DEF Shape
<1>3. \A i \in 1..Len(ioQueue') : i \in 1..Len(ioQueue) \/ i = Len(ioQueue) + 1
  BY <1>2
<1>4. Queued(place)
  BY DEF PlaceIs
<1>5. Queued(place)'
  <2>1. \A i \in 1..Len(ioQueue') :
          ioQueue'[i].client # None => place[ioQueue'[i].client] = "queued"
    BY <1>2, <1>3, <1>4 DEF Queued
  <2>2. ASSUME NEW d \in Client, place[d] = "queued"
        PROVE  \E i \in 1..Len(ioQueue') : ioQueue'[i].client = d
    <3>1. PICK i \in 1..Len(ioQueue) : ioQueue[i].client = d
      BY <1>4, <2>2 DEF Queued
    <3>2. i \in 1..Len(ioQueue') /\ ioQueue'[i].client = d
      BY <1>2, <3>1
    <3>3. QED
      BY <3>2
  <2>3. \A i, j \in 1..Len(ioQueue') :
          ioQueue'[i].client # None /\ ioQueue'[j].client = ioQueue'[i].client => i = j
    BY <1>2, <1>3, <1>4 DEF Queued
  <2>4. QED
    BY <2>1, <2>2, <2>3 DEF Queued
<1>6. \A d \in Client : At(place, d)'
  <2>1. \A d \in Client : At(place, d) /\ Same(d)
    BY <1>1 DEF PlaceIs, Same
  <2>2. QED
    BY <2>1, AtStays
<1>7. Lent(place)' /\ Examined(place)' /\ Sized(place)'
  BY <1>1 DEF PlaceIs, Lent, Examined, Sized, LiveOnes, Expiring
<1>8. PlaceIs(place)'
  BY <1>5, <1>6, <1>7 DEF PlaceIs
<1>9. QED
  BY <1>8 DEF PlaceInv

\* What Tail does to the queue.
LEMMA TakenQueue ==
  ASSUME Shape, ioQueue # <<>>
  PROVE  /\ Head(ioQueue) \in IoTask /\ Head(ioQueue) = ioQueue[1] /\ 1 \in 1..Len(ioQueue)
         /\ Len(ioQueue) \in Nat \ {0} /\ Len(Tail(ioQueue)) = Len(ioQueue) - 1
         /\ \A i \in 1..Len(Tail(ioQueue)) : /\ Tail(ioQueue)[i] = ioQueue[i + 1]
                                             /\ i + 1 \in 1..Len(ioQueue)
BY DEF Shape

LEMMA TakeTimerKeepsPlaces ==
  ASSUME RedisAssumption, Shape, LocalInv,
         NEW place \in [Client -> PlaceName], PlaceIs(place),
         IoTake, Head(ioQueue).client = None
  PROVE  PlaceInv'
<1>1. /\ UNCHANGED <<made, freed, ready, task, inflight, idle, poolSize>>
      /\ ioQueue' = Tail(ioQueue) /\ ioQueue # <<>> /\ pc[Io] = "wait"
      /\ conn' = [conn EXCEPT ![Io] = None]
  BY DEF IoTake, clientVars, poolVars
<1>2. conn[Io] = None
  BY <1>1 DEF LocalInv, IoPlace
<1>3. /\ \A d \in Client : pc'[d] = pc[d]
      /\ pc'[Io] \in {"destroy", "expire"}
  BY IoFrame DEF IoTake
<1>4. \A p \in Worker \cup {Io} : conn'[p] = conn[p]
  BY <1>1, <1>2 DEF Shape
<1>5. Queued(place)'
  <2>1. /\ ioQueue[1].client = None /\ Len(ioQueue') = Len(ioQueue) - 1 /\ Len(ioQueue) \in Nat
        /\ \A i \in 1..Len(ioQueue') : /\ ioQueue'[i] = ioQueue[i + 1]
                                       /\ i + 1 \in 1..Len(ioQueue)
    BY <1>1, TakenQueue
  <2>2. Queued(place)
    BY DEF PlaceIs
  <2>3. \A i \in 1..Len(ioQueue') :
          ioQueue'[i].client # None => place[ioQueue'[i].client] = "queued"
    BY <2>1, <2>2 DEF Queued
  <2>4. ASSUME NEW d \in Client, place[d] = "queued"
        PROVE  \E i \in 1..Len(ioQueue') : ioQueue'[i].client = d
    <3>1. PICK i \in 1..Len(ioQueue) : ioQueue[i].client = d
      BY <2>2, <2>4 DEF Queued
    <3>2. i # 1
      BY <2>1, <3>1, Distinct
    <3>3. i - 1 \in 1..Len(ioQueue') /\ ioQueue'[i - 1].client = d
      BY <2>1, <3>1, <3>2
    <3>4. QED
      BY <3>3
  <2>5. ASSUME NEW i \in 1..Len(ioQueue'), NEW j \in 1..Len(ioQueue'),
               ioQueue'[i].client # None, ioQueue'[j].client = ioQueue'[i].client
        PROVE  i = j
    <3>1. /\ i + 1 \in 1..Len(ioQueue) /\ j + 1 \in 1..Len(ioQueue)
          /\ ioQueue[i + 1].client # None
          /\ ioQueue[j + 1].client = ioQueue[i + 1].client
      BY <2>1, <2>5
    <3>2. i + 1 = j + 1
      BY <2>2, <3>1 DEF Queued
    <3>3. QED
      BY <3>2
  <2>6. QED
    BY <2>3, <2>4, <2>5 DEF Queued
<1>6. \A d \in Client : At(place, d)'
  <2>1. \A d \in Client : At(place, d) /\ Same(d)
    BY <1>1, <1>3 DEF PlaceIs, Same
  <2>2. QED
    BY <2>1, AtStays
<1>7. Lent(place)' /\ Examined(place)'
  BY <1>4 DEF PlaceIs, Lent, Examined
<1>8. Sized(place)'
  <2>1. Expiring' = Expiring
    BY <1>1, <1>3 DEF Expiring
  <2>2. QED
    BY <1>1, <2>1 DEF PlaceIs, Sized, LiveOnes
<1>9. PlaceIs(place)'
  BY <1>5, <1>6, <1>7, <1>8 DEF PlaceIs
<1>10. QED
  BY <1>9 DEF PlaceInv

LEMMA TakeDeleteKeepsPlaces ==
  ASSUME RedisAssumption, Shape, LocalInv,
         NEW place \in [Client -> PlaceName], PlaceIs(place), NEW c \in Client,
         IoTake, Head(ioQueue).client = c
  PROVE  PlaceInv'
<1> DEFINE q == [place EXCEPT ![c] = "io"]
<1>1. /\ UNCHANGED <<made, freed, ready, task, inflight, idle, poolSize>>
      /\ ioQueue' = Tail(ioQueue) /\ ioQueue # <<>> /\ pc[Io] = "wait"
      /\ conn' = [conn EXCEPT ![Io] = c]
  BY DEF IoTake, clientVars, poolVars
<1>2. conn[Io] = None /\ c # None
  BY <1>1, Distinct DEF LocalInv, IoPlace
<1>3. /\ \A d \in Client : pc'[d] = pc[d]
      /\ pc'[Io] \in {"destroy", "expire"}
  BY IoFrame DEF IoTake
<1>4. /\ ioQueue[1].client = c /\ Len(ioQueue') = Len(ioQueue) - 1 /\ Len(ioQueue) \in Nat
      /\ 1 \in 1..Len(ioQueue)
      /\ \A i \in 1..Len(ioQueue') : /\ ioQueue'[i] = ioQueue[i + 1]
                                     /\ i + 1 \in 1..Len(ioQueue)
  BY <1>1, TakenQueue
<1>5. Queued(place) /\ At(place, c) /\ place[c] = "queued"
  BY <1>2, <1>4 DEF PlaceIs, Queued
<1>6. At(q, c)'
  BY <1>1, <1>3, <1>5 DEF At
<1>7. \A d \in Client \ {c} : Same(d)
  BY <1>1, <1>3 DEF Same
<1>8. Queued(q)'
  <2>1. \A i \in 1..Len(ioQueue) : ioQueue[i].client \in Client \cup {None}
    BY DEF Shape, IoTask
  <2>2. \A i \in 1..Len(ioQueue') : ioQueue'[i].client # c
    <3>1. SUFFICES ASSUME NEW i \in 1..Len(ioQueue'), ioQueue'[i].client = c PROVE FALSE
      OBVIOUS
    <3>2. i + 1 = 1
      BY <1>2, <1>4, <1>5, <3>1 DEF Queued
    <3>3. QED
      BY <3>2
  <2>3. \A i \in 1..Len(ioQueue') :
          ioQueue'[i].client # None => q[ioQueue'[i].client] = "queued"
    BY <1>4, <1>5, <2>1, <2>2 DEF Queued
  <2>4. ASSUME NEW d \in Client, q[d] = "queued"
        PROVE  \E i \in 1..Len(ioQueue') : ioQueue'[i].client = d
    <3>1. d # c /\ place[d] = "queued"
      BY <2>4
    <3>2. PICK i \in 1..Len(ioQueue) : ioQueue[i].client = d
      BY <1>5, <3>1 DEF Queued
    <3>3. i - 1 \in 1..Len(ioQueue') /\ ioQueue'[i - 1].client = d
      BY <1>4, <3>1, <3>2
    <3>4. QED
      BY <3>3
  <2>5. ASSUME NEW i \in 1..Len(ioQueue'), NEW j \in 1..Len(ioQueue'),
               ioQueue'[i].client # None, ioQueue'[j].client = ioQueue'[i].client
        PROVE  i = j
    <3>1. i + 1 = j + 1
      BY <1>4, <1>5, <2>5 DEF Queued
    <3>2. QED
      BY <3>1
  <2> HIDE DEF q
  <2>6. QED
    BY <2>3, <2>4, <2>5 DEF Queued
<1>9. Lent(q)'
  <2>1. \A w \in Worker : conn'[w] = conn[w]
    BY <1>1, Distinct DEF Shape
  <2>2. QED
    BY <1>5, <2>1, LentSame DEF PlaceIs, PlaceName, Live
<1>10. Examined(q)'
  <2>1. conn'[Io] = c
    BY <1>1 DEF Shape
  <2>2. \A d \in Client : place[d] # "io"
    BY <1>2, Distinct DEF PlaceIs, Examined
  <2>3. QED
    BY <2>1, <2>2 DEF Examined
<1>11. "io" \in PlaceName /\ (place[c] \in Live) = ("io" \in Live)
  BY <1>5 DEF PlaceName, Live
<1>12. Sized(q)'
  <2>1. Expiring' = Expiring
    BY <1>1, <1>3 DEF Expiring
  <2>2. Sized(place) /\ poolSize' = poolSize
    BY <1>1 DEF PlaceIs
  <2>3. QED
    BY <1>11, <2>1, <2>2, SizeMove
<1>13. QED
  BY <1>6, <1>7, <1>8, <1>9, <1>10, <1>11, <1>12, Moves

LEMMA ExpireKeepsPlaces ==
  ASSUME RedisAssumption, Shape, LocalInv,
         NEW place \in [Client -> PlaceName], PlaceIs(place), NEW c \in Client,
         ExpireNext, TakeIdle(Io, c), Goto(Io, "judge")
  PROVE  PlaceInv'
<1> DEFINE q == [place EXCEPT ![c] = "io"]
<1>1. /\ UNCHANGED <<made, freed, ready, task, inflight, poolSize, ioQueue>>
      /\ conn' = [conn EXCEPT ![Io] = c] /\ pc[Io] = "expire"
  BY DEF ExpireNext, TakeIdle, clientVars
<1>2. At(place, c) /\ conn[Io] = None /\ c # None
  BY <1>1, Distinct DEF PlaceIs, LocalInv, IoPlace
<1>3. place[c] = "idle" /\ idle[c] = 1
  BY <1>2 DEF At, TakeIdle
<1>4. idle' = [idle EXCEPT ![c] = 0]
  BY <1>3 DEF TakeIdle
<1>5. (\A d \in Client : pc'[d] = pc[d]) /\ pc'[Io] = "judge"
  BY IoFrame
<1>6. At(q, c)'
  BY <1>1, <1>2, <1>3, <1>4, <1>5 DEF At, Shape
<1>7. \A d \in Client \ {c} : Same(d)
  BY <1>1, <1>4, <1>5 DEF Same, Shape
<1>8. Queued(q)'
  BY <1>1, <1>3, QueuedSame DEF PlaceIs, PlaceName, Live
<1>9. Lent(q)'
  <2>1. \A w \in Worker : conn'[w] = conn[w]
    BY <1>1, Distinct DEF Shape
  <2>2. QED
    BY <1>3, <2>1, LentSame DEF PlaceIs, PlaceName, Live
<1>10. Examined(q)'
  <2>1. conn'[Io] = c
    BY <1>1 DEF Shape
  <2>2. \A d \in Client : place[d] # "io"
    BY <1>2, Distinct DEF PlaceIs, Examined
  <2>3. QED
    BY <2>1, <2>2 DEF Examined
<1>11. "io" \in PlaceName /\ "io" \notin Live /\ place[c] \in Live
  BY <1>3 DEF PlaceName, Live
<1>12. Sized(q)'
  <2>1. Expiring = 0 /\ Expiring' = 1
    BY <1>1, <1>5 DEF Expiring
  <2>2. /\ Cardinality(LiveOnes(place)) \in Nat
        /\ Cardinality(LiveOnes(q)) = Cardinality(LiveOnes(place)) - 1
    BY <1>11, LiveMove
  <2>3. poolSize' = poolSize /\ poolSize = Cardinality(LiveOnes(place)) + Expiring
    BY <1>1 DEF PlaceIs, Sized
  <2>4. poolSize' = Cardinality(LiveOnes(q)) + Expiring'
    BY <2>1, <2>2, <2>3
  <2>5. QED
    BY <2>4 DEF Sized, LiveOnes
<1>13. QED
  BY <1>6, <1>7, <1>8, <1>9, <1>10, <1>11, <1>12, Moves

LEMMA KeepKeepsPlaces ==
  ASSUME RedisAssumption, Shape, LocalInv,
         NEW place \in [Client -> PlaceName], PlaceIs(place), NEW c \in Client,
         conn[Io] = c, KeepIdle
  PROVE  PlaceInv'
<1> DEFINE q == [place EXCEPT ![c] = "idle"]
<1>1. /\ UNCHANGED <<made, freed, ready, task, inflight, poolSize, ioQueue>>
      /\ conn' = [conn EXCEPT ![Io] = None] /\ pc[Io] = "judge"
      /\ idle' = [idle EXCEPT ![c] = @ + 1]
  BY DEF KeepIdle, clientVars, ioVars
<1>2. At(place, c) /\ c # None /\ place[c] = "io"
  BY Distinct DEF PlaceIs, Examined
<1>3. (\A d \in Client : pc'[d] = pc[d]) /\ pc'[Io] = "wait"
  BY IoFrame DEF KeepIdle
<1>4. At(q, c)'
  BY <1>1, <1>2, <1>3 DEF At, Shape
<1>5. \A d \in Client \ {c} : Same(d)
  BY <1>1, <1>3 DEF Same, Shape
<1>6. Queued(q)'
  BY <1>1, <1>2, QueuedSame DEF PlaceIs, PlaceName, Live
<1>7. Lent(q)'
  <2>1. \A w \in Worker : conn'[w] = conn[w]
    BY <1>1, Distinct DEF Shape
  <2>2. QED
    BY <1>2, <2>1, LentSame DEF PlaceIs, PlaceName, Live
<1>8. Examined(q)'
  <2>1. conn'[Io] = None
    BY <1>1 DEF Shape
  <2>2. \A d \in Client \ {c} : place[d] # "io"
    BY DEF PlaceIs, Examined
  <2>3. QED
    BY <2>1, <2>2 DEF Examined
<1>9. "idle" \in PlaceName /\ "idle" \in Live /\ place[c] \notin Live
  BY <1>2 DEF PlaceName, Live
<1>10. Sized(q)'
  <2>1. Expiring = 1 /\ Expiring' = 0
    BY <1>1, <1>3 DEF Expiring
  <2>2. /\ Cardinality(LiveOnes(place)) \in Nat
        /\ Cardinality(LiveOnes(q)) = Cardinality(LiveOnes(place)) + 1
    BY <1>9, LiveMove
  <2>3. poolSize' = poolSize /\ poolSize = Cardinality(LiveOnes(place)) + Expiring
    BY <1>1 DEF PlaceIs, Sized
  <2>4. poolSize' = Cardinality(LiveOnes(q)) + Expiring'
    BY <2>1, <2>2, <2>3
  <2>5. QED
    BY <2>4 DEF Sized, LiveOnes
<1>11. QED
  BY <1>4, <1>5, <1>6, <1>7, <1>8, <1>9, <1>10, Moves

LEMMA FreeKeepsPlaces ==
  ASSUME RedisAssumption, Shape, LocalInv,
         NEW place \in [Client -> PlaceName], PlaceIs(place), NEW c \in Client,
         conn[Io] = c, Free(c), \A d \in Client : pc'[d] = pc[d],
         Expiring' = Expiring, UNCHANGED <<idle, poolSize, ioQueue>>
  PROVE  PlaceInv'
<1> DEFINE q == [place EXCEPT ![c] = "freed"]
<1>1. /\ UNCHANGED <<made, ready, task, inflight>>
      /\ conn' = [conn EXCEPT ![Io] = None] /\ pc[c] = "loop"
      /\ freed' = freed \cup {c}
  BY DEF Free
<1>2. At(place, c) /\ c # None /\ place[c] = "io"
  BY Distinct DEF PlaceIs, Examined
<1>3. At(q, c)'
  BY <1>1, <1>2 DEF At, Shape
<1>4. \A d \in Client \ {c} : Same(d)
  BY <1>1 DEF Same, Shape
<1>5. Queued(q)'
  BY <1>1, <1>2, QueuedSame DEF PlaceIs, PlaceName, Live
<1>6. Lent(q)'
  <2>1. \A w \in Worker : conn'[w] = conn[w]
    BY <1>1, Distinct DEF Shape
  <2>2. QED
    BY <1>2, <2>1, LentSame DEF PlaceIs, PlaceName, Live
<1>7. Examined(q)'
  <2>1. conn'[Io] = None
    BY <1>1 DEF Shape
  <2>2. \A d \in Client \ {c} : place[d] # "io"
    BY DEF PlaceIs, Examined
  <2>3. QED
    BY <2>1, <2>2 DEF Examined
<1>8. "freed" \in PlaceName /\ (place[c] \in Live) = ("freed" \in Live)
  BY <1>2 DEF PlaceName, Live
<1>9. Sized(q)'
  <2>1. Sized(place) /\ poolSize' = poolSize
    BY DEF PlaceIs
  <2>2. QED
    BY <1>8, <2>1, SizeMove
<1>10. QED
  BY <1>3, <1>4, <1>5, <1>6, <1>7, <1>8, <1>9, Moves

LEMMA CountKeepsPlaces ==
  ASSUME RedisAssumption, Shape, LocalInv,
         NEW place \in [Client -> PlaceName], PlaceIs(place), CountExpired
  PROVE  PlaceInv'
<1>1. /\ UNCHANGED <<made, freed, ready, task, inflight, idle, ioQueue, conn>>
      /\ pc[Io] = "count" /\ poolSize' = poolSize - 1
  BY DEF CountExpired, clientVars, ioVars
<1>2. (\A d \in Client : pc'[d] = pc[d]) /\ pc'[Io] = "expire"
  BY IoFrame DEF CountExpired
<1>3. \A d \in Client : At(place, d)'
  <2>1. \A d \in Client : At(place, d) /\ Same(d)
    BY <1>1, <1>2 DEF PlaceIs, Same
  <2>2. QED
    BY <2>1, AtStays
<1>4. Lent(place)' /\ Queued(place)' /\ Examined(place)'
  BY <1>1 DEF PlaceIs, Lent, Queued, Examined
<1>5. Sized(place)'
  <2>1. Expiring = 1 /\ Expiring' = 0
    BY <1>1, <1>2 DEF Expiring
  <2>2. IsFiniteSet(LiveOnes(place))
    BY FS_Subset DEF RedisAssumption, LiveOnes
  <2>3. Cardinality(LiveOnes(place)) \in Nat
    BY <2>2, FS_CardinalityType
  <2>4. poolSize = Cardinality(LiveOnes(place)) + Expiring
    BY DEF PlaceIs, Sized
  <2>5. poolSize' = Cardinality(LiveOnes(place)) + Expiring'
    BY <1>1, <2>1, <2>3, <2>4
  <2>6. QED
    BY <2>5 DEF Sized, LiveOnes
<1>6. PlaceIs(place)'
  BY <1>3, <1>4, <1>5 DEF PlaceIs
<1>7. QED
  BY <1>6 DEF PlaceInv

-----------------------------------------------------------------------------
LEMMA PlaceStep ==
  ASSUME RedisAssumption, Shape, LocalInv, PlaceInv, [Next]_vars
  PROVE  PlaceInv'
<1> USE Distinct
<1>0. PICK place \in [Client -> PlaceName] : PlaceIs(place)
  BY DEF PlaceInv
<1> USE <1>0
\* A step of a worker or a loop that moves nobody.
<1>s. ASSUME NEW p \in Worker \cup Client, NEW v, pc' = [pc EXCEPT ![p] = v],
             \/ p \in Worker
             \/ {pc[p], v} \subseteq {"check", "create", "delete"}
             \/ (pc[p] = "answer" /\ v = "loop"),
             UNCHANGED <<made, freed, ready, task, inflight, idle, poolSize, ioQueue, conn>>
      PROVE  PlaceInv'
  <2>1. pc \in [Worker \cup Client \cup {Io} -> WorkerPc \cup LoopPc \cup IoPc]
    BY DEF Shape
  <2>2. \A d \in Client : Same(d)
    BY <1>s, <2>1 DEF Same
  <2>3. Expiring' = Expiring
    BY <1>s, <2>1 DEF Expiring
  <2>4. QED
    BY <1>s, <2>2, <2>3, Stays
<1>n. ASSUME UNCHANGED <<made, freed, ready, task, inflight, idle, poolSize, ioQueue, conn, pc>>
      PROVE  PlaceInv'
  <2>1. \A d \in Client : Same(d)
    BY <1>n DEF Same
  <2>2. Expiring' = Expiring
    BY <1>n DEF Expiring
  <2>3. QED
    BY <1>n, <2>1, <2>2, Stays
<1>1. ASSUME NEW p \in Worker \cup Client, CheckRoom(p) PROVE PlaceInv'
  <2>1. CASE pc' = [pc EXCEPT ![p] = AfterCreate(p)]
    BY <1>1, <1>s, <2>1 DEF CheckRoom, AfterCreate, clientVars, poolVars, ioVars
  <2>2. CASE pc' = [pc EXCEPT ![p] = "create"]
    BY <1>1, <1>s, <2>2 DEF CheckRoom, clientVars, poolVars, ioVars
  <2>3. QED
    BY <1>1, <2>1, <2>2 DEF CheckRoom, Goto
<1>2. ASSUME NEW p \in Worker \cup Client, NEW c \in Client, Create(p, c) PROVE PlaceInv'
  BY <1>2, CreateKeepsPlaces
<1>3. ASSUME NEW w \in Worker, Start(w) PROVE PlaceInv'
  BY <1>3, <1>s DEF Start, Goto, clientVars, poolVars, ioVars
<1>4. ASSUME NEW w \in Worker, TryDequeue(w) PROVE PlaceInv'
  <2>1. CASE \E c \in Client : TakeIdle(w, c) /\ Goto(w, "execute")
    BY <1>4, <2>1, TakeKeepsPlaces DEF TryDequeue
  <2>2. CASE Goto(w, "check") /\ UNCHANGED <<idle, conn>>
    BY <1>4, <2>2, <1>s DEF TryDequeue, Goto, clientVars, ioVars
  <2>3. QED
    BY <1>4, <2>1, <2>2 DEF TryDequeue
<1>5. ASSUME NEW w \in Worker, WaitDequeue(w) PROVE PlaceInv'
  BY <1>5, TakeKeepsPlaces DEF WaitDequeue
<1>6. ASSUME NEW w \in Worker, Execute(w) PROVE PlaceInv'
  <2>1. conn[w] \in Client
    BY <1>6 DEF Execute, LocalInv, WorkerPlace, Shape
  <2>2. QED
    BY <1>6, <2>1, ExecuteKeepsPlaces
<1>7. ASSUME NEW w \in Worker, WaitFor(w) PROVE PlaceInv'
  BY <1>7, <1>s DEF WaitFor, Goto, clientVars, poolVars, ioVars
<1>8. ASSUME NEW c \in Client, RunExecute(c) PROVE PlaceInv'
  BY <1>8, RunExecuteKeepsPlaces
<1>9. ASSUME NEW c \in Client, Reply(c) PROVE PlaceInv'
  BY <1>9, EndKeepsPlaces DEF Reply, BeginAnswer, Goto, ioVars
<1>10. ASSUME NEW c \in Client, OnConnect(c) PROVE PlaceInv'
  <2>1. CASE Password
    BY <1>10, <2>1, <1>n DEF OnConnect, ioVars
  <2>2. CASE ~Password
    BY <1>10, <2>2, ConnectKeepsPlaces DEF OnConnect, ioVars
  <2>3. QED
    BY <2>1, <2>2
<1>11. ASSUME NEW c \in Client, AuthOk(c) PROVE PlaceInv'
  BY <1>11, ConnectKeepsPlaces DEF AuthOk, ioVars
<1>12. ASSUME NEW c \in Client, NEW again \in BOOLEAN, Looping(c),
              BecomeDisconnected(c, again)
       PROVE  PlaceInv'
  BY <1>12, DisconnectKeepsPlaces
<1>13. ASSUME NEW c \in Client, ReconnectError(c) PROVE PlaceInv'
  BY <1>13, <1>n DEF ReconnectError, poolVars, ioVars
<1>14. ASSUME NEW c \in Client, Release(c) PROVE PlaceInv'
  BY <1>14, ReleaseKeepsPlaces
<1>15. ASSUME NEW c \in Client, Delete(c) PROVE PlaceInv'
  BY <1>15, DeleteKeepsPlaces
<1>16. ASSUME NEW c \in Client, Answer(c) PROVE PlaceInv'
  BY <1>16, <1>s DEF Answer, Goto, clientVars, poolVars, ioVars
<1>17. ASSUME Timer PROVE PlaceInv'
  BY <1>17, TimerKeepsPlaces
<1>18. ASSUME IoTake PROVE PlaceInv'
  <2>1. Head(ioQueue).client \in Client \cup {None}
    <3>1. ioQueue # <<>>
      BY <1>18 DEF IoTake
    <3>2. Head(ioQueue) \in IoTask
      BY <3>1, TakenQueue
    <3>3. QED
      BY <3>2 DEF IoTask
  <2>2. QED
    BY <1>18, <2>1, TakeTimerKeepsPlaces, TakeDeleteKeepsPlaces
\* A step of the I/O thread that moves nobody and expires nobody.
<1>i. ASSUME NEW v, Goto(Io, v),
             pc[Io] \in {"judge", "count"} <=> v \in {"judge", "count"},
             UNCHANGED <<made, freed, ready, task, inflight, idle, poolSize, ioQueue, conn>>
      PROVE  PlaceInv'
  <2>1. (\A d \in Client : pc'[d] = pc[d]) /\ pc'[Io] = v
    BY <1>i, IoFrame
  <2>2. \A d \in Client : Same(d)
    BY <1>i, <2>1 DEF Same
  <2>3. Expiring' = Expiring
    BY <1>i, <2>1 DEF Expiring
  <2>4. QED
    BY <1>i, <2>2, <2>3, Stays
<1>19. ASSUME ExpireNext PROVE PlaceInv'
  <2>1. CASE \E c \in Client : TakeIdle(Io, c) /\ Goto(Io, "judge")
    BY <1>19, <2>1, ExpireKeepsPlaces
  <2>2. CASE Goto(Io, "wait") /\ UNCHANGED <<idle, conn, checked>>
    BY <1>19, <2>2, <1>i DEF ExpireNext, clientVars
  <2>3. QED
    BY <1>19, <2>1, <2>2 DEF ExpireNext
<1>20. ASSUME KeepIdle PROVE PlaceInv'
  <2>1. conn[Io] \in Client
    BY <1>20 DEF KeepIdle, LocalInv, IoPlace, Shape
  <2>2. QED
    BY <1>20, <2>1, KeepKeepsPlaces
<1>21. ASSUME Expired PROVE PlaceInv'
  BY <1>21, <1>i DEF Expired, clientVars, poolVars, ioVars
<1>22. ASSUME Destroy PROVE PlaceInv'
  <2>1. conn[Io] \in Client
    BY <1>22 DEF Destroy, LocalInv, IoPlace, Shape
  <2>2. (\A d \in Client : pc'[d] = pc[d]) /\ Expiring' = Expiring
    BY <1>22, IoFrame DEF Destroy, Expiring
  <2>3. QED
    BY <1>22, <2>1, <2>2, FreeKeepsPlaces DEF Destroy, poolVars, ioVars
<1>23. ASSUME DestroyExpired PROVE PlaceInv'
  <2>1. conn[Io] \in Client
    BY <1>23 DEF DestroyExpired, Shape
  <2>2. (\A d \in Client : pc'[d] = pc[d]) /\ Expiring' = Expiring
    BY <1>23 DEF DestroyExpired, Expiring
  <2>3. QED
    BY <1>23, <2>1, <2>2, FreeKeepsPlaces DEF DestroyExpired, poolVars, ioVars
<1>24. ASSUME CountExpired PROVE PlaceInv'
  BY <1>24, CountKeepsPlaces
<1>25. ASSUME UNCHANGED vars PROVE PlaceInv'
  BY <1>25, <1>n DEF vars, clientVars, poolVars, ioVars
<1> QED
  BY <1>1, <1>2, <1>3, <1>4, <1>5, <1>6, <1>7, <1>8, <1>9, <1>10, <1>11, <1>12, <1>13,
     <1>14, <1>15, <1>16, <1>17, <1>18, <1>19, <1>20, <1>21, <1>22, <1>23, <1>24, <1>25
     DEF Next, WorkerStep, LoopStep, NetworkStep, IoStep, ConnectError, OnDisconnect,
         Disconnect

-----------------------------------------------------------------------------
(***************************************************************************)
(* Every request is in one hand: the worker that makes it, a client's      *)
(* tasks, the wire, the loop that will deliver its answer, or nobody's.    *)
(***************************************************************************)
Asking == {"get", "check", "create", "dequeue", "execute"}
Hand == {"new", "worker", "task", "inflight", "loop", "done"}
                 \X (Worker \cup Client \cup {None})

AskClaim(hand, w) == pc[w] \in Asking => hand[request[w]] = <<"worker", w>>
TaskClaim(hand, c) == task[c] # <<>> => hand[task[c][1]] = <<"task", c>>
WireClaim(hand, c) == inflight[c] # 0 => hand[inflight[c]] = <<"inflight", c>>
LoopClaim(hand, c) ==
  pc[c] # "loop" /\ request[c] # 0 /\ request[c] \notin sync
    => hand[request[c]] = <<"loop", c>>
Told(hand, r) ==
  /\ hand[r] = <<"new", None>> <=> r > calls
  /\ answers[r] <= 1
  /\ hand[r] # <<"done", None>> => answers[r] = 0

HandIs(hand) ==
  /\ hand \in [Request -> Hand]
  /\ \A w \in Worker : AskClaim(hand, w)
  /\ \A c \in Client : TaskClaim(hand, c) /\ WireClaim(hand, c) /\ LoopClaim(hand, c)
  /\ \A r \in Request : Told(hand, r)

HandInv == \E hand \in [Request -> Hand] : HandIs(hand)

LEMMA HandInit ==
  ASSUME RedisAssumption, Init
  PROVE  HandInv
<1> DEFINE h == [r \in Request |-> <<"new", None>>]
<1>1. h \in [Request -> Hand]
  BY DEF Hand
<1>2. \A w \in Worker : AskClaim(h, w)
  BY DEF Init, AskClaim, Asking
<1>3. \A c \in Client : TaskClaim(h, c) /\ WireClaim(h, c) /\ LoopClaim(h, c)
  BY DEF Init, TaskClaim, WireClaim, LoopClaim
<1>4. \A r \in Request : Told(h, r)
  <2>1. ASSUME NEW r \in Request PROVE Told(h, r)
    <3>1. r > calls
      BY DEF Init, Request
    <3>2. answers[r] = 0
      BY DEF Init
    <3>3. QED
      BY <3>1, <3>2 DEF Told
  <2>2. QED
    BY <2>1
<1> HIDE DEF h
<1>5. QED
  BY <1>1, <1>2, <1>3, <1>4 DEF HandIs, HandInv

\* Steps that hand nothing on.
LEMMA HandStays ==
  ASSUME HandInv, UNCHANGED <<task, inflight, sync, calls, answers>>,
         \A w \in Worker :
           pc'[w] \in Asking => pc[w] \in Asking /\ request'[w] = request[w],
         \A c \in Client :
           \/ pc'[c] = "loop"
           \/ pc[c] # "loop" /\ request'[c] = request[c]
           \/ request'[c] = 0
  PROVE  HandInv'
<1>1. PICK hand \in [Request -> Hand] : HandIs(hand)
  BY DEF HandInv
<1>2. \A w \in Worker : AskClaim(hand, w)'
  BY <1>1 DEF HandIs, AskClaim
<1>3. \A c \in Client : TaskClaim(hand, c)' /\ WireClaim(hand, c)'
  BY <1>1 DEF HandIs, TaskClaim, WireClaim
<1>4. \A c \in Client : LoopClaim(hand, c)'
  BY <1>1 DEF HandIs, LoopClaim
<1>5. \A r \in Request : Told(hand, r)'
  BY <1>1 DEF HandIs, Told
<1>6. QED
  BY <1>1, <1>2, <1>3, <1>4, <1>5 DEF HandIs, HandInv

\* Request r goes from one hand to another, and everybody else keeps what he
\* has.  Who claims r after the step is p.
LEMMA HandMoves ==
  ASSUME Shape, LocalInv, NEW hand \in [Request -> Hand], HandIs(hand),
         NEW r \in Request, NEW to \in Hand, to # <<"new", None>>,
         \A w \in Worker :
           pc'[w] \in Asking =>
             \/ request'[w] = r /\ to = <<"worker", w>>
             \/ pc[w] \in Asking /\ request'[w] = request[w] /\ hand[r] # <<"worker", w>>,
         \A c \in Client :
           \/ task'[c] = <<>>
           \/ task'[c][1] = r /\ to = <<"task", c>>
           \/ task'[c] = task[c] /\ hand[r] # <<"task", c>>,
         \A c \in Client :
           \/ inflight'[c] = 0
           \/ inflight'[c] = r /\ to = <<"inflight", c>>
           \/ inflight'[c] = inflight[c] /\ hand[r] # <<"inflight", c>>,
         \A c \in Client :
           \/ pc'[c] = "loop"
           \/ request'[c] = 0
           \/ request'[c] \in sync'
           \/ request'[c] = r /\ to = <<"loop", c>>
           \/ pc[c] # "loop" /\ request'[c] = request[c] /\ request[c] \notin sync
                /\ hand[r] # <<"loop", c>>,
         \A s \in Request \ {r} : answers'[s] = answers[s] /\ (s > calls' <=> s > calls),
         ~(r > calls'), answers'[r] <= 1, to # <<"done", None>> => answers'[r] = 0
  PROVE  HandInv'
<1> DEFINE h == [hand EXCEPT ![r] = to]
<1>1. h \in [Request -> Hand] /\ h[r] = to /\ \A s \in Request \ {r} : h[s] = hand[s]
  OBVIOUS
<1> HIDE DEF h
<1>2. ASSUME NEW w \in Worker PROVE AskClaim(h, w)'
  <2>1. CASE pc'[w] \in Asking /\ request'[w] = r /\ to = <<"worker", w>>
    BY <1>1, <2>1 DEF AskClaim
  <2>2. CASE pc[w] \in Asking /\ request'[w] = request[w] /\ hand[r] # <<"worker", w>>
    <3>1. hand[request[w]] = <<"worker", w>>
      BY <2>2 DEF HandIs, AskClaim
    <3>2. request[w] \in Request
      BY <2>2 DEF LocalInv, WorkerPlace, Asking
    <3>3. QED
      BY <1>1, <2>2, <3>1, <3>2 DEF AskClaim
  <2>3. QED
    BY <2>1, <2>2 DEF AskClaim
<1>3. ASSUME NEW c \in Client PROVE TaskClaim(h, c)'
  <2>1. CASE task'[c] # <<>> /\ task'[c][1] = r /\ to = <<"task", c>>
    BY <1>1, <2>1 DEF TaskClaim
  <2>2. CASE task'[c] # <<>> /\ task'[c] = task[c] /\ hand[r] # <<"task", c>>
    <3>1. hand[task[c][1]] = <<"task", c>>
      BY <2>2 DEF HandIs, TaskClaim
    <3>2. task[c][1] \in Request
      BY <2>2 DEF Shape
    <3>3. QED
      BY <1>1, <2>2, <3>1, <3>2 DEF TaskClaim
  <2>3. QED
    BY <2>1, <2>2 DEF TaskClaim
<1>4. ASSUME NEW c \in Client PROVE WireClaim(h, c)'
  <2>1. CASE inflight'[c] = r /\ to = <<"inflight", c>>
    BY <1>1, <2>1 DEF WireClaim
  <2>2. CASE inflight'[c] # 0 /\ inflight'[c] = inflight[c] /\ hand[r] # <<"inflight", c>>
    <3>1. hand[inflight[c]] = <<"inflight", c>>
      BY <2>2 DEF HandIs, WireClaim
    <3>2. inflight[c] \in Request
      BY <2>2 DEF Shape
    <3>3. QED
      BY <1>1, <2>2, <3>1, <3>2 DEF WireClaim
  <2>3. QED
    BY <2>1, <2>2 DEF WireClaim
<1>5. ASSUME NEW c \in Client PROVE LoopClaim(h, c)'
  <2>1. CASE request'[c] = r /\ to = <<"loop", c>>
    BY <1>1, <2>1 DEF LoopClaim
  <2>2. CASE /\ request'[c] # 0 /\ pc[c] # "loop" /\ request'[c] = request[c]
             /\ request[c] \notin sync /\ hand[r] # <<"loop", c>>
    <3>1. hand[request[c]] = <<"loop", c>>
      BY <2>2 DEF HandIs, LoopClaim
    <3>2. request[c] \in Request
      BY <2>2 DEF Shape
    <3>3. QED
      BY <1>1, <2>2, <3>1, <3>2 DEF LoopClaim
  <2>3. QED
    BY <2>1, <2>2 DEF LoopClaim
<1>6. ASSUME NEW s \in Request PROVE Told(h, s)'
  <2>1. CASE s = r
    BY <1>1, <2>1 DEF Told
  <2>2. CASE s # r
    <3>1. Told(hand, s) /\ h[s] = hand[s]
      BY <1>1, <2>2 DEF HandIs
    <3>2. answers'[s] = answers[s] /\ (s > calls' <=> s > calls)
      BY <2>2
    <3>3. QED
      BY <3>1, <3>2 DEF Told
  <2>3. QED
    BY <2>1, <2>2
<1>7. HandIs(h)'
  BY <1>1, <1>2, <1>3, <1>4, <1>5, <1>6 DEF HandIs
<1>8. QED
  BY <1>1, <1>7 DEF HandInv

\* A loop begins to answer a request that it has in hand.
LEMMA HandAnswers ==
  ASSUME RedisAssumption, Shape, LocalInv, NEW hand \in [Request -> Hand], HandIs(hand),
         NEW c \in Client, NEW r \in Request, BeginAnswer(c, r),
         hand[r] = <<"task", c>> \/ hand[r] = <<"inflight", c>>,
         UNCHANGED <<sync, calls>>,
         \A d \in Client :
           \/ task'[d] = <<>>
           \/ task'[d] = task[d] /\ hand[r] # <<"task", d>>,
         \A d \in Client :
           \/ inflight'[d] = 0
           \/ inflight'[d] = inflight[d] /\ hand[r] # <<"inflight", d>>
  PROVE  HandInv'
<1> USE Distinct
<1> DEFINE to == IF r \in sync THEN <<"done", None>> ELSE <<"loop", c>>
<1>1. to \in Hand /\ to # <<"new", None>>
  BY DEF Hand
<1>2. /\ \A w \in Worker : pc'[w] = pc[w] /\ request'[w] = request[w]
      /\ \A d \in Client \ {c} : pc'[d] = pc[d] /\ request'[d] = request[d]
      /\ request'[c] = r
  BY DEF BeginAnswer, Goto, Shape
<1>3. Told(hand, r)
  BY DEF HandIs
<1>4. ~(r > calls') /\ answers[r] = 0
  BY <1>3 DEF Told
<1>5. \A s \in Request \ {r} : answers'[s] = answers[s] /\ (s > calls' <=> s > calls)
  BY DEF BeginAnswer, Shape
<1>6. answers'[r] <= 1 /\ (to # <<"done", None>> => answers'[r] = 0)
  BY <1>4 DEF BeginAnswer, Shape
<1>7. \A w \in Worker :
        pc'[w] \in Asking =>
          pc[w] \in Asking /\ request'[w] = request[w] /\ hand[r] # <<"worker", w>>
  BY <1>2
<1>8. \A d \in Client :
        \/ pc'[d] = "loop"
        \/ request'[d] = 0
        \/ request'[d] \in sync'
        \/ request'[d] = r /\ to = <<"loop", d>>
        \/ pc[d] # "loop" /\ request'[d] = request[d] /\ request[d] \notin sync
             /\ hand[r] # <<"loop", d>>
  BY <1>2
<1> HIDE DEF to
<1>9. QED
  BY <1>1, <1>4, <1>5, <1>6, <1>7, <1>8, HandMoves

LEMMA HandStep ==
  ASSUME RedisAssumption, Shape, LocalInv, PlaceInv, HandInv, [Next]_vars
  PROVE  HandInv'
<1> USE Distinct
<1>0. PICK hand \in [Request -> Hand] : HandIs(hand)
  BY DEF HandInv
<1>p. PICK place \in [Client -> PlaceName] : PlaceIs(place)
  BY DEF PlaceInv
<1>t. /\ pc \in [Worker \cup Client \cup {Io} -> WorkerPc \cup LoopPc \cup IoPc]
      /\ request \in [Worker \cup Client -> Request \cup {0}]
      /\ task \in [Client -> Seq(Request)]
      /\ inflight \in [Client -> Request \cup {0}]
      /\ answers \in [Request -> Nat]
  BY DEF Shape
<1>q. \A c \in Client : task[c] # <<>> => Len(task[c]) = 1 /\ inflight[c] = 0
  BY <1>p DEF PlaceIs, At
\* Somebody takes a step and keeps what he has in hand.
<1>s. ASSUME NEW p \in Worker \cup Client, NEW v, pc' = [pc EXCEPT ![p] = v],
             p \in Worker /\ v \in Asking => pc[p] \in Asking,
             p \in Client => pc[p] # "loop" \/ v = "loop" \/ request[p] = 0,
             UNCHANGED <<task, inflight, sync, calls, answers, request>>
      PROVE  HandInv'
  BY <1>s, <1>t, HandStays
<1>n. ASSUME \A q \in Worker \cup Client : pc'[q] = pc[q],
             UNCHANGED <<task, inflight, sync, calls, answers, request>>
      PROVE  HandInv'
  BY <1>n, HandStays
<1>1. ASSUME NEW p \in Worker \cup Client, CheckRoom(p) PROVE HandInv'
  <2>1. CASE pc' = [pc EXCEPT ![p] = AfterCreate(p)]
    BY <1>1, <1>s, <2>1 DEF CheckRoom, clientVars, callVars, Asking
  <2>2. CASE pc' = [pc EXCEPT ![p] = "create"]
    BY <1>1, <1>s, <2>2 DEF CheckRoom, clientVars, callVars, Asking
  <2>3. QED
    BY <1>1, <2>1, <2>2 DEF CheckRoom, Goto
<1>2. ASSUME NEW p \in Worker \cup Client, NEW c \in Client, Create(p, c) PROVE HandInv'
  BY <1>2, <1>s DEF Create, Goto, callVars, Asking
<1>3. ASSUME NEW w \in Worker, Start(w) PROVE HandInv'
  <2> DEFINE r == calls + 1
  <2>1. /\ pc' = [pc EXCEPT ![w] = "get"] /\ request' = [request EXCEPT ![w] = r]
        /\ calls' = r /\ sync \subseteq sync' /\ UNCHANGED <<task, inflight, answers>>
    BY <1>3 DEF Start, Goto, clientVars
  <2>2. r \in Request /\ calls \in Nat
    BY <1>3, RedisAssumption DEF Start, Shape, Request, RedisAssumption
  <2>3. hand[r] = <<"new", None>> /\ answers[r] = 0
    <3>1. r > calls /\ Told(hand, r)
      BY <1>0, <2>2 DEF HandIs
    <3>2. QED
      BY <3>1 DEF Told
  <2>4. <<"worker", w>> \in Hand
    BY DEF Hand
  <2>5. \A s \in Request \ {r} : answers'[s] = answers[s] /\ (s > calls' <=> s > calls)
    BY <2>1, <2>2 DEF Request
  <2>6. ~(r > calls') /\ answers'[r] <= 1 /\ answers'[r] = 0
    BY <2>1, <2>2, <2>3
  <2> HIDE DEF r
  <2>7. \A v \in Worker :
          pc'[v] \in Asking =>
            \/ request'[v] = r /\ <<"worker", w>> = <<"worker", v>>
            \/ pc[v] \in Asking /\ request'[v] = request[v] /\ hand[r] # <<"worker", v>>
    BY <1>t, <2>1, <2>3
  <2>8. \A c \in Client :
          \/ pc'[c] = "loop"
          \/ request'[c] = 0
          \/ request'[c] \in sync'
          \/ pc[c] # "loop" /\ request'[c] = request[c] /\ request[c] \notin sync
               /\ hand[r] # <<"loop", c>>
    <3>1. ASSUME NEW c \in Client, pc[c] = "loop" PROVE request[c] = 0
      BY <3>1 DEF LocalInv, LoopPlace
    <3>2. QED
      BY <1>t, <2>1, <2>3, <3>1
  <2>9. QED
    BY <1>0, <2>1, <2>2, <2>3, <2>4, <2>5, <2>6, <2>7, <2>8, HandMoves
<1>4. ASSUME NEW w \in Worker, TryDequeue(w) PROVE HandInv'
  BY <1>4, <1>s DEF TryDequeue, Goto, clientVars, callVars, Asking
<1>5. ASSUME NEW w \in Worker, WaitDequeue(w) PROVE HandInv'
  BY <1>5, <1>s DEF WaitDequeue, Goto, clientVars, callVars, Asking
<1>6. ASSUME NEW w \in Worker, Execute(w) PROVE HandInv'
  <2>1. PICK r \in Request, c \in Client : r = request[w] /\ c = conn[w]
    BY <1>6 DEF Execute, LocalInv, WorkerPlace, Shape
  <2>2. task[c] = <<>>
    <3>1. place[c] = "borrowed"
      BY <1>p, <2>1 DEF PlaceIs, Lent
    <3>2. QED
      BY <1>p, <3>1 DEF PlaceIs, At
  <2>3. /\ task' = [task EXCEPT ![c] = <<r>>]
        /\ UNCHANGED <<inflight, request, sync, calls, answers>>
        /\ pc' = [pc EXCEPT ![w] = "future"] \/ pc' = [pc EXCEPT ![w] = "lua"]
        /\ pc[w] = "execute"
    <3>1. Append(<<>>, r) = <<r>>
      OBVIOUS
    <3>2. QED
      BY <1>6, <2>1, <2>2, <3>1 DEF Execute, Goto, callVars
  <2>4. hand[r] = <<"worker", w>>
    BY <1>0, <2>1, <2>3 DEF HandIs, AskClaim, Asking
  <2>5. <<"task", c>> \in Hand
    BY DEF Hand
  <2>6. ~(r > calls') /\ answers'[r] <= 1 /\ answers'[r] = 0
    <3>1. Told(hand, r)
      BY <1>0 DEF HandIs
    <3>2. QED
      BY <2>3, <2>4, <3>1 DEF Told
  <2>7. \A v \in Worker :
          pc'[v] \in Asking =>
            pc[v] \in Asking /\ request'[v] = request[v] /\ hand[r] # <<"worker", v>>
    BY <1>t, <2>3, <2>4 DEF Asking
  <2>8. \A d \in Client :
          \/ task'[d] = <<>>
          \/ task'[d][1] = r /\ <<"task", c>> = <<"task", d>>
          \/ task'[d] = task[d] /\ hand[r] # <<"task", d>>
    BY <1>t, <2>3, <2>4
  <2>9. \A d \in Client : inflight'[d] = inflight[d] /\ hand[r] # <<"inflight", d>>
    BY <2>3, <2>4
  <2>10. \A d \in Client :
           \/ pc'[d] = "loop"
           \/ request'[d] = 0
           \/ request'[d] \in sync'
           \/ pc[d] # "loop" /\ request'[d] = request[d] /\ request[d] \notin sync
                /\ hand[r] # <<"loop", d>>
    BY <1>t, <2>3, <2>4
  <2>11. \A s \in Request \ {r} : answers'[s] = answers[s] /\ (s > calls' <=> s > calls)
    BY <2>3
  <2>12. QED
    BY <1>0, <2>5, <2>6, <2>7, <2>8, <2>9, <2>10, <2>11, HandMoves
<1>7. ASSUME NEW w \in Worker, WaitFor(w) PROVE HandInv'
  BY <1>7, <1>s DEF WaitFor, Goto, clientVars, callVars, Asking
<1>8. ASSUME NEW c \in Client, RunExecute(c) PROVE HandInv'
  <2>1. task[c] # <<>> /\ Len(task[c]) = 1 /\ inflight[c] = 0 /\ pc[c] = "loop"
    BY <1>8, <1>q DEF RunExecute, Looping
  <2>2. PICK r \in Request : r = Head(task[c])
    BY <1>t, <2>1
  <2>3. Tail(task[c]) = <<>> /\ task[c][1] = r
    <3>1. Tail(task[c]) \in Seq(Request) /\ Len(Tail(task[c])) = 0
      BY <1>t, <2>1, HeadTailProperties
    <3>2. Head(task[c]) = task[c][1]
      BY <1>t, <2>1
    <3>3. QED
      BY <2>2, <3>1, <3>2, EmptySeq
  <2>4. hand[r] = <<"task", c>>
    BY <1>0, <2>1, <2>3 DEF HandIs, TaskClaim
  <2>5. task' = [task EXCEPT ![c] = <<>>] /\ UNCHANGED <<sync, calls>>
    BY <1>8, <2>3 DEF RunExecute
  <2>6. \A d \in Client :
          \/ task'[d] = <<>>
          \/ task'[d] = task[d] /\ hand[r] # <<"task", d>>
    BY <1>t, <2>4, <2>5
  <2>7. CASE state[c] # "Connected" \/ inflight[c] # 0
    <3>1. BeginAnswer(c, r) /\ inflight' = inflight
      BY <1>8, <2>2, <2>7 DEF RunExecute
    <3>2. \A d \in Client : inflight'[d] = inflight[d] /\ hand[r] # <<"inflight", d>>
      BY <2>4, <3>1
    <3>3. QED
      BY <1>0, <2>4, <2>5, <2>6, <3>1, <3>2, HandAnswers
  <2>8. CASE ~(state[c] # "Connected" \/ inflight[c] # 0)
    <3>1. inflight' = [inflight EXCEPT ![c] = r] /\ UNCHANGED <<pc, request, answers>>
      BY <1>8, <2>2, <2>8 DEF RunExecute
    <3>2. <<"inflight", c>> \in Hand
      BY DEF Hand
    <3>3. ~(r > calls') /\ answers'[r] <= 1 /\ answers'[r] = 0
      <4>1. Told(hand, r)
        BY <1>0 DEF HandIs
      <4>2. QED
        BY <2>4, <2>5, <3>1, <4>1 DEF Told
    <3>4. \A w \in Worker : hand[r] # <<"worker", w>>
      BY <2>4
    <3>5. \A d \in Client :
            \/ inflight'[d] = r /\ <<"inflight", c>> = <<"inflight", d>>
            \/ inflight'[d] = inflight[d] /\ hand[r] # <<"inflight", d>>
      BY <1>t, <2>4, <3>1
    <3>6. \A d \in Client :
            \/ pc'[d] = "loop"
            \/ request'[d] = 0
            \/ request'[d] \in sync'
            \/ pc[d] # "loop" /\ request'[d] = request[d] /\ request[d] \notin sync
                 /\ hand[r] # <<"loop", d>>
      BY <2>4, <2>5, <3>1
    <3>7. \A s \in Request \ {r} : answers'[s] = answers[s] /\ (s > calls' <=> s > calls)
      BY <2>5, <3>1
    <3>8. QED
      BY <1>0, <2>6, <3>1, <3>2, <3>3, <3>4, <3>5, <3>6, <3>7, HandMoves
  <2>9. QED
    BY <2>7, <2>8
\* The command in flight is answered.
<1>9. ASSUME NEW c \in Client, inflight[c] # 0, BeginAnswer(c, inflight[c]),
             inflight' = [inflight EXCEPT ![c] = 0], UNCHANGED <<task, sync, calls>>
      PROVE  HandInv'
  <2>1. PICK r \in Request : r = inflight[c]
    BY <1>9, <1>t
  <2>2. hand[r] = <<"inflight", c>>
    BY <1>0, <1>9, <2>1 DEF HandIs, WireClaim
  <2>3. \A d \in Client : task'[d] = task[d] /\ hand[r] # <<"task", d>>
    BY <1>9, <2>2
  <2>4. \A d \in Client :
          inflight'[d] = 0 \/ (inflight'[d] = inflight[d] /\ hand[r] # <<"inflight", d>>)
    BY <1>9, <1>t, <2>2
  <2>5. QED
    BY <1>0, <1>9, <2>1, <2>2, <2>3, <2>4, HandAnswers
<1>10. ASSUME NEW c \in Client, Reply(c) PROVE HandInv'
  BY <1>9, <1>10 DEF Reply
<1>11. ASSUME NEW c \in Client, OnConnect(c) \/ AuthOk(c) \/ ReconnectError(c)
       PROVE  HandInv'
  BY <1>11, <1>n DEF OnConnect, AuthOk, ReconnectError, callVars
<1>12. ASSUME NEW c \in Client, NEW again \in BOOLEAN, Looping(c),
              BecomeDisconnected(c, again)
       PROVE  HandInv'
  <2>1. CASE inflight[c] # 0
    BY <1>9, <1>12, <2>1 DEF BecomeDisconnected
  <2>2. CASE inflight[c] = 0
    <3>1. inflight' = inflight /\ UNCHANGED <<task, sync, calls, answers, request>>
      BY <1>12, <1>t, <2>2 DEF BecomeDisconnected
    <3>2. pc[c] = "loop" /\ request[c] = 0
      BY <1>12 DEF Looping, LocalInv, LoopPlace
    <3>3. CASE ready[c]
      BY <1>12, <1>s, <2>2, <3>1, <3>2, <3>3 DEF BecomeDisconnected, Goto
    <3>4. CASE ~ready[c]
      BY <1>12, <1>n, <2>2, <3>1, <3>4 DEF BecomeDisconnected
    <3>5. QED
      BY <3>3, <3>4
  <2>3. QED
    BY <2>1, <2>2
<1>13. ASSUME NEW c \in Client, Release(c) PROVE HandInv'
  BY <1>13, <1>s DEF Release, Goto, clientVars, callVars
<1>14. ASSUME NEW c \in Client, Delete(c) PROVE HandInv'
  BY <1>14, <1>s DEF Delete, Goto, clientVars, callVars
<1>15. ASSUME NEW c \in Client, Answer(c) PROVE HandInv'
  <2>1. PICK r \in Request : r = request[c]
    BY <1>15 DEF Answer, LocalInv, LoopPlace
  <2>2. /\ pc[c] = "answer" /\ pc' = [pc EXCEPT ![c] = "loop"]
        /\ request' = [request EXCEPT ![c] = 0]
        /\ UNCHANGED <<task, inflight, sync, calls>>
    BY <1>15 DEF Answer, Goto, clientVars
  <2>3. CASE r \in sync
    <3>1. answers' = answers
      BY <1>15, <2>1, <2>3 DEF Answer
    <3>2. QED
      BY <1>t, <2>2, <3>1, HandStays
  <2>4. CASE r \notin sync
    <3>1. answers' = [answers EXCEPT ![r] = @ + 1]
      BY <1>15, <2>1, <2>4 DEF Answer
    <3>2. hand[r] = <<"loop", c>>
      BY <1>0, <2>1, <2>2, <2>4 DEF HandIs, LoopClaim, Request
    <3>3. <<"done", None>> \in Hand
      BY DEF Hand
    <3>4. ~(r > calls') /\ answers'[r] <= 1
      <4>1. Told(hand, r)
        BY <1>0 DEF HandIs
      <4>2. QED
        BY <1>t, <2>2, <3>1, <3>2, <4>1 DEF Told
    <3>5. /\ \A w \in Worker : /\ pc'[w] = pc[w] /\ request'[w] = request[w]
                               /\ hand[r] # <<"worker", w>>
          /\ \A d \in Client : hand[r] # <<"task", d>> /\ hand[r] # <<"inflight", d>>
      BY <1>t, <2>2, <3>2
    <3>6. \A d \in Client :
            \/ pc'[d] = "loop"
            \/ request'[d] = 0
            \/ request'[d] \in sync'
            \/ pc[d] # "loop" /\ request'[d] = request[d] /\ request[d] \notin sync
                 /\ hand[r] # <<"loop", d>>
      BY <1>t, <2>2, <3>2
    <3>7. \A s \in Request \ {r} : answers'[s] = answers[s] /\ (s > calls' <=> s > calls)
      BY <1>t, <2>2, <3>1
    <3>8. QED
      BY <1>0, <2>2, <3>3, <3>4, <3>5, <3>6, <3>7, HandMoves
  <2>5. QED
    BY <2>3, <2>4
<1>16. ASSUME IoStep \/ Timer PROVE HandInv'
  <2>1. UNCHANGED <<task, inflight, sync, calls, answers, request>>
    BY <1>16 DEF IoStep, Timer, IoTake, ExpireNext, KeepIdle, Expired, Destroy,
                 DestroyExpired, CountExpired, Free, clientVars, callVars
  <2>2. pc' = pc \/ \E v : pc' = [pc EXCEPT ![Io] = v]
    BY <1>16 DEF IoStep, Timer, IoTake, ExpireNext, KeepIdle, Expired, Destroy,
                 DestroyExpired, CountExpired, Goto
  <2>3. \A q \in Worker \cup Client : pc'[q] = pc[q]
    BY <1>t, <2>2
  <2>4. QED
    BY <2>1, <2>3, <1>n
<1>17. ASSUME UNCHANGED vars PROVE HandInv'
  BY <1>17, <1>n DEF vars, clientVars, callVars
<1> QED
  BY <1>1, <1>2, <1>3, <1>4, <1>5, <1>6, <1>7, <1>8, <1>10, <1>11, <1>12, <1>13, <1>14,
     <1>15, <1>16, <1>17
     DEF Next, WorkerStep, LoopStep, NetworkStep, ConnectError, OnDisconnect, Disconnect

-----------------------------------------------------------------------------
(***************************************************************************)
(* What follows for every reachable state.                                 *)
(***************************************************************************)
RedisInv == Shape /\ LocalInv /\ PlaceInv /\ HandInv

\* At every moment each client has one place and each command one hand that
\* holds it, whatever the workers, the loops, the timer and the I/O thread of
\* MFRedisConnectPool.cpp did before.
THEOREM RedisInvariant == Spec => []RedisInv
<1>1. Init => RedisInv
  BY RedisAssumption, ShapeInit, PlaceInit, HandInit DEF RedisInv
<1>2. RedisInv /\ [Next]_vars => RedisInv'
  BY RedisAssumption, ShapeStep, LocalStep, PlaceStep, HandStep DEF RedisInv
<1> QED
  BY <1>1, <1>2, PTL DEF Spec

\* m_currentPoolSize, changed by workers, loops and the I/O thread in steps of
\* their own, does not fall below zero; every other variable keeps its shape.
THEOREM RedisTypes == Spec => []TypeOK
<1>1. ASSUME RedisInv PROVE TypeOK
  <2>1. PICK place \in [Client -> PlaceName] : PlaceIs(place)
    BY <1>1 DEF RedisInv, PlaceInv
  <2>2. freed \in SUBSET made
    <3>1. ASSUME NEW c \in freed PROVE c \in made
      <4>1. c \in Client
        BY <1>1 DEF RedisInv, Shape
      <4>2. QED
        BY <2>1, <3>1, <4>1 DEF PlaceIs, At
    <3>2. QED
      BY <3>1
  <2>3. poolSize \in Nat
    <3>1. IsFiniteSet(LiveOnes(place))
      BY FS_Subset, RedisAssumption DEF RedisAssumption, LiveOnes
    <3>2. Cardinality(LiveOnes(place)) \in Nat
      BY <3>1, FS_CardinalityType
    <3>3. QED
      BY <2>1, <3>2 DEF PlaceIs, Sized, Expiring
  <2>4. QED
    BY <1>1, <2>2, <2>3 DEF RedisInv, Shape, IoTask, TypeOK
<1> QED
  BY <1>1, RedisInvariant, PTL

\* Which of OnePlace's places holds a client, by its place.
LEMMA Places ==
  ASSUME RedisAssumption, Shape, LocalInv, NEW place \in [Client -> PlaceName],
         PlaceIs(place), NEW c \in Client
  PROVE  /\ Connecting(c) <=> place[c] = "ready"
         /\ Idle(c) <=> place[c] = "idle"
         /\ Borrowed(c) <=> place[c] = "borrowed"
         /\ Working(c) <=> place[c] \in {"task", "inflight", "release"}
         /\ Judged(c) <=> place[c] = "io" /\ pc[Io] \in {"judge", "count"}
         /\ Doomed(c) <=> \/ place[c] \in {"leaving", "queued"}
                          \/ place[c] = "io" /\ pc[Io] = "destroy"
         /\ Freed(c) <=> place[c] = "freed"
         /\ place[c] = "io" => pc[Io] \in {"judge", "count", "destroy"}
<1>1. At(place, c) /\ c # None
  BY Distinct DEF PlaceIs
<1>2. (Connecting(c) <=> place[c] = "ready") /\ (Freed(c) <=> place[c] = "freed")
  BY <1>1 DEF At, Connecting, Freed
<1>3. Idle(c) <=> place[c] = "idle"
  BY <1>1 DEF At, Idle
<1>4. Borrowed(c) <=> place[c] = "borrowed"
  BY <1>1 DEF PlaceIs, Lent, Borrowed
<1>5. Working(c) <=> place[c] \in {"task", "inflight", "release"}
  <2>1. Len(task[c]) = 1 <=> place[c] = "task"
    BY <1>1 DEF At
  <2>2. QED
    BY <1>1, <2>1 DEF At, Working
<1>6. conn[Io] = c <=> place[c] = "io"
  BY <1>1 DEF PlaceIs, Examined
<1>7. (\E i \in 1..Len(ioQueue) : ioQueue[i].client = c) <=> place[c] = "queued"
  BY <1>1 DEF PlaceIs, Queued
<1>8. place[c] = "io" => pc[Io] \in {"judge", "count", "destroy"}
  BY <1>1, <1>6 DEF LocalInv, IoPlace, IoPc
<1>9. pc[c] \in {"check", "create", "delete"} <=> place[c] = "leaving"
  BY <1>1 DEF At
<1>10. Judged(c) <=> place[c] = "io" /\ pc[Io] \in {"judge", "count"}
  BY <1>6 DEF Judged
<1>11. Doomed(c) <=> \/ place[c] \in {"leaving", "queued"}
                     \/ place[c] = "io" /\ pc[Io] = "destroy"
  BY <1>6, <1>7, <1>9 DEF Doomed
<1>12. QED
  BY <1>2, <1>3, <1>4, <1>5, <1>8, <1>10, <1>11

LEMMA OneTrue ==
  ASSUME NEW t, NEW k \in 1..7, \A i \in 1..7 : t[i] <=> i = k
  PROVE  Cardinality({i \in 1..7 : t[i]}) = 1
<1>1. {i \in 1..7 : t[i]} = {k}
  OBVIOUS
<1>2. QED
  BY <1>1, FS_Singleton

LEMMA AtMostOne ==
  ASSUME NEW S, \A x, y \in S : x = y
  PROVE  Cardinality(S) <= 1
<1>1. CASE S = {}
  BY <1>1, FS_EmptySet
<1>2. CASE S # {}
  <2>1. PICK x \in S : TRUE
    BY <1>2
  <2>2. S = {x}
    BY <2>1
  <2>3. Cardinality(S) = 1
    BY <2>2, FS_Singleton
  <2>4. QED
    BY <2>3
<1>3. QED
  BY <1>1, <1>2

\* A connection is never in two places: no worker gets one that another uses
\* or that is about to be deleted, and none is put back, or deleted, twice.
THEOREM OnePlaceAlways == Spec => []OnePlace
<1>1. ASSUME RedisInv, NEW c \in made
      PROVE  /\ Cardinality({i \in 1..7 :
                  <<Connecting(c), Idle(c), Borrowed(c), Working(c), Judged(c),
                    Doomed(c), Freed(c)>>[i]}) = 1
             /\ idle[c] <= 1
             /\ Len(task[c]) <= 1
             /\ Cardinality({w \in Worker : conn[w] = c}) <= 1
             /\ Cardinality({i \in 1..Len(ioQueue) : ioQueue[i].client = c}) <= 1
  <2>1. PICK place \in [Client -> PlaceName] : PlaceIs(place)
    BY <1>1 DEF RedisInv, PlaceInv
  <2>2. c \in Client /\ c # None
    BY <1>1, Distinct, RedisAssumption DEF RedisInv, Shape
  <2>3. At(place, c) /\ place[c] \in PlaceName \ {"none"}
    BY <1>1, <2>1, <2>2 DEF PlaceIs, At
  <2> DEFINE k == IF place[c] = "ready" THEN 1
                  ELSE IF place[c] = "idle" THEN 2
                  ELSE IF place[c] = "borrowed" THEN 3
                  ELSE IF place[c] \in {"task", "inflight", "release"} THEN 4
                  ELSE IF place[c] = "io" /\ pc[Io] \in {"judge", "count"} THEN 5
                  ELSE IF place[c] = "freed" THEN 7
                  ELSE 6
  <2>4. /\ Connecting(c) <=> k = 1
        /\ Idle(c) <=> k = 2
        /\ Borrowed(c) <=> k = 3
        /\ Working(c) <=> k = 4
        /\ Judged(c) <=> k = 5
        /\ Doomed(c) <=> k = 6
        /\ Freed(c) <=> k = 7
    <3>1. /\ Connecting(c) <=> place[c] = "ready"
          /\ Idle(c) <=> place[c] = "idle"
          /\ Borrowed(c) <=> place[c] = "borrowed"
          /\ Working(c) <=> place[c] \in {"task", "inflight", "release"}
          /\ Judged(c) <=> place[c] = "io" /\ pc[Io] \in {"judge", "count"}
          /\ Doomed(c) <=> \/ place[c] \in {"leaving", "queued"}
                           \/ place[c] = "io" /\ pc[Io] = "destroy"
          /\ Freed(c) <=> place[c] = "freed"
          /\ place[c] = "io" => pc[Io] \in {"judge", "count", "destroy"}
      BY <1>1, <2>1, <2>2, Places, RedisAssumption DEF RedisInv
    <3>2. QED
      BY <2>3, <3>1 DEF PlaceName, Live
  <2>5. k \in 1..7
    OBVIOUS
  <2> HIDE DEF k
  <2> DEFINE t == <<Connecting(c), Idle(c), Borrowed(c), Working(c), Judged(c),
                   Doomed(c), Freed(c)>>
  <2>6. Cardinality({i \in 1..7 : t[i]}) = 1
    <3>1. /\ t[1] <=> k = 1
          /\ t[2] <=> k = 2
          /\ t[3] <=> k = 3
          /\ t[4] <=> k = 4
          /\ t[5] <=> k = 5
          /\ t[6] <=> k = 6
          /\ t[7] <=> k = 7
      BY <2>4
    <3> HIDE DEF t
    <3>2. \A i \in 1..7 : t[i] <=> i = k
      BY <3>1
    <3>3. QED
      BY <2>5, <3>2, OneTrue
  <2>7. idle[c] <= 1 /\ Len(task[c]) <= 1
    <3>1. idle[c] = 0 \/ idle[c] = 1
      BY <2>3 DEF At
    <3>2. Len(task[c]) = 1 \/ task[c] = <<>>
      BY <2>3 DEF At
    <3>3. Len(<<>>) = 0
      OBVIOUS
    <3> HIDE DEF t
    <3>4. CASE task[c] = <<>>
      BY <3>1, <3>3, <3>4
    <3>5. CASE Len(task[c]) = 1
      BY <3>1, <3>5
    <3>6. QED
      BY <3>2, <3>4, <3>5
  <2>8. Cardinality({w \in Worker : conn[w] = c}) <= 1
    <3>1. \A v, w \in {u \in Worker : conn[u] = c} : v = w
      BY <2>1, <2>2 DEF PlaceIs, Lent
    <3>2. QED
      BY <3>1, AtMostOne
  <2>9. Cardinality({i \in 1..Len(ioQueue) : ioQueue[i].client = c}) <= 1
    <3>1. \A i, j \in {n \in 1..Len(ioQueue) : ioQueue[n].client = c} : i = j
      BY <2>1, <2>2 DEF PlaceIs, Queued
    <3>2. QED
      BY <3>1, AtMostOne
  <2>10. QED
    BY <2>6, <2>7, <2>8, <2>9
<1>2. RedisInv => OnePlace
  BY <1>1 DEF OnePlace
<1> QED
  BY <1>2, RedisInvariant, PTL

\* The count that createConnect and clearExpiredConnect decide by is that of
\* the usable connections, however their tests and changes interleave.
THEOREM PoolSizeAlways == Spec => []PoolSizeExact
<1>1. ASSUME RedisInv PROVE PoolSizeExact
  <2>1. PICK place \in [Client -> PlaceName] : PlaceIs(place)
    BY <1>1 DEF RedisInv, PlaceInv
  <2> DEFINE L == LiveOnes(place)
  <2>2. \A c \in Client :
          c \in Counted <=> \/ place[c] \in Live
                            \/ place[c] = "io" /\ pc[Io] \in {"judge", "count"}
    <3>1. ASSUME NEW c \in Client
          PROVE  c \in Counted <=> \/ place[c] \in Live
                                   \/ place[c] = "io" /\ pc[Io] \in {"judge", "count"}
      <4>1. /\ Doomed(c) <=> \/ place[c] \in {"leaving", "queued"}
                             \/ place[c] = "io" /\ pc[Io] = "destroy"
            /\ Freed(c) <=> place[c] = "freed"
            /\ place[c] = "io" => pc[Io] \in {"judge", "count", "destroy"}
        BY <1>1, <2>1, Places, RedisAssumption DEF RedisInv
      <4>2. (c \in made <=> place[c] # "none") /\ place[c] \in PlaceName
        BY <2>1 DEF PlaceIs, At
      <4>3. QED
        BY <4>1, <4>2 DEF Counted, PlaceName, Live
    <3>2. QED
      BY <3>1
  <2>3. Counted \subseteq Client
    BY <1>1 DEF Counted, RedisInv, Shape
  <2>4. poolSize = Cardinality(L) + Expiring
    BY <2>1 DEF PlaceIs, Sized
  <2>5. IsFiniteSet(L) /\ Cardinality(L) \in Nat
    BY FS_Subset, FS_CardinalityType, RedisAssumption DEF RedisAssumption, LiveOnes
  <2>6. conn[Io] \in Client \cup {None}
    BY <1>1 DEF RedisInv, Shape
  <2>7. \A c \in Client : place[c] = "io" <=> conn[Io] = c
    BY <2>1, Distinct, RedisAssumption DEF PlaceIs, Examined
  <2>8. CASE pc[Io] \in {"judge", "count"} /\ conn[Io] # None
    <3>1. conn[Io] \in Client /\ conn[Io] \notin L
      BY <2>6, <2>7, <2>8 DEF LiveOnes, Live
    <3>2. Counted = L \cup {conn[Io]}
      BY <2>2, <2>3, <2>7, <2>8, <3>1 DEF LiveOnes
    <3>3. Cardinality(Counted) = Cardinality(L) + 1
      BY <2>5, <3>1, <3>2, FS_AddElement
    <3>4. QED
      BY <2>4, <2>5, <2>8, <3>3 DEF PoolSizeExact, Expiring
  <2>9. CASE ~(pc[Io] \in {"judge", "count"} /\ conn[Io] # None)
    <3>1. Counted = L
      BY <2>2, <2>3, <2>7, <2>9, Distinct, RedisAssumption DEF LiveOnes
    <3>2. pc[Io] # "judge"
      BY <1>1, <2>9 DEF RedisInv, LocalInv, IoPlace
    <3>3. Expiring = IF pc[Io] = "count" /\ conn[Io] = None THEN 1 ELSE 0
      BY <2>9, <3>2 DEF Expiring
    <3>4. QED
      BY <2>4, <3>1, <3>3 DEF PoolSizeExact
  <2>10. QED
    BY <2>8, <2>9
<1> QED
  BY <1>1, RedisInvariant, PTL

\* A reply, an error at once, and the failure of the command in flight when
\* the connection breaks: only one of them reaches the caller.
THEOREM AnsweredOnceAlways == Spec => []AnsweredOnce
<1>1. ASSUME RedisInv, NEW r \in Request
      PROVE  answers[r] <= IF r <= calls THEN 1 ELSE 0
  <2>1. PICK hand \in [Request -> Hand] : HandIs(hand)
    BY <1>1 DEF RedisInv, HandInv
  <2>2. Told(hand, r)
    BY <2>1 DEF HandIs
  <2>3. r \in Nat /\ calls \in Nat /\ answers[r] \in Nat
    BY <1>1, RedisAssumption DEF RedisInv, Shape, Request, RedisAssumption
  <2>4. CASE r > calls
    <3>1. hand[r] = <<"new", None>>
      BY <2>2, <2>4 DEF Told
    <3>2. hand[r] # <<"done", None>>
      BY <3>1
    <3>3. QED
      BY <2>2, <2>3, <2>4, <3>2 DEF Told
  <2>5. CASE r <= calls
    BY <2>2, <2>3, <2>5 DEF Told
  <2>6. QED
    BY <2>3, <2>4, <2>5
<1>2. RedisInv => AnsweredOnce
  BY <1>1 DEF AnsweredOnce
<1> QED
  BY <1>2, RedisInvariant, PTL
=============================================================================
