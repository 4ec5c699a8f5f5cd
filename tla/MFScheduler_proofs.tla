-------------------------- MODULE MFScheduler_proofs --------------------------
(***************************************************************************)
(* The flag m_inReadyQueue is a token: for any sets of services, threads   *)
(* and workers at most one worker drains a service that has not been       *)
(* deleted.  MFScheduler checks it on small instances, here it is proved.  *)
(***************************************************************************)
EXTENDS MFScheduler, FiniteSetTheorems, TLAPS

\* A call that has begun knows its service and its message; a worker knows its
\* service exactly while it serves one.
CallTyped ==
  \A t \in Thread : pc[t] # "idle" => dst[t] \in Service /\ msg[t] \in Message

Serving == {"drain", "handle", "delete", "clear"}

WorkerTyped ==
  \A w \in Worker : IF wpc[w] \in Serving THEN svc[w] \in Service ELSE svc[w] = None

TypeInv == TypeOK /\ CallTyped /\ WorkerTyped

\* Whatever names a service was found in m_serviceMap, so its constructor and
\* its init are over, and addService, still running, owns only the others.
Built(s) == object[s] \in {"live", "freed"}

BuiltInv ==
  /\ \A s \in Service : creator[s] # None => object[s] = "init"
  /\ \A s \in serviceMap : Built(s)
  /\ \A t \in Thread : pc[t] # "idle" => Built(dst[t])
  /\ \A s \in Service : readyQueue[s] > 0 => Built(s)
  /\ \A w \in Worker : wpc[w] \in Serving => Built(svc[w])

-----------------------------------------------------------------------------
\* The initial state is well typed.
LEMMA InitTyped == Init => TypeInv
<1> SUFFICES ASSUME Init PROVE TypeInv
  OBVIOUS
<1>1. TypeOK
  <2>1. messageQueue \in [Service -> Seq(Message)]
    BY DEF Init
  <2>2. calls \in [Thread -> 0..MaxSend]
    BY ThreadAssumption DEF Init
  <2> QED
    BY <2>1, <2>2 DEF Init, TypeOK, CallPc, WorkerPc
<1>2. CallTyped /\ WorkerTyped
  BY DEF Init, CallTyped, WorkerTyped, Serving
<1> QED
  BY <1>1, <1>2 DEF TypeInv

\* Every step keeps the types, and a call or a worker in progress its service.
LEMMA StepTyped == TypeInv /\ [Next]_vars => TypeInv'
<1> SUFFICES ASSUME TypeInv, [Next]_vars PROVE TypeInv'
  OBVIOUS
<1> USE ThreadAssumption
    DEF TypeInv, TypeOK, CallTyped, WorkerTyped, Serving, CallPc, WorkerPc,
        lifeVars, queueVars, callVars, workerVars
<1>1. ASSUME NEW t \in Thread, NEW s \in Service, CreateService(t, s) PROVE TypeInv'
  BY <1>1 DEF CreateService
<1>2. ASSUME NEW t \in Thread, NEW s \in Service, InsertService(t, s) PROVE TypeInv'
  BY <1>2 DEF InsertService
<1>3. ASSUME NEW t \in Thread, NEW s \in Service, NEW k \in {"data", "close"},
             Lookup(t, s, k)
      PROVE TypeInv'
  <2>1. calls[t] + 1 \in 1..MaxSend
    BY <1>3 DEF Lookup
  <2>2. [src |-> t, call |-> calls[t] + 1, kind |-> k] \in Message
    BY <2>1 DEF Message
  <2> QED
    BY <1>3, <2>1, <2>2 DEF Lookup
<1>4. ASSUME NEW t \in Thread, Push(t) PROVE TypeInv'
  <2>1. dst[t] \in Service /\ msg[t] \in Message
    BY <1>4 DEF Push
  <2>2. messageQueue' \in [Service -> Seq(Message)]
    BY <1>4, <2>1 DEF Push
  <2> QED
    BY <1>4, <2>1, <2>2 DEF Push, Touch
<1>5. ASSUME NEW t \in Thread, Link(t) PROVE TypeInv'
  BY <1>5 DEF Link, Touch
<1>6. ASSUME NEW t \in Thread, Exchange(t) PROVE TypeInv'
  <2>1. dst[t] \in Service
    BY <1>6 DEF Exchange
  <2>2. PICK old \in BOOLEAN :
          pc' = [pc EXCEPT ![t] = IF old THEN AfterEnqueue(t) ELSE "enqueue"]
    BY <1>6, <2>1 DEF Exchange
  <2> QED
    BY <1>6, <2>1, <2>2 DEF Exchange, Touch, AfterEnqueue
<1>7. ASSUME NEW t \in Thread, EnqueueReady(t) PROVE TypeInv'
  BY <1>7 DEF EnqueueReady, AfterEnqueue
<1>8. ASSUME NEW t \in Thread, ReadName(t) PROVE TypeInv'
  BY <1>8 DEF ReadName, Touch
<1>9. ASSUME NEW t \in Thread, EraseService(t) PROVE TypeInv'
  BY <1>9 DEF EraseService
<1>10. CASE Shutdown
  <2>1. Cardinality(Worker) \in Nat
    BY FS_CardinalityType
  <2> QED
    BY <1>10, <2>1 DEF Shutdown
<1>11. ASSUME NEW w \in Worker, NEW s \in Service, TakeService(w, s) PROVE TypeInv'
  BY <1>11 DEF TakeService
<1>12. ASSUME NEW w \in Worker, TakeNull(w) PROVE TypeInv'
  BY <1>12 DEF TakeNull
<1>13. ASSUME NEW w \in Worker, Dequeue(w) PROVE TypeInv'
  <2>1. svc[w] \in Service /\ messageQueue[svc[w]] \in Seq(Message)
        /\ messageQueue[svc[w]] # <<>>
    BY <1>13 DEF Dequeue, HeadVisible
  <2>2. Head(messageQueue[svc[w]]) \in Message /\ Tail(messageQueue[svc[w]]) \in Seq(Message)
    BY <2>1
  <2> QED
    BY <1>13, <2>1, <2>2 DEF Dequeue
<1>14. ASSUME NEW w \in Worker, EndHandle(w) PROVE TypeInv'
  BY <1>14 DEF EndHandle
<1>15. ASSUME NEW w \in Worker, DequeueClose(w) PROVE TypeInv'
  BY <1>15 DEF DequeueClose
<1>16. ASSUME NEW w \in Worker, DeleteService(w) PROVE TypeInv'
  BY <1>16 DEF DeleteService
<1>17. ASSUME NEW w \in Worker, DrainEnd(w) PROVE TypeInv'
  BY <1>17 DEF DrainEnd, Touch
<1>18. ASSUME NEW w \in Worker, ClearFlag(w) PROVE TypeInv'
  BY <1>18 DEF ClearFlag, Touch
<1>19. CASE UNCHANGED vars
  BY <1>19 DEF vars
<1> QED
  BY <1>1, <1>2, <1>3, <1>4, <1>5, <1>6, <1>7, <1>8, <1>9, <1>10, <1>11, <1>12,
     <1>13, <1>14, <1>15, <1>16, <1>17, <1>18, <1>19
  DEF Next, StartCall, Send, CloseService, CallStep, WorkerStep

\* Type correctness: every reachable state is well typed.
THEOREM TypeCorrect == Spec => []TypeOK
<1>1. Init => TypeInv
  BY InitTyped
<1>2. TypeInv /\ [Next]_vars => TypeInv'
  BY StepTyped
<1>3. TypeInv => TypeOK
  BY DEF TypeInv
<1> QED
  BY <1>1, <1>2, <1>3, PTL DEF Spec

-----------------------------------------------------------------------------
\* Every step keeps BuiltInv: a service is constructed before anything can name
\* it, and the object a thread names is never unbuilt.
LEMMA StepBuilt == TypeInv /\ BuiltInv /\ [Next]_vars => BuiltInv'
<1> SUFFICES ASSUME TypeInv, BuiltInv, [Next]_vars PROVE BuiltInv'
  OBVIOUS
<1> USE ThreadAssumption
    DEF TypeInv, TypeOK, CallTyped, WorkerTyped, BuiltInv, Built, Serving, CallPc,
        WorkerPc, lifeVars, queueVars, callVars, workerVars
<1>1. ASSUME NEW t \in Thread, NEW s \in Service, CreateService(t, s) PROVE BuiltInv'
  BY <1>1 DEF CreateService
<1>2. ASSUME NEW t \in Thread, NEW s \in Service, InsertService(t, s) PROVE BuiltInv'
  BY <1>2 DEF InsertService
<1>3. ASSUME NEW t \in Thread, NEW s \in Service, NEW k \in {"data", "close"},
             Lookup(t, s, k)
      PROVE BuiltInv'
  BY <1>3 DEF Lookup
<1>4. ASSUME NEW t \in Thread, Push(t) PROVE BuiltInv'
  BY <1>4 DEF Push
<1>5. ASSUME NEW t \in Thread, Link(t) PROVE BuiltInv'
  BY <1>5 DEF Link
<1>6. ASSUME NEW t \in Thread, Exchange(t) PROVE BuiltInv'
  BY <1>6 DEF Exchange, AfterEnqueue
<1>7. ASSUME NEW t \in Thread, EnqueueReady(t) PROVE BuiltInv'
  BY <1>7 DEF EnqueueReady, AfterEnqueue
<1>8. ASSUME NEW t \in Thread, ReadName(t) PROVE BuiltInv'
  BY <1>8 DEF ReadName
<1>9. ASSUME NEW t \in Thread, EraseService(t) PROVE BuiltInv'
  BY <1>9 DEF EraseService
<1>10. CASE Shutdown
  BY <1>10 DEF Shutdown
<1>11. ASSUME NEW w \in Worker, NEW s \in Service, TakeService(w, s) PROVE BuiltInv'
  BY <1>11 DEF TakeService
<1>12. ASSUME NEW w \in Worker, TakeNull(w) PROVE BuiltInv'
  BY <1>12 DEF TakeNull
<1>13. ASSUME NEW w \in Worker, Dequeue(w) PROVE BuiltInv'
  BY <1>13 DEF Dequeue
<1>14. ASSUME NEW w \in Worker, EndHandle(w) PROVE BuiltInv'
  BY <1>14 DEF EndHandle
<1>15. ASSUME NEW w \in Worker, DequeueClose(w) PROVE BuiltInv'
  BY <1>15 DEF DequeueClose
<1>16. ASSUME NEW w \in Worker, DeleteService(w) PROVE BuiltInv'
  <2>1. svc[w] \in Service /\ Built(svc[w]) /\ creator[svc[w]] = None
    BY <1>16 DEF DeleteService
  <2>2. \A s \in Service : object'[s] = IF s = svc[w] THEN "freed" ELSE object[s]
    BY <1>16 DEF DeleteService
  <2>3. \A s \in Service : Built(s) => Built(s)'
    BY <2>2
  <2> QED
    BY <1>16, <2>1, <2>2, <2>3 DEF DeleteService
<1>17. ASSUME NEW w \in Worker, DrainEnd(w) PROVE BuiltInv'
  BY <1>17 DEF DrainEnd
<1>18. ASSUME NEW w \in Worker, ClearFlag(w) PROVE BuiltInv'
  BY <1>18 DEF ClearFlag
<1>19. CASE UNCHANGED vars
  BY <1>19 DEF vars
<1> QED
  BY <1>1, <1>2, <1>3, <1>4, <1>5, <1>6, <1>7, <1>8, <1>9, <1>10,
     <1>11, <1>12, <1>13, <1>14, <1>15, <1>16, <1>17, <1>18, <1>19
  DEF Next, StartCall, Send, CloseService, CallStep, WorkerStep

-----------------------------------------------------------------------------
\* FlagIsToken, one service at a time.
Token(s) ==
  /\ \A t, u \in Winners(s) : t = u
  /\ \A v, w \in Holders(s) : v = w
  /\ readyQueue[s] <= 1
  /\ Winners(s) # {} => readyQueue[s] = 0 /\ Holders(s) = {}
  /\ Holders(s) # {} => readyQueue[s] = 0
  /\ inReadyQueue[s] <=> (Winners(s) # {} \/ readyQueue[s] = 1 \/ Holders(s) # {})

\* Every step keeps the token of every service that is not deleted: the winning
\* exchange creates it, EnqueueReady and TakeService pass it on, ClearFlag
\* destroys it.
LEMMA StepToken ==
  TypeInv /\ BuiltInv /\ FlagIsToken /\ [Next]_vars => FlagIsToken'
<1> SUFFICES ASSUME TypeInv, BuiltInv, FlagIsToken, [Next]_vars,
                    NEW x \in Service, ~Freed(x)'
             PROVE Token(x)'
  BY DEF FlagIsToken, Token
<1> USE ThreadAssumption
    DEF TypeInv, TypeOK, CallTyped, WorkerTyped, Token, Winners, Holders, Freed,
        Serving, CallPc, WorkerPc, lifeVars, queueVars, callVars, workerVars
<1>0. object[x] # "freed" /\ Token(x)
  <2>1. ASSUME object[x] = "freed" PROVE object'[x] = "freed"
    <3>1. creator[x] = None
      BY <2>1 DEF BuiltInv
    <3>2. ASSUME NEW t \in Thread, NEW s \in Service, CreateService(t, s) PROVE object'[x] = "freed"
      BY <2>1, <3>2 DEF CreateService
    <3>3. ASSUME NEW t \in Thread, NEW s \in Service, InsertService(t, s) PROVE object'[x] = "freed"
      BY <2>1, <3>1, <3>3 DEF InsertService, Thread
    <3>4. ASSUME NEW w \in Worker, DeleteService(w) PROVE object'[x] = "freed"
      BY <2>1, <3>4 DEF DeleteService
    <3> QED
      BY <2>1, <3>2, <3>3, <3>4
      DEF Next, StartCall, Send, CloseService, CallStep, WorkerStep, Lookup, Push, Link, Exchange,
          EnqueueReady, ReadName, EraseService, Shutdown, TakeService, TakeNull,
          Dequeue, EndHandle, DequeueClose, DrainEnd, ClearFlag, vars
  <2> QED
    BY <2>1 DEF FlagIsToken
<1>1. ASSUME NEW t \in Thread, NEW s \in Service, CreateService(t, s) PROVE Token(x)'
  BY <1>0, <1>1 DEF CreateService
<1>2. ASSUME NEW t \in Thread, NEW s \in Service, InsertService(t, s) PROVE Token(x)'
  BY <1>0, <1>2 DEF InsertService
<1>3. ASSUME NEW t \in Thread, NEW s \in Service, NEW k \in {"data", "close"},
             Lookup(t, s, k)
      PROVE Token(x)'
  <2>1. Winners(x)' = Winners(x) /\ Holders(x)' = Holders(x)
    BY <1>3 DEF Lookup, CanCall
  <2> QED
    BY <1>0, <1>3, <2>1 DEF Lookup
<1>4. ASSUME NEW t \in Thread, Push(t) PROVE Token(x)'
  BY <1>0, <1>4 DEF Push
<1>5. ASSUME NEW t \in Thread, Link(t) PROVE Token(x)'
  BY <1>0, <1>5 DEF Link
<1>6. ASSUME NEW t \in Thread, Exchange(t) PROVE Token(x)'
  <2>1. dst[t] \in Service /\ t \notin Winners(x)
    BY <1>6 DEF Exchange
  <2>2. UNCHANGED <<readyQueue, svc, dst, object>>
    BY <1>6 DEF Exchange
  <2>3. CASE dst[t] # x \/ inReadyQueue[x]
    <3>1. Winners(x)' = Winners(x)
      BY <1>0, <1>6, <2>1, <2>2, <2>3 DEF Exchange, AfterEnqueue
    <3>2. inReadyQueue'[x] = inReadyQueue[x]
      BY <1>6, <2>1, <2>3 DEF Exchange
    <3> QED
      BY <1>0, <2>2, <3>1, <3>2
  <2>4. CASE dst[t] = x /\ ~inReadyQueue[x]
    <3>1. Winners(x)' = {t}
      BY <1>0, <1>6, <2>1, <2>2, <2>4 DEF Exchange
    <3>2. inReadyQueue'[x]
      BY <1>6, <2>1, <2>4 DEF Exchange
    <3>3. readyQueue[x] = 0 /\ Holders(x) = {}
      BY <1>0, <2>4
    <3> QED
      BY <2>2, <3>1, <3>2, <3>3
  <2> QED
    BY <2>3, <2>4
<1>7. ASSUME NEW t \in Thread, EnqueueReady(t) PROVE Token(x)'
  <2>1. dst[t] \in Service
    BY <1>7 DEF EnqueueReady
  <2>2. UNCHANGED <<inReadyQueue, svc, dst, object>>
    BY <1>7 DEF EnqueueReady
  <2>3. CASE dst[t] # x
    <3>1. Winners(x)' = Winners(x) /\ readyQueue'[x] = readyQueue[x]
      BY <1>7, <2>1, <2>2, <2>3 DEF EnqueueReady, AfterEnqueue
    <3> QED
      BY <1>0, <2>2, <3>1
  <2>4. CASE dst[t] = x
    <3>1. Winners(x) = {t}
      BY <1>0, <1>7, <2>4 DEF EnqueueReady
    <3>2. Winners(x)' = {}
      BY <1>7, <2>2, <3>1 DEF EnqueueReady, AfterEnqueue
    <3>3. readyQueue[x] = 0 /\ Holders(x) = {} /\ inReadyQueue[x]
      BY <1>0, <3>1
    <3>4. readyQueue'[x] = 1
      BY <1>7, <2>4, <3>3 DEF EnqueueReady
    <3> QED
      BY <2>2, <3>2, <3>3, <3>4
  <2> QED
    BY <2>3, <2>4
<1>8. ASSUME NEW t \in Thread, ReadName(t) PROVE Token(x)'
  BY <1>0, <1>8 DEF ReadName
<1>9. ASSUME NEW t \in Thread, EraseService(t) PROVE Token(x)'
  BY <1>0, <1>9 DEF EraseService
<1>10. CASE Shutdown
  BY <1>0, <1>10 DEF Shutdown
<1>11. ASSUME NEW w \in Worker, NEW s \in Service, TakeService(w, s) PROVE Token(x)'
  <2>1. UNCHANGED <<inReadyQueue, pc, dst, object>>
    BY <1>11 DEF TakeService
  <2>2. w \notin Holders(x)
    BY <1>11 DEF TakeService
  <2>3. CASE s # x
    <3>1. Holders(x)' = Holders(x) /\ readyQueue'[x] = readyQueue[x]
      BY <1>11, <2>2, <2>3 DEF TakeService
    <3> QED
      BY <1>0, <2>1, <3>1
  <2>4. CASE s = x
    <3>1. readyQueue[x] = 1 /\ Winners(x) = {} /\ Holders(x) = {} /\ inReadyQueue[x]
      BY <1>0, <1>11, <2>4 DEF TakeService
    <3>2. Holders(x)' = {w} /\ readyQueue'[x] = 0
      BY <1>11, <2>4, <3>1 DEF TakeService
    <3> QED
      BY <2>1, <3>1, <3>2
  <2> QED
    BY <2>3, <2>4
<1>12. ASSUME NEW w \in Worker, TakeNull(w) PROVE Token(x)'
  BY <1>0, <1>12 DEF TakeNull
<1>13. ASSUME NEW w \in Worker, Dequeue(w) PROVE Token(x)'
  BY <1>0, <1>13 DEF Dequeue
<1>14. ASSUME NEW w \in Worker, EndHandle(w) PROVE Token(x)'
  BY <1>0, <1>14 DEF EndHandle
<1>15. ASSUME NEW w \in Worker, DequeueClose(w) PROVE Token(x)'
  BY <1>0, <1>15 DEF DequeueClose
<1>16. ASSUME NEW w \in Worker, DeleteService(w) PROVE Token(x)'
  BY <1>0, <1>16 DEF DeleteService
<1>17. ASSUME NEW w \in Worker, DrainEnd(w) PROVE Token(x)'
  BY <1>0, <1>17 DEF DrainEnd
<1>18. ASSUME NEW w \in Worker, ClearFlag(w) PROVE Token(x)'
  BY <1>0, <1>18 DEF ClearFlag
<1>19. CASE UNCHANGED vars
  BY <1>0, <1>19 DEF vars
<1> QED
  BY <1>1, <1>2, <1>3, <1>4, <1>5, <1>6, <1>7, <1>8, <1>9, <1>10,
     <1>11, <1>12, <1>13, <1>14, <1>15, <1>16, <1>17, <1>18, <1>19
  DEF Next, StartCall, Send, CloseService, CallStep, WorkerStep

-----------------------------------------------------------------------------
\* The inductive invariant.
SchedulerInv == TypeInv /\ BuiltInv /\ FlagIsToken

\* SchedulerInv holds in every reachable state.
THEOREM SchedulerInvariant == Spec => []SchedulerInv
<1>1. Init => SchedulerInv
  <2> SUFFICES ASSUME Init PROVE SchedulerInv
    OBVIOUS
  <2>1. BuiltInv
    BY DEF Init, BuiltInv, Serving
  <2>2. FlagIsToken
    BY ThreadAssumption DEF Init, FlagIsToken, Winners, Holders
  <2> QED
    BY InitTyped, <2>1, <2>2 DEF SchedulerInv
<1>2. SchedulerInv /\ [Next]_vars => SchedulerInv'
  BY StepTyped, StepBuilt, StepToken DEF SchedulerInv
<1> QED
  BY <1>1, <1>2, PTL DEF Spec

\* m_inReadyQueue is TRUE exactly while one sender, ready-queue entry or worker
\* is on its way to drain the service (enqueueService, serviceWorkThread).
THEOREM FlagIsTokenAlways == Spec => []FlagIsToken
<1>1. SchedulerInv => FlagIsToken
  BY DEF SchedulerInv
<1> QED
  BY <1>1, SchedulerInvariant, PTL

\* No two workers are in singleMessage of one service that is not deleted: the
\* single-consumer queue and the unlocked Lua state are used by one thread.
THEOREM OneWorker == Spec => []OneWorkerPerService
<1>1. FlagIsToken => OneWorkerPerService
  BY DEF FlagIsToken, OneWorkerPerService
<1> QED
  BY <1>1, FlagIsTokenAlways, PTL

\* When singleMessage executes delete this, nobody else is about to drain the
\* service (singleMessage, enqueueService).
THEOREM DeletedByOwner == Spec => DeletedByItsOnlyOwner
<1>1. SchedulerInv /\ [Next]_vars =>
        [\A s \in Service :
           ~Freed(s) /\ Freed(s)' =>
             /\ Cardinality(Holders(s)) = 1
             /\ readyQueue[s] = 0
             /\ Winners(s) = {}]_vars
  <2> SUFFICES ASSUME SchedulerInv, Next, NEW s \in Service, ~Freed(s), Freed(s)'
               PROVE /\ Cardinality(Holders(s)) = 1
                     /\ readyQueue[s] = 0
                     /\ Winners(s) = {}
    OBVIOUS
  <2>1. PICK w \in Worker : DeleteService(w)
    BY DEF Freed, SchedulerInv, TypeInv, TypeOK, Next, StartCall, Send, CloseService, CallStep, WorkerStep,
       CreateService, InsertService, Lookup, Push, Link, Exchange, EnqueueReady,
       ReadName, EraseService, Shutdown, TakeService, TakeNull, Dequeue, EndHandle,
       DequeueClose, DrainEnd, ClearFlag, lifeVars
  <2>2. svc[w] = s
    BY <2>1 DEF DeleteService, Freed, SchedulerInv, TypeInv, TypeOK
  <2>3. Holders(s) = {w} /\ readyQueue[s] = 0 /\ Winners(s) = {}
    BY <2>2 DEF SchedulerInv, FlagIsToken, Holders
  <2> QED
    BY <2>3, FS_Singleton
<1> QED
  BY <1>1, SchedulerInvariant, PTL DEF Spec, DeletedByItsOnlyOwner

-----------------------------------------------------------------------------
(***************************************************************************)
(* The scheduler implements the actor of MFMailbox.                        *)
(***************************************************************************)

\* A worker inside a handler, or about to delete, works on a service that is
\* not deleted; and the close message it deletes for is still at the head.
WorkingInv ==
  \A w \in Worker :
    /\ wpc[w] \in {"handle", "delete"} => object[svc[w]] = "live"
    /\ wpc[w] = "delete" =>
         messageQueue[svc[w]] # <<>> /\ Head(messageQueue[svc[w]]).kind = "close"

\* Every step keeps WorkingInv, because the worker is its service's only holder.
LEMMA StepWorking == SchedulerInv /\ WorkingInv /\ [Next]_vars => WorkingInv'
<1> SUFFICES ASSUME SchedulerInv, WorkingInv, [Next]_vars PROVE WorkingInv'
  OBVIOUS
<1>0. ASSUME NEW v \in Worker, NEW w \in Worker, svc[v] = svc[w], svc[v] \in Service,
             object[svc[v]] = "live"
      PROVE v = w
  BY <1>0 DEF SchedulerInv, FlagIsToken, Holders, Freed
<1> USE ThreadAssumption
    DEF SchedulerInv, TypeInv, TypeOK, WorkerTyped, CallTyped, WorkingInv, Built,
        Freed, Serving, CallPc, WorkerPc, lifeVars, queueVars, callVars, workerVars
<1>1. ASSUME NEW t \in Thread, NEW s \in Service, CreateService(t, s) PROVE WorkingInv'
  BY <1>0, <1>1 DEF CreateService
<1>2. ASSUME NEW t \in Thread, NEW s \in Service, InsertService(t, s) PROVE WorkingInv'
  BY <1>0, <1>2 DEF InsertService, BuiltInv
<1>3. ASSUME NEW t \in Thread, NEW s \in Service, NEW k \in {"data", "close"},
             Lookup(t, s, k)
      PROVE WorkingInv'
  BY <1>0, <1>3 DEF Lookup
<1>4. ASSUME NEW t \in Thread, Push(t) PROVE WorkingInv'
  <2>1. dst[t] \in Service /\ msg[t] \in Message
    BY <1>4 DEF Push
  <2>2. ASSUME NEW s \in Service, messageQueue[s] # <<>>
        PROVE messageQueue'[s] # <<>> /\ Head(messageQueue'[s]) = Head(messageQueue[s])
    <3> DEFINE q == messageQueue[s]
    <3>1. q \in Seq(Message) /\ Len(q) > 0
      BY <2>2
    <3>2. messageQueue'[s] \in {q, Append(q, msg[t])}
      BY <1>4, <2>1 DEF Push
    <3>3. /\ Append(q, msg[t]) \in Seq(Message)
          /\ Len(Append(q, msg[t])) = Len(q) + 1
          /\ Append(q, msg[t])[1] = q[1]
      BY <2>1, <3>1
    <3>4. Append(q, msg[t]) # <<>> /\ Head(Append(q, msg[t])) = Head(q)
      BY <3>1, <3>3
    <3> HIDE DEF q
    <3> QED
      BY <2>2, <3>2, <3>4 DEF q
  <2> QED
    BY <1>4, <2>2 DEF Push
<1>5. ASSUME NEW t \in Thread, Link(t) PROVE WorkingInv'
  BY <1>0, <1>5 DEF Link
<1>6. ASSUME NEW t \in Thread, Exchange(t) PROVE WorkingInv'
  BY <1>0, <1>6 DEF Exchange
<1>7. ASSUME NEW t \in Thread, EnqueueReady(t) PROVE WorkingInv'
  BY <1>0, <1>7 DEF EnqueueReady
<1>8. ASSUME NEW t \in Thread, ReadName(t) PROVE WorkingInv'
  BY <1>0, <1>8 DEF ReadName
<1>9. ASSUME NEW t \in Thread, EraseService(t) PROVE WorkingInv'
  BY <1>0, <1>9 DEF EraseService
<1>10. CASE Shutdown
  BY <1>0, <1>10 DEF Shutdown
<1>11. ASSUME NEW w \in Worker, NEW s \in Service, TakeService(w, s) PROVE WorkingInv'
  BY <1>0, <1>11 DEF TakeService
<1>12. ASSUME NEW w \in Worker, TakeNull(w) PROVE WorkingInv'
  BY <1>0, <1>12 DEF TakeNull
<1>13. ASSUME NEW w \in Worker, Dequeue(w) PROVE WorkingInv'
  <2>1. svc[w] \in Service /\ object[svc[w]] = "live"
    BY <1>13 DEF Dequeue, BuiltInv
  <2>2. ASSUME NEW v \in Worker, v # w, wpc[v] \in {"handle", "delete"}
        PROVE svc[v] # svc[w] /\ svc[v] \in Service
    BY <1>0, <2>1, <2>2
  <2> QED
    BY <1>13, <2>1, <2>2 DEF Dequeue
<1>14. ASSUME NEW w \in Worker, EndHandle(w) PROVE WorkingInv'
  BY <1>0, <1>14 DEF EndHandle
<1>15. ASSUME NEW w \in Worker, DequeueClose(w) PROVE WorkingInv'
  BY <1>15 DEF DequeueClose, BuiltInv, HeadVisible
<1>16. ASSUME NEW w \in Worker, DeleteService(w) PROVE WorkingInv'
  BY <1>0, <1>16 DEF DeleteService
<1>17. ASSUME NEW w \in Worker, DrainEnd(w) PROVE WorkingInv'
  BY <1>0, <1>17 DEF DrainEnd
<1>18. ASSUME NEW w \in Worker, ClearFlag(w) PROVE WorkingInv'
  BY <1>0, <1>18 DEF ClearFlag
<1>19. CASE UNCHANGED vars
  BY <1>0, <1>19 DEF vars
<1> QED
  BY <1>1, <1>2, <1>3, <1>4, <1>5, <1>6, <1>7, <1>8, <1>9, <1>10,
     <1>11, <1>12, <1>13, <1>14, <1>15, <1>16, <1>17, <1>18, <1>19
  DEF Next, StartCall, Send, CloseService, CallStep, WorkerStep

\* The mailbox of a step: what a step of the scheduler does to box, busy and
\* stage, service by service.
Same(s) ==
  /\ messageQueue'[s] = messageQueue[s]
  /\ Busy(s)' = Busy(s)
  /\ Stage(s)' = Stage(s)

\* A step that leaves the queues, the objects and the handlers alone is a
\* stuttering step of the mailbox.
LEMMA Stutter ==
  ASSUME TypeInv, UNCHANGED <<messageQueue, object>>,
         \A w \in Worker : wpc[w] = "handle" \/ wpc'[w] = "handle" =>
            UNCHANGED <<wpc[w], svc[w], handling[w]>>
  PROVE  UNCHANGED Mailbox!mailboxVars
<1>1. ASSUME NEW s \in Service PROVE Busy(s)' = Busy(s) /\ Stage(s)' = Stage(s)
  <2>1. {v \in Holders(s) : wpc[v] = "handle"}' = {v \in Holders(s) : wpc[v] = "handle"}
    BY DEF Holders
  <2>2. \A w \in {v \in Holders(s) : wpc[v] = "handle"} : handling'[w] = handling[w]
    BY DEF Holders
  <2> QED
    BY <2>1, <2>2 DEF Busy, Stage, Freed
<1> QED
  BY <1>1 DEF Mailbox!mailboxVars

\* Every step of the scheduler is a step of the mailbox or leaves it unchanged.
LEMMA StepMaps ==
  SchedulerInv /\ WorkingInv /\ [Next]_vars => [Mailbox!Next]_(Mailbox!mailboxVars)
<1> SUFFICES ASSUME SchedulerInv, WorkingInv, [Next]_vars
             PROVE Mailbox!Next \/ UNCHANGED Mailbox!mailboxVars
  OBVIOUS
<1> DEFINE Goal == Mailbox!Next \/ UNCHANGED Mailbox!mailboxVars
<1>a. TypeInv /\ BuiltInv /\ FlagIsToken
  BY DEF SchedulerInv
<1>b. ASSUME NEW s \in Service, NEW w \in Worker, svc[w] = s, ~Freed(s)
      PROVE Holders(s) = {w}
  BY <1>a, <1>b DEF FlagIsToken, Holders
<1>1. ASSUME NEW t \in Thread, NEW s \in Service, CreateService(t, s) PROVE Goal
  <2> USE <1>1 DEF CreateService
  <2>1. \A x \in Service : Stage(x)' = Stage(x)
    BY <1>a DEF Stage, Freed, TypeInv, TypeOK
  <2>2. \A x \in Service : Busy(x)' = Busy(x)
    BY DEF Busy, Holders, workerVars
  <2> QED
    BY <2>1, <2>2 DEF Mailbox!mailboxVars, queueVars
<1>2. ASSUME NEW t \in Thread, NEW s \in Service, InsertService(t, s) PROVE Goal
  <2> USE <1>2 DEF InsertService
  <2>1. object[s] = "init"
    BY <1>a, ThreadAssumption DEF BuiltInv, Thread
  <2>2. [x \in Service |-> Stage(x)]' = [[x \in Service |-> Stage(x)] EXCEPT ![s] = "open"]
    BY <1>a DEF Stage, Freed, TypeInv, TypeOK
  <2>3. [x \in Service |-> Busy(x)]' = [x \in Service |-> Busy(x)]
    BY DEF Busy, Holders, workerVars
  <2>4. Stage(s) = "none"
    BY <2>1 DEF Stage, Freed
  <2>5. Mailbox!Open(s)
    BY <2>2, <2>3, <2>4 DEF Mailbox!Open, queueVars
  <2> QED
    BY <2>5 DEF Mailbox!Next
<1>3. ASSUME NEW t \in Thread, NEW s \in Service, NEW k \in {"data", "close"},
             Lookup(t, s, k)
      PROVE Goal
  BY <1>a, <1>3, Stutter DEF Lookup, TypeInv, TypeOK, lifeVars, queueVars, callVars, workerVars, CanCall
<1>4. ASSUME NEW t \in Thread, Push(t) PROVE Goal
  <2> USE <1>4 DEF Push
  <2>1. dst[t] \in Service /\ msg[t] \in Message /\ Built(dst[t])
    BY <1>a DEF TypeInv, CallTyped, BuiltInv
  <2>2. [x \in Service |-> Busy(x)]' = [x \in Service |-> Busy(x)]
    BY DEF Busy, Holders, workerVars
  <2>3. [x \in Service |-> Stage(x)]' = [x \in Service |-> Stage(x)]
    BY DEF Stage, Freed, lifeVars
  <2>4. CASE Freed(dst[t])
    BY <2>2, <2>3, <2>4 DEF Mailbox!mailboxVars
  <2>5. CASE ~Freed(dst[t])
    <3>1. Stage(dst[t]) = "open"
      BY <2>1, <2>5 DEF Built, Stage, Freed
    <3>2. Mailbox!Post(dst[t], msg[t])
      BY <2>1, <2>2, <2>3, <2>5, <3>1 DEF Mailbox!Post
    <3> QED
      BY <2>1, <3>2 DEF Mailbox!Next
  <2> QED
    BY <2>4, <2>5
<1>5. ASSUME NEW t \in Thread, Link(t) PROVE Goal
  BY <1>a, <1>5, Stutter DEF Link, TypeInv, TypeOK, lifeVars, queueVars, callVars, workerVars, CanCall
<1>6. ASSUME NEW t \in Thread, Exchange(t) PROVE Goal
  BY <1>a, <1>6, Stutter DEF Exchange, TypeInv, TypeOK, lifeVars, queueVars, callVars, workerVars, CanCall
<1>7. ASSUME NEW t \in Thread, EnqueueReady(t) PROVE Goal
  BY <1>a, <1>7, Stutter DEF EnqueueReady, TypeInv, TypeOK, lifeVars, queueVars, callVars, workerVars, CanCall
<1>8. ASSUME NEW t \in Thread, ReadName(t) PROVE Goal
  BY <1>a, <1>8, Stutter DEF ReadName, TypeInv, TypeOK, lifeVars, queueVars, callVars, workerVars, CanCall
<1>9. ASSUME NEW t \in Thread, EraseService(t) PROVE Goal
  BY <1>a, <1>9, Stutter DEF EraseService, TypeInv, TypeOK, lifeVars, queueVars, callVars, workerVars, CanCall
<1>10. CASE Shutdown
  BY <1>a, <1>10, Stutter DEF Shutdown, TypeInv, TypeOK, lifeVars, queueVars, callVars, workerVars, CanCall
<1>11. ASSUME NEW w \in Worker, NEW s \in Service, TakeService(w, s) PROVE Goal
  BY <1>a, <1>11, Stutter DEF TakeService, TypeInv, TypeOK, lifeVars, queueVars, callVars, workerVars, CanCall
<1>12. ASSUME NEW w \in Worker, TakeNull(w) PROVE Goal
  BY <1>a, <1>12, Stutter DEF TakeNull, TypeInv, TypeOK, lifeVars, queueVars, callVars, workerVars, CanCall
<1>13. ASSUME NEW w \in Worker, Dequeue(w) PROVE Goal
  <2> DEFINE s == svc[w]
  <2> USE <1>13 DEF Dequeue
  <2>1. s \in Service /\ Built(s) /\ ~Freed(s)
    BY <1>a DEF TypeInv, WorkerTyped, BuiltInv, Serving
  <2>2. Holders(s) = {w} /\ Holders(s)' = {w}
    BY <1>b, <2>1 DEF Holders
  <2>3. Busy(s) = {} /\ Busy(s)' = {Head(messageQueue[s])}
    BY <1>a, <2>2 DEF Busy, TypeInv, TypeOK
  <2>4. ASSUME NEW x \in Service, x # s PROVE Busy(x)' = Busy(x)
    <3>1. w \notin Holders(x) /\ Holders(x)' = Holders(x)
      BY <2>4 DEF Holders
    <3>2. \A v \in Holders(x) : wpc'[v] = wpc[v] /\ handling'[v] = handling[v]
      BY <1>a, <3>1 DEF TypeInv, TypeOK, Holders
    <3> QED
      BY <3>1, <3>2 DEF Busy
  <2>5. [x \in Service |-> Busy(x)]'
        = [[x \in Service |-> Busy(x)] EXCEPT ![s] = {Head(messageQueue[s])}]
    BY <2>1, <2>3, <2>4
  <2>6. [x \in Service |-> Stage(x)]' = [x \in Service |-> Stage(x)] /\ Stage(s) = "open"
    BY <2>1 DEF Stage, Freed, Built, lifeVars
  <2>7. Mailbox!Handle(s)
    BY <2>1, <2>3, <2>5, <2>6 DEF Mailbox!Handle, HeadVisible
  <2> QED
    BY <2>1, <2>7 DEF Mailbox!Next
<1>14. ASSUME NEW w \in Worker, EndHandle(w) PROVE Goal
  <2> DEFINE s == svc[w]
  <2> USE <1>14 DEF EndHandle
  <2>1. s \in Service /\ ~Freed(s)
    BY <1>a DEF TypeInv, WorkerTyped, Serving, WorkingInv, Freed
  <2>2. Holders(s) = {w} /\ Holders(s)' = {w}
    BY <1>b, <2>1 DEF Holders
  <2>3. Busy(s) # {} /\ Busy(s)' = {}
    BY <1>a, <2>2 DEF Busy, TypeInv, TypeOK
  <2>4. ASSUME NEW x \in Service, x # s PROVE Busy(x)' = Busy(x)
    <3>1. w \notin Holders(x) /\ Holders(x)' = Holders(x)
      BY <2>4 DEF Holders
    <3>2. \A v \in Holders(x) : wpc'[v] = wpc[v] /\ handling'[v] = handling[v]
      BY <1>a, <3>1 DEF TypeInv, TypeOK, Holders
    <3> QED
      BY <3>1, <3>2 DEF Busy
  <2>5. [x \in Service |-> Busy(x)]' = [[x \in Service |-> Busy(x)] EXCEPT ![s] = {}]
    BY <2>1, <2>3, <2>4
  <2>6. [x \in Service |-> Stage(x)]' = [x \in Service |-> Stage(x)]
    BY DEF Stage, Freed, lifeVars
  <2>7. Mailbox!Done(s)
    BY <2>1, <2>3, <2>5, <2>6 DEF Mailbox!Done, queueVars
  <2> QED
    BY <2>1, <2>7 DEF Mailbox!Next
<1>15. ASSUME NEW w \in Worker, DequeueClose(w) PROVE Goal
  BY <1>a, <1>15, Stutter DEF DequeueClose, TypeInv, TypeOK, lifeVars, queueVars, callVars, workerVars, CanCall
<1>16. ASSUME NEW w \in Worker, DeleteService(w) PROVE Goal
  <2> DEFINE s == svc[w]
  <2> USE <1>16 DEF DeleteService
  <2>1. s \in Service /\ object[s] = "live"
    BY <1>a DEF TypeInv, WorkerTyped, Serving, WorkingInv
  <2>2. Holders(s) = {w}
    BY <1>b, <2>1 DEF Freed
  <2>3. Busy(s) = {}
    BY <1>a, <2>2 DEF Busy, TypeInv, TypeOK
  <2>4. ASSUME NEW x \in Service PROVE Busy(x)' = Busy(x)
    <3>1. Holders(x)' = Holders(x)
      BY DEF Holders
    <3>2. \A v \in Worker : wpc[v] = "handle" <=> wpc'[v] = "handle"
      BY <1>a DEF TypeInv, TypeOK
    <3>3. \A v \in Holders(x) : handling'[v] = handling[v] /\ v \in Worker
      BY DEF Holders
    <3>4. {v \in Holders(x) : wpc[v] = "handle"}' = {v \in Holders(x) : wpc[v] = "handle"}
      BY <3>1, <3>2, <3>3
    <3> QED
      BY <3>3, <3>4 DEF Busy
  <2>5. [x \in Service |-> Busy(x)]' = [x \in Service |-> Busy(x)]
    BY <2>4
  <2>6. Stage(s) = "open"
    BY <2>1 DEF Stage
  <2>7. [x \in Service |-> Stage(x)]' = [[x \in Service |-> Stage(x)] EXCEPT ![s] = "gone"]
    BY <1>a, <2>1 DEF Stage, Freed, TypeInv, TypeOK
  <2>8. /\ messageQueue[s] # <<>> /\ Head(messageQueue[s]).kind = "close"
        /\ Head(messageQueue[s]) \in Message
    <3>1. messageQueue[s] \in Seq(Message) /\ messageQueue[s] # <<>>
      BY <1>a, <2>1 DEF TypeInv, TypeOK, WorkingInv
    <3> QED
      BY <3>1 DEF WorkingInv
  <2>9. Mailbox!End(s)
    BY <2>1, <2>3, <2>5, <2>6, <2>7, <2>8 DEF Mailbox!End
  <2> QED
    BY <2>1, <2>9 DEF Mailbox!Next
<1>17. ASSUME NEW w \in Worker, DrainEnd(w) PROVE Goal
  BY <1>a, <1>17, Stutter DEF DrainEnd, TypeInv, TypeOK, lifeVars, queueVars, callVars, workerVars, CanCall
<1>18. ASSUME NEW w \in Worker, ClearFlag(w) PROVE Goal
  BY <1>a, <1>18, Stutter DEF ClearFlag, TypeInv, TypeOK, lifeVars, queueVars, callVars, workerVars, CanCall
<1>19. CASE UNCHANGED vars
  BY <1>a, <1>19, Stutter DEF vars, lifeVars, queueVars, workerVars
<1> QED
  BY <1>1, <1>2, <1>3, <1>4, <1>5, <1>6, <1>7, <1>8, <1>9, <1>10,
     <1>11, <1>12, <1>13, <1>14, <1>15, <1>16, <1>17, <1>18, <1>19
  DEF Next, StartCall, Send, CloseService, CallStep, WorkerStep

\* Whatever the interleaving, the scheduler runs each service as an actor: one
\* handler at a time, in the order of the pushes, none after the close message.
THEOREM SchedulerImplementsMailbox == Spec => ImplementsMailbox
<1>1. Init => Mailbox!Init /\ WorkingInv
  BY DEF Init, Mailbox!Init, Busy, Stage, Freed, Holders, WorkingInv
<1>2. SchedulerInv /\ WorkingInv /\ [Next]_vars => WorkingInv'
  BY StepWorking
<1>3. SchedulerInv /\ WorkingInv /\ [Next]_vars => [Mailbox!Next]_(Mailbox!mailboxVars)
  BY StepMaps
<1> QED
  BY <1>1, <1>2, <1>3, SchedulerInvariant, PTL DEF Spec, ImplementsMailbox, Mailbox!Spec
=============================================================================
