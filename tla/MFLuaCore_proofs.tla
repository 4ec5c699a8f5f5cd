-------------------------- MODULE MFLuaCore_proofs --------------------------
(***************************************************************************)
(* Proofs about MFLuaCore, for every set of services and coroutines and    *)
(* any number of requests, timers and messages.                            *)
(***************************************************************************)
EXTENDS MFLuaCore, FiniteSetTheorems, TLAPS

\* Coroutine c of s is on its stack.
On(s, c) == \E i \in DOMAIN stack[s] : stack[s][i] = c

\* The stack is that of the running coroutines; only they are in a handler, but
\* for the one of a timer, which may wait.
CoInv ==
  \A s \in Service :
    /\ \A i, j \in DOMAIN stack[s] : stack[s][i] = stack[s][j] => i = j
    /\ \A c \in Coroutine :
         /\ (coState[s][c] = "running" <=> On(s, c))
         /\ coState[s][c] = "idle" => after[s][c] = Nothing
         /\ coState[s][c] = "waiting" => after[s][c].session = 0

\* A service in the map runs or has ended, and only one that runs has messages.
ServiceInv ==
  \A s \in Service :
    /\ s \in inMap => stage[s] \in {"live", "gone"}
    /\ box[s] # <<>> => stage[s] = "live"

\* Numbers of timers are given in order; a callback is kept for a timer of the
\* service that was not stopped.
TimerInv ==
  /\ \A i \in Timer : owner[i] # None \/ i \in stopped => i <= timers
  /\ \A s \in Service : \A i \in timerFn[s] \cup ({arming[s]} \ {0}) :
       i \notin stopped /\ owner[i] = s

-----------------------------------------------------------------------------
\* Session r is at place i of s: in the message i, or noted to be answered if i
\* is 0; its caller is then the following.
At(s, i, r) ==
  IF i = 0 THEN callDst[s][r] # None
           ELSE i \in DOMAIN box[s] /\ Carries(box[s][i], r)

Caller(s, i, r) ==
  IF i = 0 THEN callDst[s][r]
           ELSE IF box[s][i].kind = "request" THEN box[s][i].src ELSE s

\* A handler of s is to forget the session.
Answered(s, r) == \E c \in Coroutine : after[s][c].session = r

\* The session is nowhere: not given yet, lost, or answered.
Gone(r) == r > sessions \/ r \in dropped \/ \E s \in Service : Answered(s, r)

\* The session was not lost, and nobody forgets it.
Unused(r) == r \notin dropped /\ \A s \in Service : ~Answered(s, r)

\* A coroutine of d waits for the session, unless d is gone.
Waits(d, r) ==
  stage[d] = "gone" \/ (callCo[d][r] # None /\ coState[d][callCo[d][r]] = "waiting")

\* The session is in one place at most, and its caller waits for it; who waits
\* does not wait in vain.
CallOK(r) ==
  /\ \A s, t \in Service : \A i, j \in Nat : At(s, i, r) /\ At(t, j, r) => s = t /\ i = j
  /\ \A s \in Service : \A i \in Nat :
       At(s, i, r) => ~Gone(r) /\ \E d \in Service : d = Caller(s, i, r) /\ Waits(d, r)
  /\ \A s \in Service : callCo[s][r] # None =>
       /\ r <= sessions
       /\ \A t \in Service : callCo[t][r] # None => t = s
       /\ Answered(s, r) \/ r \in dropped \/ \E t \in Service : \E i \in Nat : At(t, i, r)
  /\ r > sessions => Unused(r)

CallInv == \A r \in Session : CallOK(r)

\* c is noted for session r, whose answer has not come.
Noted(s, r, c) == callCo[s][r] = c /\ (r = 0 \/ ~Answered(s, r))

WaiterInv ==
  \A s \in Service : \A c \in Coroutine : \A r \in Session \cup {0} :
    Noted(s, r, c) =>
      /\ coState[s][c] = "waiting"
      /\ \A q \in Session \cup {0} : Noted(s, q, c) => q = r

LuaInv == TypeOK /\ CoInv /\ ServiceInv /\ TimerInv /\ CallInv /\ WaiterInv
-----------------------------------------------------------------------------
(***************************************************************************)
(* Types.                                                                  *)
(***************************************************************************)
Todo == [session : Session \cup {0}, timer : Timer \cup {0}]

CoTypes ==
  /\ coState \in [Service -> [Coroutine -> {"idle", "running", "waiting"}]]
  /\ stack \in [Service -> Seq(Coroutine)]
  /\ after \in [Service -> [Coroutine -> Todo]]

CallTypes ==
  /\ callCo \in [Service -> [Session \cup {0} -> Coroutine \cup {None}]]
  /\ callDst \in [Service -> [Session -> Service \cup {None}]]
  /\ sessions \in 0..MaxSession
  /\ dropped \subseteq Session

TimerTypes ==
  /\ timerFn \in [Service -> SUBSET Timer]
  /\ arming \in [Service -> Timer \cup {0}]
  /\ armed \subseteq Timer /\ repeats \subseteq Timer /\ stopped \subseteq Timer
  /\ owner \in [Timer -> Service \cup {None}]
  /\ timers \in 0..MaxTimer

StageTypes ==
  /\ stage \in [Service -> {"none", "init", "live", "gone"}]
  /\ inMap \subseteq Service
  /\ closing \in [Service -> Service \cup {None}]
  /\ events \in 0..MaxEvent

BoxTypes == box \in [Service -> Seq(Message)]

LEMMA Types ==
  /\ TypeOK => CoTypes /\ CallTypes /\ TimerTypes /\ StageTypes /\ BoxTypes
  /\ CoTypes' /\ CallTypes' /\ TimerTypes' /\ StageTypes' /\ BoxTypes' => TypeOK'
  BY DEF TypeOK, CoTypes, CallTypes, TimerTypes, StageTypes, BoxTypes, Todo

\* What a group does not touch keeps its types and its meaning.
LEMMA Frames ==
  /\ CoTypes /\ UNCHANGED coVars => CoTypes'
  /\ CallTypes /\ UNCHANGED <<callVars, sessions, dropped>> => CallTypes'
  /\ TimerTypes /\ UNCHANGED timerVars => TimerTypes'
  /\ StageTypes /\ UNCHANGED <<stage, mapVars, events>> => StageTypes'
  /\ BoxTypes /\ UNCHANGED box => BoxTypes'
  BY DEF CoTypes, CallTypes, TimerTypes, StageTypes, BoxTypes, coVars, callVars,
         timerVars, mapVars

LEMMA AppendFacts ==
  ASSUME NEW S, NEW q \in Seq(S), NEW e \in S
  PROVE  /\ Append(q, e) \in Seq(S)
         /\ Len(q) \in Nat /\ DOMAIN q = 1..Len(q)
         /\ DOMAIN Append(q, e) = 1..(Len(q) + 1)
         /\ \A i \in DOMAIN q : Append(q, e)[i] = q[i]
         /\ Append(q, e)[Len(q) + 1] = e
  OBVIOUS

LEMMA TailFacts ==
  ASSUME NEW S, NEW q \in Seq(S), q # <<>>
  PROVE  /\ Tail(q) \in Seq(S) /\ Head(q) \in S
         /\ 1 \in DOMAIN q /\ Head(q) = q[1]
         /\ DOMAIN Tail(q) \subseteq Nat \ {0}
         /\ \A i \in DOMAIN Tail(q) : i + 1 \in DOMAIN q /\ Tail(q)[i] = q[i + 1]
         /\ \A i \in DOMAIN q : i # 1 => i - 1 \in DOMAIN Tail(q) /\ i - 1 \in Nat
  OBVIOUS

LEMMA FrontFacts ==
  ASSUME NEW S, NEW q \in Seq(S), q # <<>>
  PROVE  /\ SubSeq(q, 1, Len(q) - 1) \in Seq(S)
         /\ Len(q) \in DOMAIN q /\ q[Len(q)] \in S
         /\ DOMAIN SubSeq(q, 1, Len(q) - 1) = DOMAIN q \ {Len(q)}
         /\ \A i \in DOMAIN SubSeq(q, 1, Len(q) - 1) :
              SubSeq(q, 1, Len(q) - 1)[i] = q[i]
  OBVIOUS

LEMMA MessageFacts ==
  ASSUME NEW m \in Message
  PROVE  /\ m.kind \in {"event", "close", "request", "response", "timer"}
         /\ m.kind \in {"request", "response"} => m.id \in Session /\ m.id # 0
         /\ m.kind = "request" => m.src \in Service /\ m.src # None
         /\ m.kind = "timer" => m.id \in Timer \cup {0}
  BY LuaAssumption DEF Message, Session

LEMMA MsgTyped ==
  /\ Msg("event", 0, None) \in Message /\ Msg("close", 0, None) \in Message
  /\ \A i \in Timer \cup {0} : Msg("timer", i, None) \in Message
  /\ \A r \in Session : Msg("response", r, None) \in Message
  /\ \A r \in Session : \A s \in Service : Msg("request", r, s) \in Message
  BY DEF Message, Msg

LEMMA PostTyped ==
  ASSUME BoxTypes, NEW d \in Service, NEW m \in Message, Post(d, m)
  PROVE  /\ BoxTypes'
         /\ \A t \in Service : t # d => box'[t] = box[t]
         /\ box'[d] = Append(box[d], m)
<1>1. box[d] \in Seq(Message) /\ box' = [box EXCEPT ![d] = Append(@, m)]
  BY DEF BoxTypes, Post
<1>2. Append(box[d], m) \in Seq(Message)
  BY <1>1, AppendFacts
<1> QED
  BY <1>1, <1>2 DEF BoxTypes

LEMMA TakeTyped ==
  ASSUME BoxTypes, NEW s \in Service, NEW kind, Take(s, kind)
  PROVE  /\ BoxTypes'
         /\ \A t \in Service : t # s => box'[t] = box[t]
         /\ box'[s] = Tail(box[s])
         /\ box[s] \in Seq(Message) /\ box[s] # <<>>
         /\ Head(box[s]) \in Message /\ Head(box[s]).kind = kind
<1>1. /\ box[s] \in Seq(Message) /\ box[s] # <<>>
      /\ box' = [box EXCEPT ![s] = Tail(@)] /\ Head(box[s]).kind = kind
  BY DEF BoxTypes, Take
<1>2. Tail(box[s]) \in Seq(Message) /\ Head(box[s]) \in Message
  BY <1>1, TailFacts
<1> QED
  BY <1>1, <1>2 DEF BoxTypes

LEMMA CoCreateTyped ==
  ASSUME CoTypes, NEW s \in Service, NEW c \in Coroutine, NEW todo \in Todo,
         CoCreate(s, c, todo)
  PROVE  CoTypes'
<1>1. Append(stack[s], c) \in Seq(Coroutine)
  BY AppendFacts DEF CoTypes
<1> QED
  BY <1>1 DEF CoTypes, CoCreate

LEMMA PopTyped ==
  ASSUME CoTypes, NEW s \in Service, stack[s] # <<>>
  PROVE  /\ Top(s) \in Coroutine /\ after[s][Top(s)] \in Todo
         /\ Pop(s) => stack' \in [Service -> Seq(Coroutine)]
         /\ Leave(s) => CoTypes'
<1>1. /\ SubSeq(stack[s], 1, Len(stack[s]) - 1) \in Seq(Coroutine)
      /\ Top(s) \in Coroutine
  <2>1. stack[s] \in Seq(Coroutine)
    BY DEF CoTypes
  <2> QED
    BY <2>1, FrontFacts DEF Top
<1>2. Pop(s) => stack' \in [Service -> Seq(Coroutine)]
  BY <1>1 DEF CoTypes, Pop
<1>3. Nothing \in Todo
  BY DEF Nothing, Todo
<1>4. Leave(s) => CoTypes'
  BY <1>1, <1>2, <1>3 DEF CoTypes, Leave
<1> QED
  BY <1>1, <1>2, <1>4 DEF CoTypes

LEMMA TypesKept ==
  ASSUME TypeOK, [Next]_vars
  PROVE  TypeOK'
<1> USE DEF coVars, callVars, timerVars, mapVars
<1>0. /\ CoTypes /\ CallTypes /\ TimerTypes /\ StageTypes /\ BoxTypes
      /\ MaxSession \in Nat /\ MaxTimer \in Nat /\ MaxEvent \in Nat
      /\ Nothing \in Todo
  BY Types, LuaAssumption DEF Nothing, Todo
<1>1. ASSUME NEW s \in Service, NEW c \in Coroutine, Spawn(s, c) PROVE TypeOK'
  <2>1. CoTypes'
    BY <1>0, <1>1, CoCreateTyped DEF Spawn
  <2>2. StageTypes'
    BY <1>0, <1>1 DEF Spawn, StageTypes
  <2> QED
    BY <1>0, <1>1, <2>1, <2>2, Types, Frames DEF Spawn
<1>2. ASSUME NEW s \in Service, NEW c \in Coroutine, OnEvent(s, c) PROVE TypeOK'
  <2>1. CoTypes' /\ BoxTypes'
    BY <1>0, <1>2, CoCreateTyped, TakeTyped DEF OnEvent
  <2> QED
    BY <1>0, <1>2, <2>1, Types, Frames DEF OnEvent
<1>3. ASSUME NEW s \in Service, NEW c \in Coroutine, OnRequest(s, c) PROVE TypeOK'
  <2>1. CoTypes' /\ BoxTypes' /\ Head(box[s]) \in Message /\ Head(box[s]).kind = "request"
    BY <1>0, <1>3, CoCreateTyped, TakeTyped DEF OnRequest
  <2>2. Head(box[s]).id \in Session /\ Head(box[s]).src \in Service
    BY <2>1, MessageFacts
  <2>3. CallTypes'
    BY <1>0, <1>3, <2>2 DEF OnRequest, CallTypes
  <2> QED
    BY <1>0, <1>3, <2>1, <2>3, Types, Frames DEF OnRequest
<1>4. ASSUME NEW s \in Service, NEW c \in Coroutine, OnResponse(s, c) PROVE TypeOK'
  <2> DEFINE r == Head(box[s]).id
             w == callCo[s][r]
  <2>1. BoxTypes' /\ Head(box[s]) \in Message /\ Head(box[s]).kind = "response"
    BY <1>0, <1>4, TakeTyped DEF OnResponse
  <2>2. r \in Session
    BY <2>1, MessageFacts
  <2>3. w \in Coroutine \cup {None} /\ [session |-> r, timer |-> 0] \in Todo
    BY <1>0, <2>2 DEF CallTypes, Todo
  <2>4. CASE w = None
    BY <1>0, <1>4, <2>1, <2>4, Types, Frames DEF OnResponse
  <2>5. CASE w # None
    <3>1. <<c, w>> \in Seq(Coroutine)
      BY <2>3, <2>5
    <3>2. /\ coState' = [coState EXCEPT ![s][c] = "running", ![s][w] = "running"]
          /\ stack' = [stack EXCEPT ![s] = <<c, w>>]
          /\ after' = [after EXCEPT ![s][c] = [session |-> r, timer |-> 0]]
      BY <1>4, <2>5 DEF OnResponse
    <3> HIDE DEF r, w
    <3>3. CoTypes'
      BY <1>0, <2>3, <2>5, <3>1, <3>2 DEF CoTypes
    <3> USE DEF r, w
    <3> QED
      BY <1>0, <1>4, <2>1, <3>3, Types, Frames DEF OnResponse
  <2> QED
    BY <2>4, <2>5
<1>5. ASSUME NEW s \in Service, NEW c \in Coroutine, OnTimer(s, c) PROVE TypeOK'
  <2> DEFINE i == Head(box[s]).id
             todo == [session |-> 0, timer |-> i]
  <2>1. BoxTypes' /\ Head(box[s]) \in Message /\ Head(box[s]).kind = "timer"
    BY <1>0, <1>5, TakeTyped DEF OnTimer
  <2>2. todo \in Todo
    BY <2>1, MessageFacts DEF Todo
  <2>3. CoTypes'
    BY <1>0, <1>5, <2>2, CoCreateTyped, Frames DEF OnTimer
  <2> QED
    BY <1>0, <1>5, <2>1, <2>3, Types, Frames DEF OnTimer
<1>6. ASSUME NEW s \in Service, Finish(s) PROVE TypeOK'
  <2> DEFINE todo == after[s][Top(s)]
  <2>1. CoTypes' /\ todo \in Todo
    BY <1>0, <1>6, PopTyped DEF Finish, InCoroutine
  <2>2. CallTypes'
    BY <1>0, <1>6, <2>1 DEF Finish, CallTypes
  <2>3. TimerTypes'
    BY <1>0, <1>6, <2>1 DEF Finish, TimerTypes
  <2> QED
    BY <1>0, <1>6, <2>1, <2>2, <2>3, Types, Frames DEF Finish
<1>7. ASSUME NEW s \in Service, Raise(s) PROVE TypeOK'
  <2>1. CoTypes'
    BY <1>0, <1>7, PopTyped DEF Raise, InProgram, InCoroutine
  <2> QED
    BY <1>0, <1>7, <2>1, Types, Frames DEF Raise
<1>8. ASSUME NEW s \in Service,
             \/ Deliver(s) \/ EraseService(s) \/ \E d \in Service : CloseService(s, d)
      PROVE  TypeOK'
  <2>1. BoxTypes'
    BY <1>0, <1>8, PostTyped, MsgTyped, Frames DEF Deliver, CloseService, EraseService
  <2>2. StageTypes'
    BY <1>0, <1>8 DEF Deliver, CloseService, EraseService, StageTypes
  <2> QED
    BY <1>0, <1>8, <2>1, <2>2, Types, Frames DEF Deliver, CloseService, EraseService
<1>9. ASSUME NEW s \in Service, AddService(s) \/ InsertService(s) PROVE TypeOK'
  <2>1. StageTypes'
    BY <1>0, <1>9 DEF AddService, InsertService, StageTypes
  <2> QED
    BY <1>0, <1>9, <2>1, Types, Frames DEF AddService, InsertService
<1>10. ASSUME NEW s \in Service, OnClose(s) PROVE TypeOK'
  <2>1. SessionsOf(box[s]) \subseteq Session
    <3>1. box[s] \in Seq(Message)
      BY <1>0 DEF BoxTypes
    <3>2. \A i \in 1..Len(box[s]) : box[s][i] \in Message
      BY <3>1
    <3> QED
      BY <3>2, MessageFacts DEF SessionsOf
  <2>2. BoxTypes'
    BY <1>0, <1>10 DEF OnClose, BoxTypes
  <2>3. StageTypes' /\ TimerTypes'
    BY <1>0, <1>10 DEF OnClose, StageTypes, TimerTypes
  <2>4. CoTypes'
    BY <1>0, <1>10 DEF OnClose, CoTypes
  <2>5. CallTypes'
    BY <1>0, <1>10, <2>1 DEF OnClose, CallTypes
  <2> QED
    BY <2>2, <2>3, <2>4, <2>5, Types
<1>11. ASSUME NEW s \in Service, NEW d \in Service, LocalRequest(s, d) PROVE TypeOK'
  <2> DEFINE r == IF d \in inMap THEN sessions + 1 ELSE 0
  <2>1. /\ r \in Session \cup {0} /\ (r # 0 => r = sessions + 1 /\ r \in 0..MaxSession)
        /\ Reaches(d) => r \in Session
    BY <1>0, <1>11 DEF LocalRequest, CallTypes, Session, Reaches
  <2>2. Top(s) \in Coroutine /\ stack' \in [Service -> Seq(Coroutine)]
    BY <1>0, <1>11, PopTyped DEF LocalRequest, InProgram, InCoroutine
  <2>3. BoxTypes'
    BY <1>0, <1>11, <2>1, PostTyped, MsgTyped, Frames DEF LocalRequest
  <2>4. CoTypes'
    BY <1>0, <1>11, <2>2 DEF LocalRequest, CoTypes
  <2>5. CallTypes'
    BY <1>0, <1>11, <2>1, <2>2 DEF LocalRequest, CallTypes
  <2> QED
    BY <1>0, <1>11, <2>3, <2>4, <2>5, Types, Frames DEF LocalRequest
<1>12. ASSUME NEW s \in Service, NEW r \in Session, LocalResponse(s, r) PROVE TypeOK'
  <2>1. callDst[s][r] \in Service
    BY <1>0, <1>12 DEF LocalResponse, CallTypes
  <2>2. BoxTypes'
    BY <1>0, <1>12, <2>1, PostTyped, MsgTyped, Frames DEF LocalResponse
  <2>3. CallTypes'
    BY <1>0, <1>12 DEF LocalResponse, CallTypes
  <2> QED
    BY <1>0, <1>12, <2>2, <2>3, Types, Frames DEF LocalResponse
<1>13. ASSUME NEW s \in Service, NEW again \in BOOLEAN, Arm(s, again) PROVE TypeOK'
  <2>1. timers + 1 \in Timer /\ timers + 1 \in 0..MaxTimer
    BY <1>0, <1>13 DEF Arm, TimerTypes, Timer
  <2>2. TimerTypes'
    BY <1>0, <1>13, <2>1 DEF Arm, TimerTypes
  <2> QED
    BY <1>0, <1>13, <2>2, Types, Frames DEF Arm
<1>14. ASSUME NEW s \in Service,
              GetTimerId(s) \/ \E i \in Timer : StopSchedule(s, i)
       PROVE  TypeOK'
  <2>1. TimerTypes'
    BY <1>0, <1>14 DEF GetTimerId, StopSchedule, TimerTypes
  <2> QED
    BY <1>0, <1>14, <2>1, Types, Frames DEF GetTimerId, StopSchedule
<1>15. ASSUME NEW i \in Timer, Invalidate(i) PROVE TypeOK'
  <2>1. TimerTypes'
    BY <1>0, <1>15 DEF Invalidate, TimerTypes
  <2> QED
    BY <1>0, <1>15, <2>1, Types, Frames DEF Invalidate
<1>16. ASSUME NEW i \in Timer, Fire(i) PROVE TypeOK'
  <2>1. owner[i] \in inMap => owner[i] \in Service
    BY <1>0 DEF StageTypes
  <2>2. BoxTypes'
    <3>1. CASE Reaches(owner[i])
      <4> PICK id \in {i} \cup (IF arming[owner[i]] = i THEN {0} ELSE {}) :
                Post(owner[i], Msg("timer", id, None))
        BY <1>16, <3>1 DEF Fire
      <4> QED
        BY <1>0, <2>1, <3>1, PostTyped, MsgTyped DEF Reaches
    <3>2. CASE ~Reaches(owner[i])
      BY <1>0, <1>16, <3>2, Frames DEF Fire
    <3> QED
      BY <3>1, <3>2
  <2>3. StageTypes' /\ TimerTypes'
    BY <1>0, <1>16 DEF Fire, StageTypes, TimerTypes
  <2> QED
    BY <1>0, <1>16, <2>2, <2>3, Types, Frames DEF Fire
<1>17. CASE UNCHANGED vars
  BY <1>0, <1>17, Types, Frames DEF vars
<1> QED
  BY <1>1, <1>2, <1>3, <1>4, <1>5, <1>6, <1>7, <1>8, <1>9, <1>10, <1>11, <1>12,
     <1>13, <1>14, <1>15, <1>16, <1>17 DEF Next, Step, Handle

-----------------------------------------------------------------------------
(***************************************************************************)
(* Coroutines.                                                             *)
(***************************************************************************)
\* A service whose coroutines are well ordered.
CoOK(s) ==
  /\ \A i, j \in DOMAIN stack[s] : stack[s][i] = stack[s][j] => i = j
  /\ \A c \in Coroutine :
       /\ (coState[s][c] = "running" <=> On(s, c))
       /\ coState[s][c] = "idle" => after[s][c] = Nothing
       /\ coState[s][c] = "waiting" => after[s][c].session = 0

LEMMA CoByService ==
  /\ CoInv => \A s \in Service : CoOK(s)
  /\ (\A s \in Service : CoOK(s)') => CoInv'
  BY DEF CoInv, CoOK, On

\* Only the service that acts changes.
LEMMA OtherCo ==
  ASSUME CoInv, NEW s \in Service, CoOK(s)',
         \A t \in Service : t # s => /\ coState'[t] = coState[t]
                                    /\ stack'[t] = stack[t]
                                    /\ after'[t] = after[t]
  PROVE  CoInv'
<1>1. ASSUME NEW t \in Service, t # s PROVE CoOK(t)'
  <2>1. CoOK(t)
    BY CoByService
  <2>2. coState'[t] = coState[t] /\ stack'[t] = stack[t] /\ after'[t] = after[t]
    BY <1>1
  <2> QED
    BY <2>1, <2>2 DEF CoOK, On
<1> QED
  BY <1>1, CoByService

LEMMA Created ==
  ASSUME CoTypes, CoInv, NEW s \in Service, NEW c \in Coroutine, NEW todo \in Todo,
         CoCreate(s, c, todo)
  PROVE  CoInv'
<1> DEFINE q == stack[s]
<1>1. /\ CoOK(s) /\ q \in Seq(Coroutine) /\ coState[s][c] = "idle"
      /\ coState' = [coState EXCEPT ![s][c] = "running"]
      /\ stack' = [stack EXCEPT ![s] = Append(q, c)]
      /\ after' = [after EXCEPT ![s][c] = todo]
  BY CoByService DEF CoTypes, CoCreate
<1>2. /\ stack'[s] = Append(q, c)
      /\ coState'[s] = [coState[s] EXCEPT ![c] = "running"]
      /\ after'[s] = [after[s] EXCEPT ![c] = todo]
      /\ coState[s] \in [Coroutine -> {"idle", "running", "waiting"}]
      /\ after[s] \in [Coroutine -> Todo]
  BY <1>1 DEF CoTypes
<1>3. /\ DOMAIN q = 1..Len(q) /\ Len(q) \in Nat
      /\ DOMAIN stack'[s] = 1..(Len(q) + 1)
      /\ \A i \in DOMAIN q : stack'[s][i] = q[i]
      /\ stack'[s][Len(q) + 1] = c
  BY <1>1, <1>2, AppendFacts
<1>4. \A i \in DOMAIN q : q[i] # c
  BY <1>1 DEF CoOK, On
<1>5. \A i \in DOMAIN stack'[s] : i \in DOMAIN q \/ i = Len(q) + 1
  BY <1>3
<1>6. \A i, j \in DOMAIN stack'[s] : stack'[s][i] = stack'[s][j] => i = j
  BY <1>1, <1>3, <1>4, <1>5 DEF CoOK
<1>7. \A d \in Coroutine : On(s, d)' <=> (On(s, d) \/ d = c)
  <2>1. Len(q) + 1 \in DOMAIN stack'[s] /\ DOMAIN q \subseteq DOMAIN stack'[s]
    BY <1>3
  <2> QED
    BY <1>3, <1>5, <2>1 DEF On
<1>8. CoOK(s)'
  BY <1>1, <1>2, <1>6, <1>7 DEF CoOK
<1>9. \A t \in Service : t # s => /\ coState'[t] = coState[t]
                                 /\ stack'[t] = stack[t] /\ after'[t] = after[t]
  BY <1>1 DEF CoTypes
<1> QED
  BY <1>8, <1>9, OtherCo

\* The running coroutine gives way.
LEMMA Popped ==
  ASSUME CoTypes, CoInv, NEW s \in Service, stack[s] # <<>>, Pop(s)
  PROVE  /\ Top(s) \in Coroutine /\ coState[s][Top(s)] = "running"
         /\ \A i, j \in DOMAIN stack'[s] : stack'[s][i] = stack'[s][j] => i = j
         /\ \A d \in Coroutine : On(s, d)' <=> (On(s, d) /\ d # Top(s))
<1> DEFINE q == stack[s]
<1>1. CoOK(s) /\ q \in Seq(Coroutine) /\ stack'[s] = SubSeq(q, 1, Len(q) - 1)
  BY CoByService DEF CoTypes, Pop
<1>2. /\ Len(q) \in DOMAIN q /\ q[Len(q)] \in Coroutine
      /\ DOMAIN stack'[s] = DOMAIN q \ {Len(q)}
      /\ \A i \in DOMAIN stack'[s] : stack'[s][i] = q[i]
  BY <1>1, FrontFacts
<1>3. coState[s][Top(s)] = "running"
  BY <1>1, <1>2 DEF CoOK, On, Top
<1>4. \A i, j \in DOMAIN stack'[s] : stack'[s][i] = stack'[s][j] => i = j
  BY <1>1, <1>2 DEF CoOK
<1>5. \A i \in DOMAIN q : q[i] = Top(s) => i = Len(q)
  BY <1>1, <1>2 DEF CoOK, Top
<1>6. \A d \in Coroutine : On(s, d)' <=> (On(s, d) /\ d # Top(s))
  BY <1>2, <1>5 DEF On, Top
<1> QED
  BY <1>2, <1>3, <1>4, <1>6 DEF Top

LEMMA CoLeft ==
  ASSUME CoTypes, CoInv, NEW s \in Service, stack[s] # <<>>, Leave(s)
  PROVE  CoInv'
<1> DEFINE c == Top(s)
<1>1. /\ CoOK(s) /\ Pop(s)
      /\ coState' = [coState EXCEPT ![s][c] = "idle"]
      /\ after' = [after EXCEPT ![s][c] = Nothing]
      /\ \A t \in Service : t # s => stack'[t] = stack[t]
  BY CoByService DEF Leave, Pop, CoTypes
<1>2. /\ c \in Coroutine
      /\ \A i, j \in DOMAIN stack'[s] : stack'[s][i] = stack'[s][j] => i = j
      /\ \A d \in Coroutine : On(s, d)' <=> (On(s, d) /\ d # c)
  BY <1>1, Popped
<1> HIDE DEF c
<1>3. /\ coState'[s] = [coState[s] EXCEPT ![c] = "idle"]
      /\ after'[s] = [after[s] EXCEPT ![c] = Nothing]
      /\ coState[s] \in [Coroutine -> {"idle", "running", "waiting"}]
      /\ after[s] \in [Coroutine -> Todo]
      /\ \A t \in Service : t # s => coState'[t] = coState[t] /\ after'[t] = after[t]
  BY <1>1, <1>2 DEF CoTypes
<1>4. CoOK(s)'
  BY <1>1, <1>2, <1>3 DEF CoOK
<1> QED
  BY <1>1, <1>3, <1>4, OtherCo

\* The coroutine that the answer in front resumes waits.
LEMMA HeadWaits ==
  ASSUME CallInv, ServiceInv, BoxTypes, NEW s \in Service, Take(s, "response")
  PROVE  LET w == callCo[s][Head(box[s]).id] IN w # None /\ coState[s][w] = "waiting"
<1> DEFINE m == Head(box[s])
<1>1. box[s] \in Seq(Message) /\ box[s] # <<>> /\ m \in Message /\ m.kind = "response"
  BY TakeTyped
<1>2. m.id \in Session /\ 1 \in DOMAIN box[s] /\ m = box[s][1]
  BY <1>1, MessageFacts, TailFacts
<1>3. At(s, 1, m.id) /\ Caller(s, 1, m.id) = s
  BY <1>1, <1>2 DEF At, Caller, Carries
<1>4. CallOK(m.id) /\ 1 \in Nat
  BY <1>2 DEF CallInv
<1>5. Waits(s, m.id)
  BY <1>3, <1>4 DEF CallOK
<1>6. stage[s] = "live"
  BY <1>1 DEF ServiceInv
<1> QED
  BY <1>5, <1>6 DEF Waits

LEMMA CoKept ==
  ASSUME TypeOK, CoInv, CallInv, ServiceInv, [Next]_vars
  PROVE  CoInv'
<1>0. /\ CoTypes /\ CallTypes /\ TimerTypes /\ BoxTypes
      /\ Nothing \in Todo /\ Nothing.session = 0
  BY Types DEF Nothing, Todo
<1>a. CASE UNCHANGED coVars
  BY <1>a DEF coVars, CoInv, On
<1>1. ASSUME NEW s \in Service, NEW c \in Coroutine,
             Spawn(s, c) \/ OnEvent(s, c) \/ OnRequest(s, c)
      PROVE  CoInv'
  BY <1>0, <1>1, Created DEF Spawn, OnEvent, OnRequest
<1>2. ASSUME NEW s \in Service, NEW c \in Coroutine, OnTimer(s, c) PROVE CoInv'
  <2> DEFINE i == Head(box[s]).id
             todo == [session |-> 0, timer |-> i]
  <2>1. Head(box[s]) \in Message /\ Head(box[s]).kind = "timer"
    BY <1>0, <1>2, TakeTyped DEF OnTimer
  <2>2. todo \in Todo
    BY <2>1, MessageFacts DEF Todo
  <2> QED
    BY <1>0, <1>2, <1>a, <2>2, Created DEF OnTimer
<1>3. ASSUME NEW s \in Service, NEW c \in Coroutine, OnResponse(s, c) PROVE CoInv'
  <2> DEFINE r == Head(box[s]).id
             w == callCo[s][r]
  <2>1. /\ Head(box[s]) \in Message /\ Head(box[s]).kind = "response"
        /\ stack[s] = <<>> /\ coState[s][c] = "idle"
    BY <1>0, <1>3, TakeTyped DEF OnResponse, Take
  <2>2. r \in Session /\ r # 0 /\ w \in Coroutine \cup {None}
    BY <1>0, <2>1, MessageFacts DEF CallTypes
  <2>3. w # None => coState[s][w] = "waiting"
    BY <1>0, <1>3, <2>1, HeadWaits DEF OnResponse
  <2>4. CASE w = None
    BY <1>3, <1>a, <2>4 DEF OnResponse
  <2>5. CASE w # None
    <3>1. /\ coState' = [coState EXCEPT ![s][c] = "running", ![s][w] = "running"]
          /\ stack' = [stack EXCEPT ![s] = <<c, w>>]
          /\ after' = [after EXCEPT ![s][c] = [session |-> r, timer |-> 0]]
      BY <1>3, <2>5 DEF OnResponse
    <3>2. w \in Coroutine /\ w # c /\ CoOK(s)
      BY <2>1, <2>2, <2>3, <2>5, CoByService
    <3> HIDE DEF r, w
    <3>3. /\ coState'[s] = [coState[s] EXCEPT ![c] = "running", ![w] = "running"]
          /\ after'[s] = [after[s] EXCEPT ![c] = [session |-> r, timer |-> 0]]
          /\ stack'[s] = <<c, w>>
          /\ coState[s] \in [Coroutine -> {"idle", "running", "waiting"}]
          /\ after[s] \in [Coroutine -> Todo]
          /\ \A t \in Service : t # s => /\ coState'[t] = coState[t]
                                        /\ stack'[t] = stack[t] /\ after'[t] = after[t]
      BY <1>0, <3>1, <3>2 DEF CoTypes
    <3>4. /\ DOMAIN stack'[s] = {1, 2} /\ stack'[s][1] = c /\ stack'[s][2] = w
      BY <3>3
    <3>5. \A d \in Coroutine : On(s, d)' <=> (d = c \/ d = w)
      BY <3>4 DEF On
    <3>6. \A d \in Coroutine : ~On(s, d)
      BY <2>1 DEF On
    <3>7. CoOK(s)'
      BY <3>2, <3>3, <3>4, <3>5, <3>6 DEF CoOK
    <3> QED
      BY <3>3, <3>7, OtherCo
  <2> QED
    BY <2>4, <2>5
<1>4. ASSUME NEW s \in Service, Finish(s) \/ Raise(s) PROVE CoInv'
  BY <1>0, <1>4, CoLeft DEF Finish, Raise, InProgram, InCoroutine
<1>5. ASSUME NEW s \in Service, OnClose(s) PROVE CoInv'
  <2>1. /\ stack[s] = <<>> /\ stack' = stack
        /\ coState' = [coState EXCEPT ![s] = [c \in Coroutine |-> "idle"]]
        /\ after' = [after EXCEPT ![s] = [c \in Coroutine |-> Nothing]]
    BY <1>5 DEF OnClose, Take
  <2>2. CoOK(s)'
    BY <1>0, <2>1 DEF CoOK, On, CoTypes
  <2> QED
    BY <1>0, <2>1, <2>2, OtherCo DEF CoTypes
<1>6. ASSUME NEW s \in Service, NEW d \in Service, LocalRequest(s, d) PROVE CoInv'
  <2> DEFINE c == Top(s)
  <2>1. /\ CoOK(s) /\ Pop(s) /\ stack[s] # <<>> /\ after[s][c].session = 0
        /\ coState' = [coState EXCEPT ![s][c] = "waiting"]
        /\ after' = after
        /\ \A t \in Service : t # s => stack'[t] = stack[t]
    BY <1>0, <1>6, CoByService DEF LocalRequest, InProgram, InCoroutine, Pop, CoTypes
  <2>2. /\ c \in Coroutine
        /\ \A i, j \in DOMAIN stack'[s] : stack'[s][i] = stack'[s][j] => i = j
        /\ \A e \in Coroutine : On(s, e)' <=> (On(s, e) /\ e # c)
    BY <1>0, <2>1, Popped
  <2> HIDE DEF c
  <2>3. /\ coState'[s] = [coState[s] EXCEPT ![c] = "waiting"]
        /\ coState[s] \in [Coroutine -> {"idle", "running", "waiting"}]
        /\ \A t \in Service : t # s => coState'[t] = coState[t]
    BY <1>0, <2>1, <2>2 DEF CoTypes
  <2>4. CoOK(s)'
    BY <2>1, <2>2, <2>3 DEF CoOK
  <2> QED
    BY <2>1, <2>3, <2>4, OtherCo
<1> QED
  BY <1>1, <1>2, <1>3, <1>4, <1>5, <1>6, <1>a
  DEF Next, Step, Handle, vars, Deliver, AddService, InsertService, CloseService,
      EraseService, LocalResponse, Arm, GetTimerId, StopSchedule, Invalidate, Fire,
      coVars

LEMMA TimersKept ==
  ASSUME TypeOK, TimerInv, [Next]_vars
  PROVE  TimerInv'
<1>0. TimerTypes /\ None \notin Service /\ MaxTimer \in Nat
  BY Types, LuaAssumption
<1>1. CASE UNCHANGED <<timerFn, arming, owner, timers, stopped>>
  BY <1>1 DEF TimerInv
<1>2. ASSUME NEW s \in Service,
             \/ timerFn'[s] \subseteq timerFn[s]
             \/ timerFn'[s] \subseteq timerFn[s] \cup ({arming[s]} \ {0}),
             \A t \in Service : t # s => timerFn'[t] = timerFn[t],
             \/ arming' = arming \/ arming' = [arming EXCEPT ![s] = 0],
             UNCHANGED <<owner, timers, stopped>>
      PROVE  TimerInv'
  BY <1>0, <1>2 DEF TimerInv, TimerTypes
<1>3. ASSUME NEW s \in Service, Finish(s) \/ OnClose(s) \/ GetTimerId(s) PROVE TimerInv'
  <2>1. /\ \A t \in Service : t # s => timerFn'[t] = timerFn[t]
        /\ \/ timerFn'[s] \subseteq timerFn[s]
           \/ timerFn'[s] \subseteq timerFn[s] \cup ({arming[s]} \ {0})
    BY <1>0, <1>3 DEF Finish, OnClose, GetTimerId, TimerTypes
  <2> QED
    BY <1>2, <1>3, <2>1 DEF Finish, OnClose, GetTimerId
<1>4. ASSUME NEW s \in Service, NEW again \in BOOLEAN, Arm(s, again) PROVE TimerInv'
  <2> DEFINE i == timers + 1
  <2>1. /\ i \in Timer /\ timers \in Nat /\ timers' = i /\ arming[s] = 0
        /\ owner' = [owner EXCEPT ![i] = s]
        /\ arming' = [arming EXCEPT ![s] = i]
        /\ UNCHANGED <<timerFn, stopped>>
    BY <1>0, <1>4 DEF Arm, TimerTypes, Timer, MayCall, InProgram, InCoroutine, InLua
  <2>2. owner[i] = None /\ i \notin stopped
    BY <2>1 DEF TimerInv
  <2>3. \A j \in Timer : owner'[j] # None \/ j \in stopped' => j <= timers'
    BY <1>0, <2>1, <2>2 DEF TimerInv, TimerTypes, Timer
  <2>4. ASSUME NEW t \in Service, NEW j \in timerFn'[t] \cup ({arming'[t]} \ {0})
        PROVE  j \notin stopped' /\ owner'[j] = t
    <3>1. CASE j \in timerFn[t] \cup ({arming[t]} \ {0})
      <4>1. j \notin stopped /\ owner[j] = t /\ j # i /\ j \in Timer
        BY <1>0, <2>2, <3>1 DEF TimerInv, TimerTypes
      <4> QED
        BY <1>0, <2>1, <4>1 DEF TimerTypes
    <3>2. CASE j = i /\ t = s
      BY <1>0, <2>1, <2>2, <3>2 DEF TimerTypes
    <3> QED
      BY <1>0, <2>1, <2>4, <3>1, <3>2 DEF TimerTypes
  <2> QED
    BY <2>3, <2>4 DEF TimerInv
<1>5. ASSUME NEW s \in Service, NEW i \in Timer, StopSchedule(s, i) PROVE TimerInv'
  <2>1. /\ arming[s] = 0 /\ owner[i] = s
        /\ stopped' = stopped \cup {i}
        /\ timerFn' = [timerFn EXCEPT ![s] = @ \ {i}]
        /\ UNCHANGED <<arming, owner, timers>>
    BY <1>5 DEF StopSchedule, MayCall, InProgram, InCoroutine, InLua
  <2> QED
    BY <1>0, <2>1 DEF TimerInv, TimerTypes
<1>6. ASSUME NEW s \in Service, NEW c \in Coroutine, Handle(s, c)
      PROVE  UNCHANGED <<timerFn, arming, owner, timers, stopped>>
  BY <1>6 DEF Handle, Spawn, OnEvent, OnRequest, OnResponse, OnTimer, timerVars
<1>7. ASSUME NEW s \in Service,
             \/ Raise(s) \/ Deliver(s) \/ AddService(s) \/ InsertService(s)
             \/ EraseService(s)
             \/ (\E d \in Service : CloseService(s, d) \/ LocalRequest(s, d))
             \/ (\E r \in Session : LocalResponse(s, r))
      PROVE  UNCHANGED <<timerFn, arming, owner, timers, stopped>>
  BY <1>7 DEF Raise, Deliver, AddService, InsertService, CloseService, EraseService,
              LocalRequest, LocalResponse, timerVars
<1>8. ASSUME NEW i \in Timer, Invalidate(i) \/ Fire(i)
      PROVE  UNCHANGED <<timerFn, arming, owner, timers, stopped>>
  BY <1>8 DEF Invalidate, Fire
<1>9. ASSUME NEW s \in Service, Step(s) PROVE TimerInv'
  BY <1>1, <1>3, <1>4, <1>5, <1>6, <1>7, <1>9 DEF Step
<1> QED
  BY <1>1, <1>8, <1>9 DEF Next, vars, timerVars

LEMMA ServicesKept ==
  ASSUME TypeOK, ServiceInv, [Next]_vars
  PROVE  ServiceInv'
<1> USE DEF mapVars
<1>0. BoxTypes /\ StageTypes /\ CallTypes
  BY Types
<1>1. CASE UNCHANGED <<stage, inMap, box>>
  BY <1>1 DEF ServiceInv
<1>2. ASSUME NEW d, Reaches(d), NEW m \in Message, Post(d, m), UNCHANGED <<stage, inMap>>
      PROVE  ServiceInv'
  <2>1. d \in Service /\ stage[d] = "live"
    BY <1>0, <1>2 DEF StageTypes, Reaches, ServiceInv
  <2>2. \A t \in Service : t # d => box'[t] = box[t]
    BY <1>0, <1>2, <2>1, PostTyped
  <2> QED
    BY <1>2, <2>1, <2>2 DEF ServiceInv
<1>3. ASSUME NEW s \in Service, NEW kind, Take(s, kind), UNCHANGED <<stage, inMap>>
      PROVE  ServiceInv'
  <2>1. /\ \A t \in Service : t # s => box'[t] = box[t]
        /\ box'[s] = Tail(box[s]) /\ box[s] \in Seq(Message) /\ box[s] # <<>>
    BY <1>0, <1>3, TakeTyped
  <2>2. \A t \in Service : box'[t] # <<>> => box[t] # <<>>
    BY <2>1
  <2> QED
    BY <1>3, <2>2 DEF ServiceInv
<1>4. ASSUME NEW s \in Service, Deliver(s) PROVE ServiceInv'
  BY <1>2, <1>4, MsgTyped DEF Deliver
<1>5. ASSUME NEW s \in Service, NEW d \in Service, CloseService(s, d) PROVE ServiceInv'
  BY <1>1, <1>2, <1>5, MsgTyped DEF CloseService
<1>6. ASSUME NEW s \in Service, AddService(s) \/ InsertService(s) \/ EraseService(s)
      PROVE  ServiceInv'
  BY <1>0, <1>6
  DEF AddService, InsertService, EraseService, ServiceInv, StageTypes, BoxTypes
<1>7. ASSUME NEW s \in Service, NEW c \in Coroutine,
             \/ OnEvent(s, c) \/ OnRequest(s, c) \/ OnResponse(s, c) \/ OnTimer(s, c)
      PROVE  ServiceInv'
  BY <1>3, <1>7 DEF OnEvent, OnRequest, OnResponse, OnTimer
<1>8. ASSUME NEW s \in Service, OnClose(s) PROVE ServiceInv'
  BY <1>0, <1>8 DEF OnClose, ServiceInv, StageTypes, BoxTypes
<1>9. ASSUME NEW s \in Service, NEW d \in Service, LocalRequest(s, d) PROVE ServiceInv'
  <2>1. CASE Reaches(d)
    <3>1. sessions + 1 \in Session /\ d \in inMap
      BY <1>0, <1>9, <2>1, LuaAssumption DEF LocalRequest, CallTypes, Session, Reaches
    <3>2. Post(d, Msg("request", sessions + 1, s)) /\ UNCHANGED <<stage, inMap>>
      BY <1>9, <2>1, <3>1 DEF LocalRequest
    <3> QED
      BY <1>2, <2>1, <3>1, <3>2, MsgTyped
  <2>2. CASE ~Reaches(d)
    BY <1>1, <1>9, <2>2 DEF LocalRequest
  <2> QED
    BY <2>1, <2>2
<1>10. ASSUME NEW s \in Service, NEW r \in Session, LocalResponse(s, r) PROVE ServiceInv'
  BY <1>1, <1>2, <1>10, MsgTyped DEF LocalResponse
<1>11. ASSUME NEW i \in Timer, Fire(i) PROVE ServiceInv'
  BY <1>1, <1>2, <1>11, MsgTyped DEF Fire
<1> QED
  BY <1>1, <1>4, <1>5, <1>6, <1>7, <1>8, <1>9, <1>10, <1>11
  DEF Next, Step, Handle, vars, mapVars, Spawn, Finish, Raise, Arm, GetTimerId,
      StopSchedule, Invalidate

-----------------------------------------------------------------------------
(***************************************************************************)
(* Calls.  A message is found where it was, or one place further back once *)
(* the service has taken the one in front.                                 *)
(***************************************************************************)
Old(k, t, i) == IF i = 0 THEN 0 ELSE i + k[t]

Somewhere(r) == \E t \in Service : \E i \in Nat : At(t, i, r)

LEMMA AtPost ==
  ASSUME BoxTypes, NEW d \in Service, NEW m \in Message, Post(d, m),
         NEW n, n = Len(box[d]) + 1
  PROVE  /\ \A t \in Service : \A i \in Nat \ {0} : \A r \in Session :
              /\ At(t, i, r) => At(t, i, r)' /\ Caller(t, i, r)' = Caller(t, i, r)
              /\ At(t, i, r)' =>
                   At(t, i, r) \/ (t = d /\ i = n /\ Carries(m, r))
         /\ n \in Nat \ {0} /\ box'[d][n] = m
         /\ \A r \in Session : Carries(m, r) => At(d, n, r)'
<1>1. /\ box[d] \in Seq(Message) /\ box'[d] = Append(box[d], m)
      /\ \A t \in Service : t # d => box'[t] = box[t]
  BY PostTyped DEF BoxTypes
<1>2. /\ Len(box[d]) \in Nat /\ DOMAIN box[d] = 1..Len(box[d])
      /\ DOMAIN box'[d] = 1..(Len(box[d]) + 1)
      /\ \A i \in DOMAIN box[d] : box'[d][i] = box[d][i]
      /\ box'[d][Len(box[d]) + 1] = m
  BY <1>1, AppendFacts
<1>3. /\ DOMAIN box[d] \subseteq DOMAIN box'[d]
      /\ \A i \in DOMAIN box'[d] : i \in DOMAIN box[d] \/ i = Len(box[d]) + 1
      /\ Len(box[d]) + 1 \in DOMAIN box'[d] /\ Len(box[d]) + 1 \in Nat \ {0}
  BY <1>2
<1>4. n \in Nat \ {0} /\ box'[d][n] = m
  BY <1>2, <1>3
<1>5. ASSUME NEW t \in Service, NEW i \in Nat \ {0}, NEW r \in Session
      PROVE  /\ At(t, i, r) => At(t, i, r)' /\ Caller(t, i, r)' = Caller(t, i, r)
             /\ At(t, i, r)' => At(t, i, r) \/ (t = d /\ i = n /\ Carries(m, r))
  <2>1. CASE t # d
    BY <1>1, <2>1 DEF At, Caller
  <2>2. CASE t = d /\ i \in DOMAIN box[d]
    BY <1>2, <1>3, <2>2 DEF At, Caller
  <2>3. CASE t = d /\ i \notin DOMAIN box[d]
    BY <1>3, <1>4, <2>3 DEF At, Caller
  <2> QED
    BY <2>1, <2>2, <2>3
<1>6. ASSUME NEW r \in Session, Carries(m, r) PROVE At(d, n, r)'
  BY <1>3, <1>4, <1>6 DEF At
<1> QED
  BY <1>4, <1>5, <1>6

LEMMA AtTake ==
  ASSUME BoxTypes, NEW s \in Service, NEW kind, Take(s, kind),
         NEW k, k = [t \in Service |-> IF t = s THEN 1 ELSE 0]
  PROVE  /\ \A t \in Service : \A i \in Nat \ {0} : \A r \in Session :
              /\ At(t, i, r)' => /\ At(t, Old(k, t, i), r)
                                 /\ Caller(t, i, r)' = Caller(t, Old(k, t, i), r)
              /\ At(t, i, r) => \/ \E j \in Nat : At(t, j, r)'
                                \/ t = s /\ i = 1 /\ Carries(Head(box[s]), r)
         /\ \A r \in Session : Carries(Head(box[s]), r) => At(s, 1, r)
         /\ Head(box[s]) = box[s][1]
<1>1. /\ box[s] \in Seq(Message) /\ box[s] # <<>> /\ box'[s] = Tail(box[s])
      /\ \A t \in Service : t # s => box'[t] = box[t]
  BY TakeTyped
<1>2. /\ 1 \in DOMAIN box[s] /\ Head(box[s]) = box[s][1]
      /\ DOMAIN box'[s] \subseteq Nat \ {0}
      /\ \A i \in DOMAIN box'[s] : i + 1 \in DOMAIN box[s] /\ box'[s][i] = box[s][i + 1]
      /\ \A i \in DOMAIN box[s] : i # 1 => i - 1 \in DOMAIN box'[s] /\ i - 1 \in Nat
  BY <1>1, TailFacts
<1>3. ASSUME NEW t \in Service, NEW i \in Nat \ {0}, NEW r \in Session, At(t, i, r)'
      PROVE  /\ At(t, Old(k, t, i), r)
             /\ Caller(t, i, r)' = Caller(t, Old(k, t, i), r)
  <2>1. CASE t = s
    <3>1. Old(k, t, i) = i + 1 /\ i + 1 # 0
      BY <2>1 DEF Old
    <3>2. i \in DOMAIN box'[s] /\ Carries(box'[s][i], r)
      BY <1>3, <2>1 DEF At
    <3>3. i + 1 \in DOMAIN box[s] /\ box'[s][i] = box[s][i + 1]
      BY <1>2, <3>2
    <3> QED
      BY <2>1, <3>1, <3>2, <3>3 DEF At, Caller
  <2>2. CASE t # s
    <3>1. Old(k, t, i) = i
      BY <2>2 DEF Old
    <3> QED
      BY <1>1, <1>3, <2>2, <3>1 DEF At, Caller
  <2> QED
    BY <2>1, <2>2
<1>4. ASSUME NEW t \in Service, NEW i \in Nat \ {0}, NEW r \in Session, At(t, i, r)
      PROVE  \/ \E j \in Nat : At(t, j, r)'
             \/ t = s /\ i = 1 /\ Carries(Head(box[s]), r)
  <2>1. CASE t # s
    BY <1>1, <1>4, <2>1 DEF At
  <2>2. CASE t = s /\ i = 1
    BY <1>2, <1>4, <2>2 DEF At
  <2>3. CASE t = s /\ i # 1
    <3>1. i \in DOMAIN box[s] /\ Carries(box[s][i], r)
      BY <1>4, <2>3 DEF At
    <3>2. /\ i - 1 \in DOMAIN box'[s] /\ i - 1 \in Nat /\ i - 1 # 0
          /\ box'[s][i - 1] = box[s][(i - 1) + 1] /\ (i - 1) + 1 = i
      BY <1>2, <2>3, <3>1
    <3>3. At(s, i - 1, r)'
      BY <3>1, <3>2 DEF At
    <3> QED
      BY <2>3, <3>2, <3>3
  <2> QED
    BY <2>1, <2>2, <2>3
<1>5. \A r \in Session : Carries(Head(box[s]), r) => At(s, 1, r)
  BY <1>2 DEF At
<1> QED
  BY <1>2, <1>3, <1>4, <1>5

\* A session that the step does not concern.
LEMMA CallKept ==
  ASSUME TypeOK, TypeOK', NEW r \in Session, CallOK(r),
         NEW k \in [Service -> {0, 1}],
         \A t \in Service : \A i \in Nat : At(t, i, r)' =>
           /\ At(t, Old(k, t, i), r)
           /\ Caller(t, i, r)' = Caller(t, Old(k, t, i), r),
         Somewhere(r) => r \in dropped' \/ Somewhere(r)',
         ~Gone(r) /\ Somewhere(r)' => ~Gone(r)',
         \A d \in Service : ~Gone(r) /\ Waits(d, r) => Waits(d, r)',
         \A d \in Service : callCo'[d][r] # None =>
           callCo[d][r] # None /\ (Answered(d, r) => Answered(d, r)'),
         sessions <= sessions', dropped \subseteq dropped',
         r > sessions /\ Unused(r) => Unused(r)'
  PROVE  CallOK(r)'
<1>1. /\ \A t \in Service : \A i \in Nat : Old(k, t, i) \in Nat
      /\ \A t \in Service : \A i, j \in Nat : Old(k, t, i) = Old(k, t, j) => i = j
  BY DEF Old
<1>2. \A s, t \in Service : \A i, j \in Nat :
        At(s, i, r)' /\ At(t, j, r)' => s = t /\ i = j
  <2> SUFFICES ASSUME NEW s \in Service, NEW t \in Service, NEW i \in Nat, NEW j \in Nat,
                      At(s, i, r)', At(t, j, r)'
               PROVE  s = t /\ i = j
    OBVIOUS
  <2>1. At(s, Old(k, s, i), r) /\ At(t, Old(k, t, j), r)
    OBVIOUS
  <2>2. s = t /\ Old(k, s, i) = Old(k, t, j)
    BY <1>1, <2>1 DEF CallOK
  <2> QED
    BY <1>1, <2>2
<1>3. ASSUME NEW s \in Service, NEW i \in Nat, At(s, i, r)'
      PROVE  ~Gone(r)' /\ \E d \in Service : d = Caller(s, i, r)' /\ Waits(d, r)'
  <2>1. At(s, Old(k, s, i), r) /\ Caller(s, i, r)' = Caller(s, Old(k, s, i), r)
    BY <1>3
  <2>2. ~Gone(r) /\ \E d \in Service : d = Caller(s, Old(k, s, i), r) /\ Waits(d, r)
    BY <1>1, <2>1 DEF CallOK
  <2>3. Somewhere(r)'
    BY <1>3 DEF Somewhere
  <2> QED
    BY <2>1, <2>2, <2>3
<1>4. ASSUME NEW s \in Service, callCo'[s][r] # None
      PROVE  /\ r <= sessions'
             /\ \A t \in Service : callCo'[t][r] # None => t = s
             /\ Answered(s, r)' \/ r \in dropped' \/ Somewhere(r)'
  <2>1. callCo[s][r] # None /\ (Answered(s, r) => Answered(s, r)')
    BY <1>4
  <2>2. /\ r <= sessions
        /\ \A t \in Service : callCo[t][r] # None => t = s
        /\ Answered(s, r) \/ r \in dropped \/ Somewhere(r)
    BY <2>1 DEF CallOK, Somewhere
  <2>3. r \in Nat /\ sessions \in Nat /\ sessions' \in Nat
    BY LuaAssumption DEF TypeOK, Session
  <2> QED
    BY <2>1, <2>2, <2>3
<1>5. r > sessions' => Unused(r)'
  <2>1. r \in Nat /\ sessions \in Nat /\ sessions' \in Nat
    BY LuaAssumption DEF TypeOK, Session
  <2> QED
    BY <2>1 DEF CallOK
<1> QED
  BY <1>2, <1>3, <1>4, <1>5 DEF CallOK, Somewhere

\* A session whose notes stay and whose messages are where k says.
LEMMA Followed ==
  ASSUME NEW r \in Session, NEW k \in [Service -> {0, 1}],
         \A t \in Service : callDst'[t][r] = callDst[t][r],
         \A t \in Service : \A i \in Nat \ {0} :
           /\ At(t, i, r)' => /\ At(t, Old(k, t, i), r)
                              /\ Caller(t, i, r)' = Caller(t, Old(k, t, i), r)
           /\ At(t, i, r) => \E j \in Nat : At(t, j, r)'
  PROVE  /\ \A t \in Service : \A i \in Nat : At(t, i, r)' =>
              /\ At(t, Old(k, t, i), r)
              /\ Caller(t, i, r)' = Caller(t, Old(k, t, i), r)
         /\ Somewhere(r) => Somewhere(r)'
<1>1. \A t \in Service : /\ At(t, 0, r)' <=> At(t, 0, r)
                         /\ Caller(t, 0, r)' = Caller(t, 0, r)
                         /\ Old(k, t, 0) = 0
  BY DEF At, Caller, Old
<1>2. ASSUME NEW t \in Service, NEW i \in Nat, At(t, i, r)'
      PROVE  /\ At(t, Old(k, t, i), r)
             /\ Caller(t, i, r)' = Caller(t, Old(k, t, i), r)
  <2>1. CASE i = 0
    BY <1>1, <1>2, <2>1
  <2>2. CASE i # 0
    BY <1>2, <2>2
  <2> QED
    BY <2>1, <2>2
<1>3. ASSUME NEW t \in Service, NEW i \in Nat, At(t, i, r) PROVE Somewhere(r)'
  <2>1. CASE i = 0
    BY <1>1, <1>3, <2>1 DEF Somewhere
  <2>2. CASE i # 0
    BY <1>3, <2>2 DEF Somewhere
  <2> QED
    BY <2>1, <2>2
<1> QED
  BY <1>2, <1>3 DEF Somewhere

-----------------------------------------------------------------------------
\* Nothing changes for those who wait, or for what handlers are to forget.
CoCalm ==
  \A s \in Service : \A c \in Coroutine :
    /\ after'[s][c].session = after[s][c].session
    /\ coState[s][c] = "waiting" => coState'[s][c] = "waiting"

Calm ==
  /\ UNCHANGED <<callCo, sessions, dropped>>
  /\ \A s \in Service : stage[s] = "gone" => stage'[s] = "gone"
  /\ CoCalm

LEMMA CalmFacts ==
  ASSUME TypeOK, Calm
  PROVE  /\ \A r \in Session \cup {0} : \A d \in Service :
              (Answered(d, r)' <=> Answered(d, r)) /\ (Waits(d, r) => Waits(d, r)')
         /\ \A r \in Session : (Gone(r)' <=> Gone(r)) /\ (Unused(r)' <=> Unused(r))
<1>1. \A r \in Session \cup {0} : \A d \in Service : Answered(d, r)' <=> Answered(d, r)
  BY DEF Answered, Calm, CoCalm
<1>2. \A r \in Session \cup {0} : \A d \in Service : callCo[d][r] \in Coroutine \cup {None}
  BY DEF TypeOK
<1>3. \A r \in Session \cup {0} : \A d \in Service : Waits(d, r) => Waits(d, r)'
  BY <1>2 DEF Waits, Calm, CoCalm
<1> QED
  BY <1>1, <1>3 DEF Gone, Unused, Calm

LEMMA CalmWaiters ==
  ASSUME TypeOK, WaiterInv, Calm
  PROVE  WaiterInv'
<1>1. \A s \in Service : \A r \in Session \cup {0} : \A c \in Coroutine :
        Noted(s, r, c)' <=> Noted(s, r, c)
  BY CalmFacts DEF Noted, Calm
<1> QED
  BY <1>1 DEF WaiterInv, Calm, CoCalm

\* A calm step that shifts the messages of the services that k names.
LEMMA CalmShift ==
  ASSUME TypeOK, TypeOK', CallInv, Calm, UNCHANGED callDst,
         NEW k \in [Service -> {0, 1}],
         \A t \in Service : \A i \in Nat \ {0} : \A r \in Session :
           /\ At(t, i, r)' => /\ At(t, Old(k, t, i), r)
                              /\ Caller(t, i, r)' = Caller(t, Old(k, t, i), r)
           /\ At(t, i, r) => \E j \in Nat : At(t, j, r)'
  PROVE  CallInv'
<1> SUFFICES ASSUME NEW r \in Session PROVE CallOK(r)'
  BY DEF CallInv
<1>1. CallOK(r)
  BY DEF CallInv
<1>2. \A t \in Service : \A i \in Nat : At(t, i, r)' =>
        /\ At(t, Old(k, t, i), r)
        /\ Caller(t, i, r)' = Caller(t, Old(k, t, i), r)
  BY Followed
<1>3. Somewhere(r) => Somewhere(r)'
  BY Followed
<1>4. sessions <= sessions' /\ dropped \subseteq dropped'
  BY DEF Calm, TypeOK
<1>5. \A d \in Service : callCo'[d][r] # None =>
        callCo[d][r] # None /\ (Answered(d, r) => Answered(d, r)')
  BY CalmFacts DEF Calm
<1>6. /\ ~Gone(r) /\ Somewhere(r)' => ~Gone(r)'
      /\ \A d \in Service : ~Gone(r) /\ Waits(d, r) => Waits(d, r)'
      /\ Unused(r) => Unused(r)'
  BY CalmFacts
<1> QED
  BY <1>1, <1>2, <1>3, <1>4, <1>5, <1>6, CallKept

LEMMA NoShift ==
  LET k == [t \in Service |-> 0] IN
    /\ k \in [Service -> {0, 1}]
    /\ \A t \in Service : \A i \in Nat : Old(k, t, i) = i
  BY DEF Old

LEMMA CalmStay ==
  ASSUME TypeOK, TypeOK', CallInv, Calm, UNCHANGED callDst, UNCHANGED box
  PROVE  CallInv'
<1> DEFINE k == [t \in Service |-> 0]
<1>1. \A t \in Service : \A i \in Nat \ {0} : \A r \in Session :
        (At(t, i, r)' <=> At(t, i, r)) /\ Caller(t, i, r)' = Caller(t, i, r)
  BY DEF At, Caller
<1>2. k \in [Service -> {0, 1}] /\ \A t \in Service : \A i \in Nat : Old(k, t, i) = i
  BY NoShift
<1> HIDE DEF k
<1> QED
  BY <1>1, <1>2, CalmShift

LEMMA CalmPost ==
  ASSUME TypeOK, TypeOK', CallInv, Calm, UNCHANGED callDst,
         NEW d \in Service, NEW m \in Message,
         m.kind \notin {"request", "response"}, Post(d, m)
  PROVE  CallInv'
<1> DEFINE k == [t \in Service |-> 0]
           n == Len(box[d]) + 1
<1>1. \A t \in Service : \A i \in Nat \ {0} : \A r \in Session :
        (At(t, i, r)' <=> At(t, i, r)) /\ (At(t, i, r) => Caller(t, i, r)' = Caller(t, i, r))
  <2>1. BoxTypes
    BY Types
  <2>2. \A r \in Session : ~Carries(m, r)
    BY DEF Carries
  <2> HIDE DEF n
  <2>3. n = Len(box[d]) + 1
    BY DEF n
  <2> QED
    BY <2>1, <2>2, <2>3, AtPost
<1>2. k \in [Service -> {0, 1}] /\ \A t \in Service : \A i \in Nat : Old(k, t, i) = i
  BY NoShift
<1> HIDE DEF k
<1> QED
  BY <1>1, <1>2, CalmShift

LEMMA CalmTake ==
  ASSUME TypeOK, TypeOK', CallInv, Calm, UNCHANGED callDst,
         NEW s \in Service,
         NEW kind \in {"event", "timer"}, Take(s, kind)
  PROVE  CallInv'
<1> DEFINE k == [t \in Service |-> IF t = s THEN 1 ELSE 0]
<1>1. BoxTypes /\ k \in [Service -> {0, 1}]
  BY Types
<1>2. \A r \in Session : ~Carries(Head(box[s]), r)
  BY DEF Carries, Take
<1>3. k = [t \in Service |-> IF t = s THEN 1 ELSE 0]
  OBVIOUS
<1> HIDE DEF k
<1>4. \A t \in Service : \A i \in Nat \ {0} : \A r \in Session :
        /\ At(t, i, r)' => /\ At(t, Old(k, t, i), r)
                           /\ Caller(t, i, r)' = Caller(t, Old(k, t, i), r)
        /\ At(t, i, r) => \E j \in Nat : At(t, j, r)'
  BY <1>1, <1>2, <1>3, AtTake
<1> QED
  BY <1>1, <1>4, CalmShift

\* The steps of a coroutine that are calm.
LEMMA CreateCalm ==
  ASSUME TypeOK, CoInv, NEW s \in Service, NEW c \in Coroutine, NEW todo \in Todo,
         todo.session = 0, CoCreate(s, c, todo)
  PROVE  CoCalm
<1>1. /\ coState[s][c] = "idle" /\ after[s][c] = Nothing /\ Nothing.session = 0
      /\ coState' = [coState EXCEPT ![s][c] = "running"]
      /\ after' = [after EXCEPT ![s][c] = todo]
  BY DEF CoInv, CoCreate, Nothing
<1> QED
  BY <1>1 DEF CoCalm, TypeOK

LEMMA LeaveCalm ==
  ASSUME TypeOK, CoInv, NEW s \in Service, stack[s] # <<>>, Leave(s),
         after[s][Top(s)].session = 0
  PROVE  CoCalm
<1> DEFINE c == Top(s)
<1>1. /\ c \in Coroutine /\ coState[s][c] = "running" /\ Nothing.session = 0
      /\ coState' = [coState EXCEPT ![s][c] = "idle"]
      /\ after' = [after EXCEPT ![s][c] = Nothing]
  BY Popped, Types DEF Leave, Nothing
<1> HIDE DEF c
<1>2. after[s][c].session = 0
  BY DEF c
<1> QED
  BY <1>1, <1>2 DEF CoCalm, TypeOK

LEMMA CalmSteps ==
  ASSUME TypeOK, TypeOK', CoInv, CallInv, WaiterInv,
         \/ \E s \in Service : \E c \in Coroutine :
              Spawn(s, c) \/ OnEvent(s, c) \/ OnTimer(s, c)
         \/ \E s \in Service :
              \/ Raise(s) \/ Deliver(s) \/ AddService(s) \/ InsertService(s)
              \/ EraseService(s) \/ GetTimerId(s)
              \/ \E d \in Service : CloseService(s, d)
              \/ \E again \in BOOLEAN : Arm(s, again)
              \/ \E i \in Timer : StopSchedule(s, i)
         \/ \E i \in Timer : Invalidate(i) \/ Fire(i)
         \/ UNCHANGED vars
  PROVE  CallInv' /\ WaiterInv'
<1> USE DEF callVars
<1>0. /\ CoTypes /\ BoxTypes /\ StageTypes
      /\ Nothing \in Todo /\ Nothing.session = 0
  BY Types DEF Nothing, Todo
<1>a. ASSUME UNCHANGED coVars PROVE CoCalm
  BY <1>a DEF CoCalm, coVars
<1>1. ASSUME NEW s \in Service, NEW c \in Coroutine, Spawn(s, c)
      PROVE  CallInv' /\ WaiterInv'
  <2>1. Calm
    BY <1>0, <1>1, CreateCalm DEF Spawn, Calm
  <2> QED
    BY <1>1, <2>1, CalmStay, CalmWaiters DEF Spawn
<1>2. ASSUME NEW s \in Service, NEW c \in Coroutine, OnEvent(s, c)
      PROVE  CallInv' /\ WaiterInv'
  <2>1. Calm
    BY <1>0, <1>2, CreateCalm DEF OnEvent, Calm
  <2> QED
    BY <1>2, <2>1, CalmTake, CalmWaiters DEF OnEvent
<1>3. ASSUME NEW s \in Service, NEW c \in Coroutine, OnTimer(s, c)
      PROVE  CallInv' /\ WaiterInv'
  <2> DEFINE i == Head(box[s]).id
             todo == [session |-> 0, timer |-> i]
  <2>1. Head(box[s]) \in Message /\ Head(box[s]).kind = "timer"
    BY <1>0, <1>3, TakeTyped DEF OnTimer
  <2>2. todo \in Todo /\ todo.session = 0
    BY <2>1, MessageFacts DEF Todo
  <2>3. CoCalm
    BY <1>3, <1>a, <2>2, CreateCalm DEF OnTimer
  <2>4. Calm
    BY <1>3, <2>3 DEF OnTimer, Calm
  <2> QED
    BY <1>3, <2>4, CalmTake, CalmWaiters DEF OnTimer
<1>4. ASSUME NEW s \in Service, Raise(s) PROVE CallInv' /\ WaiterInv'
  <2>1. CoCalm
    BY <1>4, LeaveCalm DEF Raise, InProgram, InCoroutine
  <2>2. Calm
    BY <1>4, <2>1 DEF Raise, Calm
  <2> QED
    BY <1>4, <2>2, CalmStay, CalmWaiters DEF Raise
<1>5. ASSUME NEW d \in Service, NEW kind \in {"event", "close"},
             Post(d, Msg(kind, 0, None)),
             UNCHANGED <<stage, coVars, callVars, sessions, dropped>>
      PROVE  CallInv' /\ WaiterInv'
  <2>1. Calm
    BY <1>5, <1>a DEF Calm
  <2>2. /\ Msg(kind, 0, None) \in Message
        /\ Msg(kind, 0, None).kind \notin {"request", "response"}
    BY MsgTyped DEF Msg
  <2>3. UNCHANGED callDst
    BY <1>5
  <2> QED
    BY <1>5, <2>1, <2>2, <2>3, CalmPost, CalmWaiters
<1>6. ASSUME NEW s \in Service, AddService(s) \/ InsertService(s)
      PROVE  CallInv' /\ WaiterInv'
  <2>1. Calm
    BY <1>0, <1>6, <1>a DEF AddService, InsertService, Calm, StageTypes
  <2> QED
    BY <1>6, <2>1, CalmStay, CalmWaiters DEF AddService, InsertService
<1>7. ASSUME UNCHANGED <<stage, box, coVars, callVars, sessions, dropped>>
      PROVE  CallInv' /\ WaiterInv'
  <2>1. Calm
    BY <1>7, <1>a DEF Calm
  <2> QED
    BY <1>7, <2>1, CalmStay, CalmWaiters
<1>8. ASSUME NEW i \in Timer, Fire(i) PROVE CallInv' /\ WaiterInv'
  <2>1. Calm
    BY <1>8, <1>a DEF Fire, Calm
  <2>2. CASE Reaches(owner[i])
    <3>1. PICK id \in {i} \cup (IF arming[owner[i]] = i THEN {0} ELSE {}) :
                 Post(owner[i], Msg("timer", id, None))
      BY <1>8, <2>2 DEF Fire
    <3>2. /\ owner[i] \in Service /\ Msg("timer", id, None) \in Message
          /\ Msg("timer", id, None).kind \notin {"request", "response"}
      BY <1>0, <2>2, <3>1, MsgTyped DEF StageTypes, Msg, Reaches
    <3>3. UNCHANGED callDst
      BY <1>8 DEF Fire
    <3> QED
      BY <2>1, <3>1, <3>2, <3>3, CalmPost, CalmWaiters
  <2>3. CASE ~Reaches(owner[i])
    BY <1>8, <2>1, <2>3, CalmStay, CalmWaiters DEF Fire
  <2> QED
    BY <2>2, <2>3
<1>9. ASSUME NEW s \in Service,
             \/ Deliver(s) \/ EraseService(s) \/ \E d \in Service : CloseService(s, d)
      PROVE  CallInv' /\ WaiterInv'
  BY <1>5, <1>7, <1>9 DEF Deliver, EraseService, CloseService
<1> QED
  BY <1>1, <1>2, <1>3, <1>4, <1>6, <1>7, <1>8, <1>9
  DEF GetTimerId, Arm, StopSchedule, Invalidate, vars

-----------------------------------------------------------------------------
\* The session is in the one place the step brought it to.
LEMMA CallMoved ==
  ASSUME NEW r \in Session, NEW s \in Service, NEW n \in Nat, NEW d \in Service,
         \A t \in Service : \A i \in Nat : At(t, i, r)' => t = s /\ i = n,
         At(s, n, r)', Caller(s, n, r)' = d, Waits(d, r)', ~Gone(r)',
         \A t, u \in Service : callCo'[t][r] # None /\ callCo'[u][r] # None => t = u,
         r \in Nat, sessions' \in Nat
  PROVE  CallOK(r)'
<1>1. r <= sessions'
  BY DEF Gone
<1>2. Somewhere(r)'
  BY DEF Somewhere
<1> QED
  BY <1>1, <1>2 DEF CallOK, Somewhere

\* A request is taken: its session is noted by the service.
LEMMA RequestTaken ==
  ASSUME TypeOK, TypeOK', CoInv, CallInv, WaiterInv,
         NEW s \in Service, NEW c \in Coroutine, OnRequest(s, c)
  PROVE  CallInv' /\ WaiterInv'
<1> PICK m, q, d, k : /\ m = Head(box[s]) /\ q = m.id /\ d = m.src
                      /\ k = [t \in Service |-> IF t = s THEN 1 ELSE 0]
  OBVIOUS
<1>0. /\ BoxTypes /\ k \in [Service -> {0, 1}] /\ Take(s, "request")
      /\ Nothing \in Todo /\ Nothing.session = 0
  BY Types DEF OnRequest, Nothing, Todo
<1>1. Calm
  BY <1>0, CreateCalm DEF OnRequest, Calm, callVars
<1>2. m \in Message /\ m.kind = "request"
  BY <1>0, TakeTyped
<1>3. /\ q \in Session /\ d \in Service /\ d # None
      /\ \A r : Carries(m, r) <=> r = q
  BY <1>2, MessageFacts DEF Carries
<1>4. callDst' = [callDst EXCEPT ![s][q] = d]
  BY DEF OnRequest
<1>5. /\ \A t \in Service : \A i \in Nat \ {0} : \A r \in Session :
           /\ At(t, i, r)' => /\ At(t, Old(k, t, i), r)
                              /\ Caller(t, i, r)' = Caller(t, Old(k, t, i), r)
           /\ At(t, i, r) => \/ \E j \in Nat : At(t, j, r)'
                             \/ t = s /\ i = 1 /\ Carries(m, r)
      /\ \A r \in Session : Carries(m, r) => At(s, 1, r)
      /\ m = box[s][1]
  BY <1>0, AtTake
<1>6. /\ \A t \in Service : Old(k, t, 0) = 0
      /\ \A t \in Service : \A i \in Nat \ {0} :
           /\ Old(k, t, i) \in Nat
           /\ ~(t = s /\ Old(k, t, i) = 1)
  BY DEF Old
<1>7. Caller(s, 1, q) = d
  BY <1>2, <1>5 DEF Caller
<1>8. \A t \in Service : \A r \in Session : t # s \/ r # q => callDst'[t][r] = callDst[t][r]
  BY <1>3, <1>4 DEF TypeOK
<1>9. callDst'[s][q] = d
  BY <1>3, <1>4 DEF TypeOK
<1>10. ASSUME NEW r \in Session, r # q PROVE CallOK(r)'
  <2>1. /\ \A t \in Service : \A i \in Nat \ {0} :
             /\ At(t, i, r)' => /\ At(t, Old(k, t, i), r)
                                /\ Caller(t, i, r)' = Caller(t, Old(k, t, i), r)
             /\ At(t, i, r) => \E j \in Nat : At(t, j, r)'
        /\ \A t \in Service : callDst'[t][r] = callDst[t][r]
        /\ k \in [Service -> {0, 1}]
    BY SMTT(60), <1>0, <1>3, <1>5, <1>8, <1>10
  <2>2. \A t \in Service : \A i \in Nat : At(t, i, r)' =>
          /\ At(t, Old(k, t, i), r)
          /\ Caller(t, i, r)' = Caller(t, Old(k, t, i), r)
    BY <2>1, Followed
  <2>3. Somewhere(r) => Somewhere(r)'
    BY <2>1, Followed
  <2>4. CallOK(r) /\ sessions <= sessions' /\ dropped \subseteq dropped'
    BY <1>1 DEF CallInv, Calm, TypeOK
  <2>5. /\ ~Gone(r) /\ Somewhere(r)' => ~Gone(r)'
        /\ \A e \in Service : ~Gone(r) /\ Waits(e, r) => Waits(e, r)'
        /\ \A e \in Service : callCo'[e][r] # None =>
             callCo[e][r] # None /\ (Answered(e, r) => Answered(e, r)')
        /\ Unused(r) => Unused(r)'
    BY <1>1, CalmFacts DEF Calm
  <2> QED
    BY <1>0, <2>2, <2>3, <2>4, <2>5, CallKept
<1>11. CallOK(q)'
  <2>1. CallOK(q) /\ At(s, 1, q) /\ 1 \in Nat
    BY <1>3, <1>5 DEF CallInv
  <2>2. ~Gone(q) /\ Waits(d, q)
    BY <1>7, <2>1 DEF CallOK
  <2>3. ~Gone(q)' /\ Waits(d, q)'
    BY <1>1, <1>3, <2>2, CalmFacts
  <2>4. \A t \in Service : \A i \in Nat : At(t, i, q)' => t = s /\ i = 0
    <3> SUFFICES ASSUME NEW t \in Service, NEW i \in Nat, At(t, i, q)'
                 PROVE  t = s /\ i = 0
      OBVIOUS
    <3>1. CASE i # 0
      <4>1. At(t, Old(k, t, i), q) /\ Old(k, t, i) \in Nat
        BY <1>3, <1>5, <1>6, <3>1
      <4>2. t = s /\ Old(k, t, i) = 1
        BY <2>1, <4>1 DEF CallOK
      <4> QED
        BY <1>6, <3>1, <4>2
    <3>2. CASE i = 0 /\ t # s
      <4>1. At(t, 0, q)
        BY <1>3, <1>8, <3>2 DEF At
      <4> QED
        BY <2>1, <3>2, <4>1 DEF CallOK
    <3> QED
      BY <3>1, <3>2
  <2>5. At(s, 0, q)' /\ Caller(s, 0, q)' = d
    BY <1>3, <1>9 DEF At, Caller
  <2>6. \A t, u \in Service : callCo'[t][q] # None /\ callCo'[u][q] # None => t = u
    BY <1>1, <2>1 DEF Calm, CallOK
  <2>7. q \in Nat /\ sessions' \in Nat
    <3>1. sessions' \in Nat
      BY DEF TypeOK
    <3>2. QED
      BY <1>3, <3>1, LuaAssumption DEF Session
  <2> QED
    BY <1>3, <2>3, <2>4, <2>5, <2>6, <2>7, CallMoved
<1> QED
  BY <1>1, <1>10, <1>11, CalmWaiters DEF CallInv

\* An answer is taken: the coroutine that waited runs, and the handler is to
\* forget the session.
LEMMA AnswerTaken ==
  ASSUME TypeOK, TypeOK', CoInv, ServiceInv, CallInv, WaiterInv,
         NEW s \in Service, NEW c \in Coroutine, OnResponse(s, c)
  PROVE  CallInv' /\ WaiterInv'
<1> PICK m, q, w, k : /\ m = Head(box[s]) /\ q = m.id /\ w = callCo[s][q]
                      /\ k = [t \in Service |-> IF t = s THEN 1 ELSE 0]
  OBVIOUS
<1>0. BoxTypes /\ k \in [Service -> {0, 1}] /\ Take(s, "response")
  BY Types DEF OnResponse
<1>1. m \in Message /\ m.kind = "response"
  BY <1>0, TakeTyped
<1>2. q \in Session /\ q # 0 /\ \A r : Carries(m, r) <=> r = q
  BY <1>1, MessageFacts DEF Carries
<1>3. w # None /\ coState[s][w] = "waiting" /\ w \in Coroutine
  <2>1. w # None /\ coState[s][w] = "waiting"
    BY <1>0, HeadWaits
  <2> QED
    BY <1>2, <2>1 DEF TypeOK
<1>4. /\ coState[s][c] = "idle" /\ after[s][c] = Nothing /\ Nothing.session = 0
      /\ coState' = [coState EXCEPT ![s][c] = "running", ![s][w] = "running"]
      /\ after' = [after EXCEPT ![s][c] = [session |-> q, timer |-> 0]]
      /\ UNCHANGED <<stage, callCo, callDst, sessions, dropped>>
  BY <1>3 DEF OnResponse, CoInv, Nothing, callVars
<1>5. /\ \A t \in Service : \A e \in Coroutine :
           /\ t # s \/ e # c => after'[t][e] = after[t][e]
           /\ t # s \/ (e # c /\ e # w) => coState'[t][e] = coState[t][e]
      /\ after'[s][c].session = q
  <2>1. /\ DOMAIN after = Service /\ DOMAIN coState = Service
        /\ DOMAIN after[s] = Coroutine /\ DOMAIN coState[s] = Coroutine
    BY DEF TypeOK
  <2>2. after' = [after EXCEPT ![s] = [after[s] EXCEPT ![c] = [session |-> q, timer |-> 0]]]
    BY <1>4
  <2>3. /\ \A t \in Service : t # s => after'[t] = after[t]
        /\ \A e \in Coroutine : e # c => after'[s][e] = after[s][e]
        /\ after'[s][c] = [session |-> q, timer |-> 0]
    BY <2>1, <2>2
  <2>4. \A t \in Service : \A e \in Coroutine :
          t # s \/ (e # c /\ e # w) => coState'[t][e] = coState[t][e]
    BY <1>4, <2>1
  <2> QED
    BY <2>3, <2>4
<1>6. /\ \A t \in Service : \A r \in Session : t # s \/ r # q =>
           (Answered(t, r)' <=> Answered(t, r))
      /\ Answered(s, q)'
  <2>1. \A r \in Session : r # 0
    BY DEF Session
  <2> QED
    BY <1>4, <1>5, <2>1 DEF Answered
<1>7. /\ \A t \in Service : \A i \in Nat \ {0} : \A r \in Session :
           /\ At(t, i, r)' => /\ At(t, Old(k, t, i), r)
                              /\ Caller(t, i, r)' = Caller(t, Old(k, t, i), r)
           /\ At(t, i, r) => \/ \E j \in Nat : At(t, j, r)'
                             \/ t = s /\ i = 1 /\ Carries(m, r)
      /\ \A r \in Session : Carries(m, r) => At(s, 1, r)
  BY <1>0, AtTake
<1>8. CallOK(q) /\ At(s, 1, q) /\ 1 \in Nat /\ ~Gone(q)
  <2>1. CallOK(q) /\ At(s, 1, q) /\ 1 \in Nat
    BY <1>2, <1>7 DEF CallInv
  <2> QED
    BY <2>1 DEF CallOK
<1>9. Noted(s, q, w)
  BY <1>8 DEF Noted, Gone
<1>10. ASSUME NEW r \in Session, r # q PROVE CallOK(r)'
  <2>1. /\ \A t \in Service : \A i \in Nat \ {0} :
             /\ At(t, i, r)' => /\ At(t, Old(k, t, i), r)
                                /\ Caller(t, i, r)' = Caller(t, Old(k, t, i), r)
             /\ At(t, i, r) => \E j \in Nat : At(t, j, r)'
        /\ \A t \in Service : callDst'[t][r] = callDst[t][r]
        /\ k \in [Service -> {0, 1}]
    BY <1>0, <1>2, <1>4, <1>7, <1>10
  <2>2. \A t \in Service : \A i \in Nat : At(t, i, r)' =>
          /\ At(t, Old(k, t, i), r)
          /\ Caller(t, i, r)' = Caller(t, Old(k, t, i), r)
    BY <2>1, Followed
  <2>3. Somewhere(r) => Somewhere(r)'
    BY <2>1, Followed
  <2>4. CallOK(r) /\ sessions <= sessions' /\ dropped \subseteq dropped'
    BY <1>4 DEF CallInv, TypeOK
  <2>5. (Gone(r)' <=> Gone(r)) /\ (Unused(r)' <=> Unused(r))
    BY <1>4, <1>6, <1>10 DEF Gone, Unused
  <2>6. ASSUME NEW e \in Service, ~Gone(r), Waits(e, r) PROVE Waits(e, r)'
    <3>1. CASE stage[e] = "gone"
      BY <1>4, <3>1 DEF Waits
    <3>2. CASE callCo[e][r] # None /\ coState[e][callCo[e][r]] = "waiting"
      <4>1. callCo[e][r] \in Coroutine /\ Noted(e, r, callCo[e][r])
        BY <2>6, <3>2 DEF TypeOK, Noted, Gone
      <4>2. e = s => callCo[e][r] # c /\ callCo[e][r] # w
        <5>1. coState[s][c] # "waiting" /\ r \in Session \cup {0} /\ q \in Session \cup {0}
          BY <1>2, <1>4
        <5>2. e = s => callCo[e][r] # c
          BY <3>2, <5>1
        <5>3. ASSUME e = s, callCo[e][r] = w PROVE FALSE
          <6>1. Noted(s, r, w) /\ Noted(s, q, w) /\ w \in Coroutine
            BY <1>9, <4>1, <5>3
          <6>2. r = q
            BY <5>1, <6>1 DEF WaiterInv
          <6> QED
            BY <1>10, <6>2
        <5> QED
          BY <5>2, <5>3
      <4>3. coState'[e][callCo[e][r]] = "waiting"
        BY <1>5, <3>2, <4>1, <4>2
      <4> QED
        BY <1>4, <3>2, <4>3 DEF Waits
    <3> QED
      BY <2>6, <3>1, <3>2 DEF Waits
  <2>7. \A e \in Service : callCo'[e][r] # None =>
          callCo[e][r] # None /\ (Answered(e, r) => Answered(e, r)')
    BY <1>4, <1>6, <1>10
  <2> QED
    BY <1>0, <2>2, <2>3, <2>4, <2>5, <2>6, <2>7, CallKept
<1>11. CallOK(q)'
  <2>1. \A t \in Service : \A i \in Nat : ~At(t, i, q)'
    <3> SUFFICES ASSUME NEW t \in Service, NEW i \in Nat, At(t, i, q)' PROVE FALSE
      OBVIOUS
    <3>1. CASE i = 0
      <4>1. At(t, 0, q)
        BY <1>4, <3>1 DEF At
      <4> QED
        BY <1>8, <4>1 DEF CallOK
    <3>2. CASE i # 0
      <4>1. At(t, Old(k, t, i), q) /\ Old(k, t, i) \in Nat
        BY <1>0, <1>2, <1>7, <3>2 DEF Old
      <4>2. t = s /\ Old(k, t, i) = 1
        BY <1>8, <4>1 DEF CallOK
      <4> QED
        BY <3>2, <4>2 DEF Old
    <3> QED
      BY <3>1, <3>2
  <2>2. \A t \in Service : callCo'[t][q] # None => t = s
    BY <1>3, <1>4, <1>8 DEF CallOK
  <2>3. q <= sessions'
    BY <1>3, <1>4, <1>8 DEF CallOK
  <2>4. ~(q > sessions')
    <3>1. q \in Nat /\ sessions' \in Nat
      BY <1>2, LuaAssumption DEF TypeOK, Session
    <3> QED
      BY <2>3, <3>1
  <2> QED
    BY <1>6, <2>1, <2>2, <2>3, <2>4 DEF CallOK
<1>12. WaiterInv'
  <2>1. ASSUME NEW t \in Service, NEW r \in Session \cup {0}, NEW e, Noted(t, r, e)'
        PROVE  Noted(t, r, e) /\ (t = s => r # q)
    <3>1. callCo[t][r] = e /\ (r = 0 \/ ~Answered(t, r)')
      BY <1>4, <2>1 DEF Noted
    <3>2. t = s => r # q
      BY <1>2, <1>6, <3>1
    <3> QED
      BY <1>6, <3>1, <3>2 DEF Noted
  <2>2. ASSUME NEW t \in Service, NEW e \in Coroutine, NEW r \in Session \cup {0},
               Noted(t, r, e)'
        PROVE  coState'[t][e] = "waiting"
    <3>1. Noted(t, r, e) /\ (t = s => r # q) /\ coState[t][e] = "waiting"
      BY <2>1, <2>2 DEF WaiterInv
    <3>2. t = s => e # c
      BY <1>4, <3>1
    <3>3. w \in Coroutine /\ q \in Session \cup {0}
      BY <1>2, <1>3
    <3>4. t = s => e # w
      BY <1>9, <3>1, <3>3 DEF WaiterInv
    <3> QED
      BY <1>5, <3>1, <3>2, <3>4
  <2> QED
    BY <2>1, <2>2 DEF WaiterInv
<1> QED
  BY <1>10, <1>11, <1>12 DEF CallInv

\* An answer is sent, or lost when the caller is not in the map.
LEMMA AnswerSent ==
  ASSUME TypeOK, TypeOK', CallInv, WaiterInv,
         NEW s \in Service, NEW q \in Session, LocalResponse(s, q)
  PROVE  CallInv' /\ WaiterInv'
<1> PICK d, k, n : /\ d = callDst[s][q] /\ k = [t \in Service |-> 0]
                   /\ n = Len(box[d]) + 1
  OBVIOUS
<1>0. /\ BoxTypes /\ k \in [Service -> {0, 1}]
      /\ \A t \in Service : \A i \in Nat : Old(k, t, i) = i
  BY Types, NoShift
<1>1. /\ d # None /\ d \in Service
      /\ callDst' = [callDst EXCEPT ![s][q] = None]
      /\ UNCHANGED <<stage, coVars, callCo, sessions>>
  BY DEF LocalResponse, TypeOK
<1>2. /\ \A t \in Service : \A r \in Session :
           t # s \/ r # q => callDst'[t][r] = callDst[t][r]
      /\ callDst'[s][q] = None
  BY <1>1 DEF TypeOK
<1>3. CoCalm /\ (UNCHANGED dropped => Calm)
  BY <1>1 DEF CoCalm, Calm, coVars
<1>4. CallOK(q) /\ At(s, 0, q) /\ Caller(s, 0, q) = d /\ 0 \in Nat
  BY <1>1 DEF CallInv, At, Caller
<1>5. ~Gone(q) /\ Waits(d, q) /\ \A t \in Service : \A i \in Nat :
        At(t, i, q) => t = s /\ i = 0
  BY <1>4 DEF CallOK
<1>6. \A t, u \in Service : callCo'[t][q] # None /\ callCo'[u][q] # None => t = u
  BY <1>1, <1>4 DEF CallOK
<1>7. q \in Nat /\ sessions \in Nat /\ sessions' = sessions
  BY <1>1, LuaAssumption DEF TypeOK, Session
<1>8. CASE Reaches(d)
  <2> PICK m : m = Msg("response", q, None)
    OBVIOUS
  <2>1. Post(d, m) /\ UNCHANGED dropped
    BY <1>8 DEF LocalResponse
  <2>2. m \in Message /\ m.kind = "response" /\ \A r : Carries(m, r) <=> r = q
    BY MsgTyped DEF Carries, Msg
  <2>3. /\ \A t \in Service : \A i \in Nat \ {0} : \A r \in Session :
             /\ At(t, i, r) => At(t, i, r)' /\ Caller(t, i, r)' = Caller(t, i, r)
             /\ At(t, i, r)' => At(t, i, r) \/ (t = d /\ i = n /\ Carries(m, r))
        /\ n \in Nat \ {0} /\ box'[d][n] = m
        /\ \A r \in Session : Carries(m, r) => At(d, n, r)'
    BY <1>0, <1>1, <2>1, <2>2, AtPost
  <2>4. ASSUME NEW r \in Session, r # q PROVE CallOK(r)'
    <3>1. \A t \in Service : \A i \in Nat \ {0} :
            /\ At(t, i, r)' => /\ At(t, Old(k, t, i), r)
                               /\ Caller(t, i, r)' = Caller(t, Old(k, t, i), r)
            /\ At(t, i, r) => \E j \in Nat : At(t, j, r)'
      BY <1>0, <2>2, <2>3, <2>4
    <3>2. \A t \in Service : \A i \in Nat : At(t, i, r)' =>
            /\ At(t, Old(k, t, i), r)
            /\ Caller(t, i, r)' = Caller(t, Old(k, t, i), r)
      BY <1>0, <1>2, <2>4, <3>1, Followed
    <3>3. Somewhere(r) => Somewhere(r)'
      BY <1>0, <1>2, <2>4, <3>1, Followed
    <3>4. CallOK(r) /\ sessions <= sessions' /\ dropped \subseteq dropped'
      BY <1>7, <2>1 DEF CallInv
    <3>5. /\ ~Gone(r) /\ Somewhere(r)' => ~Gone(r)'
          /\ \A e \in Service : ~Gone(r) /\ Waits(e, r) => Waits(e, r)'
          /\ \A e \in Service : callCo'[e][r] # None =>
               callCo[e][r] # None /\ (Answered(e, r) => Answered(e, r)')
          /\ Unused(r) => Unused(r)'
      BY <1>1, <1>3, <2>1, CalmFacts
    <3> QED
      BY <1>0, <3>2, <3>3, <3>4, <3>5, CallKept
  <2>5. CallOK(q)'
    <3>1. ~Gone(q)' /\ Waits(d, q)'
      BY <1>1, <1>3, <1>5, <2>1, CalmFacts
    <3>2. \A t \in Service : \A i \in Nat : At(t, i, q)' => t = d /\ i = n
      <4> SUFFICES ASSUME NEW t \in Service, NEW i \in Nat, At(t, i, q)'
                   PROVE  t = d /\ i = n
        OBVIOUS
      <4>1. CASE i # 0
        BY <1>5, <2>3, <4>1
      <4>2. CASE i = 0
        <5>1. callDst'[t][q] # None
          BY <4>2 DEF At
        <5>2. t # s /\ callDst[t][q] # None
          BY <1>2, <5>1
        <5> QED
          BY <1>5, <4>2, <5>2 DEF At
      <4> QED
        BY <4>1, <4>2
    <3>3. At(d, n, q)' /\ Caller(d, n, q)' = d
      BY <2>2, <2>3 DEF Caller
    <3> QED
      BY <1>1, <1>6, <1>7, <2>3, <3>1, <3>2, <3>3, CallMoved
  <2> QED
    BY <1>3, <2>1, <2>4, <2>5, CalmWaiters DEF CallInv
<1>9. CASE ~Reaches(d)
  <2>1. dropped' = dropped \cup {q} /\ box' = box
    BY <1>9 DEF LocalResponse
  <2>2. \A t \in Service : \A r \in Session \cup {0} :
          /\ Answered(t, r)' <=> Answered(t, r)
          /\ Waits(t, r)' <=> Waits(t, r)
    BY <1>1 DEF Answered, Waits, coVars
  <2>3. \A t \in Service : \A i \in Nat \ {0} : \A r \in Session :
          (At(t, i, r)' <=> At(t, i, r)) /\ Caller(t, i, r)' = Caller(t, i, r)
    BY <2>1 DEF At, Caller
  <2>4. ASSUME NEW r \in Session, r # q PROVE CallOK(r)'
    <3>1. \A t \in Service : \A i \in Nat : At(t, i, r)' =>
            /\ At(t, Old(k, t, i), r)
            /\ Caller(t, i, r)' = Caller(t, Old(k, t, i), r)
      BY <1>0, <1>2, <2>3, <2>4, Followed
    <3>2. Somewhere(r) => Somewhere(r)'
      BY <1>0, <1>2, <2>3, <2>4, Followed
    <3>3. CallOK(r) /\ sessions <= sessions' /\ dropped \subseteq dropped'
      BY <1>7, <2>1 DEF CallInv
    <3>4. (Gone(r)' <=> Gone(r)) /\ (Unused(r)' <=> Unused(r))
      BY <1>7, <2>1, <2>2, <2>4 DEF Gone, Unused
    <3> QED
      BY <1>0, <1>1, <2>2, <3>1, <3>2, <3>3, <3>4, CallKept
  <2>5. CallOK(q)'
    <3>1. \A t \in Service : \A i \in Nat : ~At(t, i, q)'
      <4> SUFFICES ASSUME NEW t \in Service, NEW i \in Nat, At(t, i, q)' PROVE FALSE
        OBVIOUS
      <4>1. CASE i # 0
        BY <1>5, <2>3, <4>1
      <4>2. CASE i = 0
        <5>1. callDst'[t][q] # None
          BY <4>2 DEF At
        <5>2. t # s /\ callDst[t][q] # None
          BY <1>2, <5>1
        <5> QED
          BY <1>5, <4>2, <5>2 DEF At
      <4> QED
        BY <4>1, <4>2
    <3>2. ~(q > sessions')
      BY <1>5, <1>7 DEF Gone
    <3>3. q <= sessions' /\ q \in dropped'
      BY <1>7, <2>1, <3>2
    <3> QED
      BY <1>6, <3>1, <3>2, <3>3 DEF CallOK
  <2>6. WaiterInv'
    BY <1>1, <2>2 DEF WaiterInv, Noted, coVars
  <2> QED
    BY <2>4, <2>5, <2>6 DEF CallInv
<1> QED
  BY <1>8, <1>9

\* A request is sent with a new session, or to nobody with session 0.
LEMMA RequestSent ==
  ASSUME TypeOK, TypeOK', CoInv, CallInv, WaiterInv,
         NEW s \in Service, NEW d \in Service, LocalRequest(s, d)
  PROVE  CallInv' /\ WaiterInv'
<1> PICK q, c, k, n : /\ q = (IF d \in inMap THEN sessions + 1 ELSE 0) /\ c = Top(s)
                      /\ k = [t \in Service |-> 0] /\ n = Len(box[d]) + 1
  OBVIOUS
<1>0. /\ BoxTypes /\ k \in [Service -> {0, 1}]
      /\ \A t \in Service : \A i \in Nat : Old(k, t, i) = i
  BY Types, NoShift
<1>1. /\ callCo' = [callCo EXCEPT ![s][q] = c]
      /\ coState' = [coState EXCEPT ![s][c] = "waiting"]
      /\ UNCHANGED <<stage, after, callDst>>
      /\ dropped \subseteq dropped' /\ dropped' \subseteq dropped \cup {q}
      /\ sessions < MaxSession /\ sessions \in Nat /\ MaxSession \in Nat
  BY LuaAssumption DEF LocalRequest, TypeOK
<1>2. c \in Coroutine /\ coState[s][c] = "running"
  BY Popped, Types DEF LocalRequest, InProgram, InCoroutine
<1>3. q \in Session \cup {0}
  BY <1>1 DEF Session
<1>4. /\ \A t \in Service : \A e \in Coroutine :
           t # s \/ e # c => coState'[t][e] = coState[t][e]
      /\ coState'[s][c] = "waiting"
      /\ \A t \in Service : \A r \in Session \cup {0} :
           t # s \/ r # q => callCo'[t][r] = callCo[t][r]
      /\ callCo'[s][q] = c /\ c # None
  BY <1>1, <1>2, <1>3, LuaAssumption DEF TypeOK
<1>5. /\ \A t \in Service : \A r \in Session \cup {0} : Answered(t, r)' <=> Answered(t, r)
      /\ \A r \in Session : r # q \/ UNCHANGED dropped => (Unused(r)' <=> Unused(r))
  BY <1>1 DEF Answered, Unused
<1>6. \A t \in Service : \A r \in Session : r # q => (Waits(t, r) => Waits(t, r)')
  BY <1>1, <1>2, <1>4 DEF Waits
<1>7. sessions' \in Nat /\ sessions <= sessions'
  BY <1>1 DEF LocalRequest
<1>8. ASSUME NEW r \in Session, r # q,
             \A t \in Service : \A i \in Nat \ {0} :
               /\ At(t, i, r)' => At(t, i, r) /\ Caller(t, i, r)' = Caller(t, i, r)
               /\ At(t, i, r) => At(t, i, r)'
      PROVE  CallOK(r)'
  <2>1. \A t \in Service : \A i \in Nat \ {0} :
          /\ At(t, i, r)' => /\ At(t, Old(k, t, i), r)
                             /\ Caller(t, i, r)' = Caller(t, Old(k, t, i), r)
          /\ At(t, i, r) => \E j \in Nat : At(t, j, r)'
    BY <1>0, <1>8
  <2>2. \A t \in Service : \A i \in Nat : At(t, i, r)' =>
          /\ At(t, Old(k, t, i), r)
          /\ Caller(t, i, r)' = Caller(t, Old(k, t, i), r)
    BY <1>0, <1>1, <2>1, Followed
  <2>3. Somewhere(r) => Somewhere(r)'
    BY <1>0, <1>1, <2>1, Followed
  <2>4. CallOK(r) /\ dropped \subseteq dropped' /\ r \in Nat
    BY <1>1 DEF CallInv, Session
  <2>5. Gone(r)' => Gone(r)
    BY <1>1, <1>5, <1>7, <1>8, <2>4 DEF Gone
  <2>6. \A e \in Service : callCo'[e][r] # None =>
          callCo[e][r] # None /\ (Answered(e, r) => Answered(e, r)')
    BY <1>4, <1>5, <1>8
  <2> QED
    BY <1>0, <1>5, <1>6, <1>7, <1>8, <2>2, <2>3, <2>4, <2>5, <2>6, CallKept
<1>9. CallInv'
  <2>a. ASSUME q = sessions + 1
        PROVE  /\ q \in Session /\ Unused(q)
               /\ \A t \in Service : callCo[t][q] = None
               /\ \A t \in Service : \A i \in Nat : ~At(t, i, q)
    <3>1. q \in Session /\ q > sessions
      BY <1>1, <1>3, <2>a
    <3>2. CallOK(q)
      BY <3>1 DEF CallInv
    <3>3. Gone(q) /\ Unused(q)
      BY <3>1, <3>2 DEF Gone, CallOK
    <3> QED
      BY <1>1, <3>1, <3>2, <3>3 DEF CallOK
  <2>1. CASE Reaches(d)
    <3> PICK m : m = Msg("request", q, s)
      OBVIOUS
    <3>1. /\ Post(d, m) /\ sessions' = q /\ q = sessions + 1 /\ q \in Session
          /\ UNCHANGED dropped
      BY <1>1, <1>3, <2>1 DEF LocalRequest, Reaches
    <3>2. /\ m \in Message /\ m.kind = "request" /\ m.src = s
          /\ \A r : Carries(m, r) <=> r = q
      BY <3>1, MsgTyped DEF Carries, Msg
    <3>3. /\ \A t \in Service : \A i \in Nat \ {0} : \A r \in Session :
               /\ At(t, i, r) => At(t, i, r)' /\ Caller(t, i, r)' = Caller(t, i, r)
               /\ At(t, i, r)' => At(t, i, r) \/ (t = d /\ i = n /\ Carries(m, r))
          /\ n \in Nat \ {0} /\ box'[d][n] = m
          /\ \A r \in Session : Carries(m, r) => At(d, n, r)'
      BY <1>0, <3>1, <3>2, AtPost
    <3>4. ASSUME NEW r \in Session, r # q PROVE CallOK(r)'
      BY <1>8, <3>2, <3>3, <3>4
    <3>5. CallOK(q)'
      <4>2. \A t \in Service : callCo[t][q] = None
        BY <2>a, <3>1
      <4>3. Unused(q)
        BY <2>a, <3>1
      <4>4. \A t \in Service : \A i \in Nat : ~At(t, i, q)
        BY <2>a, <3>1
      <4>5. \A t \in Service : \A i \in Nat : At(t, i, q)' => t = d /\ i = n
        <5> SUFFICES ASSUME NEW t \in Service, NEW i \in Nat, At(t, i, q)'
                     PROVE  t = d /\ i = n
          OBVIOUS
        <5>1. CASE i # 0
          BY <3>1, <3>3, <4>4, <5>1
        <5>2. CASE i = 0
          <6>1. At(t, 0, q)
            BY <1>1, <5>2 DEF At
          <6> QED
            BY <4>4, <6>1
        <5> QED
          BY <5>1, <5>2
      <4>6. At(d, n, q)' /\ Caller(d, n, q)' = s
        BY <3>1, <3>2, <3>3 DEF Caller
      <4>7. Waits(s, q)'
        BY <1>4 DEF Waits
      <4>8. ~Gone(q)'
        <5>1. Unused(q)' /\ ~(q > sessions')
          BY <1>5, <1>7, <3>1, <4>3
        <5> QED
          BY <5>1 DEF Gone, Unused
      <4>9. \A t, u \in Service : callCo'[t][q] # None /\ callCo'[u][q] # None => t = u
        BY <1>3, <1>4, <4>2
      <4>10. n \in Nat /\ q \in Nat /\ q \in Session
        BY <1>7, <3>1, <3>3
      <4> QED
        BY <1>7, <4>5, <4>6, <4>7, <4>8, <4>9, <4>10, CallMoved
    <3> QED
      BY <3>4, <3>5 DEF CallInv
  <2>2. CASE ~Reaches(d)
    <3>1. /\ box' = box /\ dropped' = dropped \cup ({q} \ {0})
          /\ q = sessions + 1 \/ q = 0
          /\ q # 0 => sessions' = q
      BY <2>2 DEF LocalRequest
    <3>2. \A t \in Service : \A i \in Nat : \A r \in Session :
            (At(t, i, r)' <=> At(t, i, r)) /\ Caller(t, i, r)' = Caller(t, i, r)
      BY <1>1, <3>1 DEF At, Caller
    <3>3. ASSUME q \in Session PROVE CallOK(q)'
      <4>1. q = sessions + 1 /\ q # 0
        BY <3>1, <3>3 DEF Session
      <4>2. /\ \A t \in Service : callCo[t][q] = None
            /\ \A t \in Service : \A i \in Nat : ~At(t, i, q)
        BY <2>a, <4>1
      <4>3. \A t \in Service : \A i \in Nat : ~At(t, i, q)'
        BY <3>2, <3>3, <4>2
      <4>4. sessions' = q /\ q \in dropped' /\ q \in Nat
        BY <1>7, <3>1, <4>1
      <4>5. q <= sessions' /\ ~(q > sessions')
        BY <4>4
      <4>6. \A t \in Service : callCo'[t][q] # None => t = s
        BY <1>4, <3>3, <4>2
      <4> QED
        BY <4>3, <4>4, <4>5, <4>6 DEF CallOK
    <3> QED
      BY <1>8, <3>2, <3>3 DEF CallInv
  <2> QED
    BY <2>1, <2>2
<1>10. WaiterInv'
  <2>1. ASSUME NEW t \in Service, NEW e \in Coroutine, NEW r \in Session \cup {0},
               Noted(t, r, e)'
        PROVE  \/ t = s /\ e = c /\ r = q
               \/ Noted(t, r, e) /\ (t # s \/ e # c) /\ (t # s \/ r # q)
    <3>1. CASE t = s /\ r = q
      BY <1>4, <2>1, <3>1 DEF Noted
    <3>2. CASE t # s \/ r # q
      <4>1. Noted(t, r, e)
        BY <1>4, <1>5, <2>1, <3>2 DEF Noted
      <4>2. coState[t][e] = "waiting"
        BY <4>1 DEF WaiterInv
      <4> QED
        BY <1>2, <3>2, <4>1, <4>2
    <3> QED
      BY <3>1, <3>2
  <2>2. ASSUME NEW t \in Service, NEW e \in Coroutine, NEW r \in Session \cup {0},
               Noted(t, r, e)'
        PROVE  /\ coState'[t][e] = "waiting"
               /\ \A p \in Session \cup {0} : Noted(t, p, e)' => p = r
    <3>1. CASE t = s /\ e = c /\ r = q
      BY <1>4, <2>1, <3>1
    <3>2. CASE Noted(t, r, e) /\ (t # s \/ e # c)
      <4>1. /\ coState[t][e] = "waiting"
            /\ \A p \in Session \cup {0} : Noted(t, p, e) => p = r
        BY <3>2 DEF WaiterInv
      <4> QED
        BY <1>4, <2>1, <3>2, <4>1
    <3> QED
      BY <2>1, <2>2, <3>1, <3>2
  <2> QED
    BY <2>2 DEF WaiterInv
<1> QED
  BY <1>9, <1>10

\* A handler returns, and forgets the session it answered.
LEMMA Finished ==
  ASSUME TypeOK, TypeOK', CoInv, CallInv, WaiterInv, NEW s \in Service, Finish(s)
  PROVE  CallInv' /\ WaiterInv'
<1> PICK c, q, k : /\ c = Top(s) /\ q = after[s][c].session
                   /\ k = [t \in Service |-> 0]
  OBVIOUS
<1>0. /\ k \in [Service -> {0, 1}]
      /\ \A t \in Service : \A i \in Nat : Old(k, t, i) = i
  BY NoShift
<1>1. c \in Coroutine /\ coState[s][c] = "running"
  BY Popped, Types DEF Finish, InCoroutine, Leave
<1>2. q \in Session \cup {0}
  BY <1>1 DEF TypeOK
<1>3. /\ callCo' = [callCo EXCEPT ![s] =
           [r \in DOMAIN @ |-> IF r = q /\ r # 0 THEN None ELSE @[r]]]
      /\ coState' = [coState EXCEPT ![s][c] = "idle"]
      /\ after' = [after EXCEPT ![s][c] = Nothing]
      /\ UNCHANGED <<stage, box, callDst, sessions, dropped>>
  BY DEF Finish, Leave
<1>4. /\ \A t \in Service : \A e \in Coroutine : t # s \/ e # c =>
           coState'[t][e] = coState[t][e] /\ after'[t][e] = after[t][e]
      /\ after'[s][c].session = 0
      /\ \A t \in Service : \A r \in Session \cup {0} :
           t # s \/ r # q \/ r = 0 => callCo'[t][r] = callCo[t][r]
      /\ q # 0 => callCo'[s][q] = None
  BY <1>1, <1>2, <1>3 DEF TypeOK, Nothing
<1>5. \A r \in Session : r # 0
  BY DEF Session
<1>6. /\ \A t \in Service : \A r \in Session : t # s \/ r # q =>
           (Answered(t, r)' <=> Answered(t, r))
      /\ q \in Session => Answered(s, q)
      /\ \A t \in Service : \A r \in Session : Answered(t, r)' => Answered(t, r)
  BY <1>1, <1>4, <1>5 DEF Answered
<1>7. \A t \in Service : \A i \in Nat : \A r \in Session :
        (At(t, i, r)' <=> At(t, i, r)) /\ Caller(t, i, r)' = Caller(t, i, r)
  BY <1>3 DEF At, Caller
<1>8. ASSUME NEW r \in Session, r # q PROVE CallOK(r)'
  <2>1. \A t \in Service : \A i \in Nat : At(t, i, r)' =>
          /\ At(t, Old(k, t, i), r)
          /\ Caller(t, i, r)' = Caller(t, Old(k, t, i), r)
    BY <1>0, <1>7
  <2>2. Somewhere(r) => Somewhere(r)'
    BY <1>7 DEF Somewhere
  <2>3. CallOK(r) /\ sessions <= sessions' /\ dropped \subseteq dropped'
    BY <1>3 DEF CallInv, TypeOK
  <2>4. (Gone(r)' <=> Gone(r)) /\ (Unused(r)' <=> Unused(r))
    BY <1>3, <1>6, <1>8 DEF Gone, Unused
  <2>5. \A e \in Service : Waits(e, r) => Waits(e, r)'
    BY <1>1, <1>3, <1>4, <1>8 DEF Waits, TypeOK
  <2>6. \A e \in Service : callCo'[e][r] # None =>
          callCo[e][r] # None /\ (Answered(e, r) => Answered(e, r)')
    BY <1>4, <1>6, <1>8
  <2> QED
    BY <1>0, <2>1, <2>2, <2>3, <2>4, <2>5, <2>6, CallKept
<1>9. ASSUME q \in Session PROVE CallOK(q)'
  <2>1. CallOK(q) /\ Gone(q)
    BY <1>6, <1>9 DEF CallInv, Gone
  <2>2. \A t \in Service : \A i \in Nat : ~At(t, i, q)'
    BY <1>7, <1>9, <2>1 DEF CallOK
  <2>3. \A t \in Service : callCo'[t][q] # None =>
          t # s /\ callCo'[t][q] = callCo[t][q] /\ (Answered(t, q) => Answered(t, q)')
    BY <1>4, <1>5, <1>6, <1>9
  <2>4. \A t \in Service : callCo'[t][q] # None =>
          /\ q <= sessions'
          /\ \A u \in Service : callCo'[u][q] # None => u = t
          /\ Answered(t, q)' \/ q \in dropped'
    <3>1. \A t \in Service : \A i \in Nat : ~At(t, i, q)
      BY <1>7, <1>9, <2>2
    <3> QED
      BY <1>3, <2>1, <2>3, <3>1 DEF CallOK
  <2>5. q > sessions' => Unused(q)'
    BY <1>3, <1>6, <1>9, <2>1 DEF CallOK, Unused
  <2> QED
    BY <2>2, <2>4, <2>5 DEF CallOK
<1>10. WaiterInv'
  <2>1. ASSUME NEW t \in Service, NEW e \in Coroutine, NEW r \in Session \cup {0},
               Noted(t, r, e)'
        PROVE  Noted(t, r, e)
    <3>1. ~(t = s /\ r = q /\ r # 0)
      BY <1>4, <2>1, LuaAssumption DEF Noted
    <3>2. callCo[t][r] = e
      BY <1>4, <2>1, <3>1 DEF Noted
    <3>3. CASE r = 0
      BY <3>2, <3>3 DEF Noted
    <3>4. CASE r \in Session
      BY <1>5, <1>6, <2>1, <3>1, <3>2, <3>4 DEF Noted
    <3> QED
      BY <3>3, <3>4
  <2>2. ASSUME NEW t \in Service, NEW e \in Coroutine, NEW r \in Session \cup {0},
               Noted(t, r, e)'
        PROVE  coState'[t][e] = "waiting"
    <3>1. coState[t][e] = "waiting"
      BY <2>1, <2>2 DEF WaiterInv
    <3> QED
      BY <1>1, <1>4, <3>1
  <2>3. ASSUME NEW t \in Service, NEW e \in Coroutine, NEW r \in Session \cup {0},
               NEW p \in Session \cup {0}, Noted(t, r, e)', Noted(t, p, e)'
        PROVE  p = r
    BY <2>1, <2>3 DEF WaiterInv
  <2> QED
    BY <2>2, <2>3 DEF WaiterInv
<1> QED
  BY <1>8, <1>9, <1>10 DEF CallInv

\* A service is deleted: what it had is lost, and it waits for nothing.
LEMMA Closed ==
  ASSUME TypeOK, TypeOK', CallInv, WaiterInv, NEW s \in Service, OnClose(s)
  PROVE  CallInv' /\ WaiterInv'
<1> PICK k : k = [t \in Service |-> 0]
  OBVIOUS
<1>0. /\ k \in [Service -> {0, 1}]
      /\ \A t \in Service : \A i \in Nat : Old(k, t, i) = i
  BY NoShift
<1>1. /\ stage' = [stage EXCEPT ![s] = "gone"]
      /\ dropped' = dropped \cup SessionsOf(box[s])
                      \cup {r \in Session : callDst[s][r] # None}
      /\ box' = [box EXCEPT ![s] = <<>>]
      /\ coState' = [coState EXCEPT ![s] = [c \in Coroutine |-> "idle"]]
      /\ after' = [after EXCEPT ![s] = [c \in Coroutine |-> Nothing]]
      /\ callCo' = [callCo EXCEPT ![s] = [r \in Session \cup {0} |-> None]]
      /\ callDst' = [callDst EXCEPT ![s] = [r \in Session |-> None]]
      /\ sessions' = sessions
  BY DEF OnClose
<1>2. /\ \A t \in Service : t # s =>
           /\ stage'[t] = stage[t] /\ box'[t] = box[t] /\ callDst'[t] = callDst[t]
           /\ coState'[t] = coState[t] /\ after'[t] = after[t] /\ callCo'[t] = callCo[t]
      /\ stage'[s] = "gone" /\ box'[s] = <<>>
      /\ \A r \in Session : callDst'[s][r] = None
      /\ \A r \in Session \cup {0} : callCo'[s][r] = None
      /\ \A c \in Coroutine : after'[s][c].session = 0
  BY <1>1 DEF TypeOK, Nothing
<1>3. DOMAIN <<>> = {}
  OBVIOUS
<1>4. \A i \in Nat : \A r \in Session : ~At(s, i, r)'
  BY <1>2, <1>3 DEF At
<1>5. \A t \in Service : \A i \in Nat : \A r \in Session : t # s =>
        (At(t, i, r)' <=> At(t, i, r)) /\ Caller(t, i, r)' = Caller(t, i, r)
  BY <1>2 DEF At, Caller
<1>6. \A r \in Session :
        r \in dropped' <=> (r \in dropped \/ \E i \in Nat : At(s, i, r))
  <2>1. DOMAIN box[s] = 1..Len(box[s]) /\ Len(box[s]) \in Nat
    BY DEF TypeOK
  <2>2. /\ 1..Len(box[s]) \subseteq Nat
        /\ \A i \in 1..Len(box[s]) : i # 0
    BY <2>1
  <2>3. \A r \in Session :
          r \in SessionsOf(box[s]) <=> \E i \in 1..Len(box[s]) : Carries(box[s][i], r)
    BY DEF SessionsOf, Carries
  <2> QED
    BY <1>1, <2>1, <2>2, <2>3 DEF At
<1>7. \A t \in Service : \A r \in Session :
        /\ t # s => (Answered(t, r)' <=> Answered(t, r))
        /\ ~Answered(s, r)'
  <2>1. \A r \in Session : r # 0
    BY DEF Session
  <2> QED
    BY <1>2, <2>1 DEF Answered
<1>8. ASSUME NEW r \in Session PROVE CallOK(r)'
  <2>1. \A t \in Service : \A i \in Nat : At(t, i, r)' =>
          /\ At(t, Old(k, t, i), r)
          /\ Caller(t, i, r)' = Caller(t, Old(k, t, i), r)
    BY <1>0, <1>4, <1>5
  <2>2. CallOK(r) /\ sessions <= sessions' /\ dropped \subseteq dropped'
    BY <1>1 DEF CallInv, TypeOK
  <2>3. Somewhere(r) => r \in dropped' \/ Somewhere(r)'
    BY <1>5, <1>6 DEF Somewhere
  <2>4. ~Gone(r) /\ Somewhere(r)' => ~Gone(r)'
    <3> SUFFICES ASSUME ~Gone(r), NEW t \in Service, NEW i \in Nat, At(t, i, r)'
                 PROVE  ~Gone(r)'
      BY DEF Somewhere
    <3>1. t # s /\ At(t, i, r)
      BY <1>4, <1>5
    <3>2. \A j \in Nat : ~At(s, j, r)
      BY <2>2, <3>1 DEF CallOK
    <3>3. r \notin dropped'
      BY <1>6, <3>2 DEF Gone
    <3> QED
      BY <1>1, <1>7, <3>3 DEF Gone
  <2>5. \A d \in Service : Waits(d, r) => Waits(d, r)'
    BY <1>2 DEF Waits
  <2>6. \A d \in Service : callCo'[d][r] # None =>
          callCo[d][r] # None /\ (Answered(d, r) => Answered(d, r)')
    BY <1>2, <1>7
  <2>7. r > sessions /\ Unused(r) => Unused(r)'
    <3> SUFFICES ASSUME r > sessions, Unused(r) PROVE Unused(r)'
      OBVIOUS
    <3>1. \A j \in Nat : ~At(s, j, r)
      BY <2>2 DEF CallOK, Gone
    <3> QED
      BY <1>6, <1>7, <3>1 DEF Unused
  <2> QED
    BY <1>0, <2>1, <2>2, <2>3, <2>4, <2>5, <2>6, <2>7, CallKept
<1>9. WaiterInv'
  <2>1. ASSUME NEW t \in Service, NEW e \in Coroutine, NEW r \in Session \cup {0},
               Noted(t, r, e)'
        PROVE  Noted(t, r, e) /\ t # s
    <3>1. t # s
      BY <1>2, <2>1, LuaAssumption DEF Noted
    <3> QED
      BY <1>2, <1>7, <2>1, <3>1 DEF Noted
  <2>2. \A t \in Service : \A e \in Coroutine : t # s => coState'[t][e] = coState[t][e]
    BY <1>2
  <2> QED
    BY <2>1, <2>2 DEF WaiterInv
<1> QED
  BY <1>8, <1>9 DEF CallInv

LEMMA CallsKept ==
  ASSUME TypeOK, TypeOK', CoInv, ServiceInv, CallInv, WaiterInv, [Next]_vars
  PROVE  CallInv' /\ WaiterInv'
BY CalmSteps, RequestTaken, AnswerTaken, AnswerSent, RequestSent, Finished, Closed
   DEF Next, Step, Handle

-----------------------------------------------------------------------------
(***************************************************************************)
(* The invariant, and what follows from it.                                *)
(***************************************************************************)
LEMMA LuaInit == Init => LuaInv
<1> SUFFICES ASSUME Init PROVE LuaInv
  OBVIOUS
<1>1. DOMAIN <<>> = {} /\ Nothing \in Todo /\ Nothing.session = 0
  BY DEF Nothing, Todo
<1>2. 0 \in 0..MaxSession /\ 0 \in 0..MaxTimer /\ 0 \in 0..MaxEvent
  BY LuaAssumption
<1>3. TypeOK
  BY <1>1, <1>2 DEF Init, TypeOK, Todo
<1>4. CoInv
  BY <1>1 DEF Init, CoInv, On
<1>5. ServiceInv /\ TimerInv
  BY DEF Init, ServiceInv, TimerInv
<1>6. \A r \in Session : r # 0
  BY DEF Session
<1>7. CallInv
  BY <1>1, <1>6 DEF Init, CallInv, CallOK, At, Unused, Answered
<1>8. WaiterInv
  BY LuaAssumption DEF Init, WaiterInv, Noted
<1> QED
  BY <1>3, <1>4, <1>5, <1>7, <1>8 DEF LuaInv

LEMMA LuaStep == LuaInv /\ [Next]_vars => LuaInv'
  BY TypesKept, CoKept, ServicesKept, TimersKept, CallsKept DEF LuaInv

\* The strengthened invariant of the Lua core: coroutines, services, timers,
\* calls and the coroutines that wait for them fit together.
THEOREM LuaInvariant == Spec => []LuaInv
  BY LuaInit, LuaStep, PTL DEF Spec

\* Every variable of the Lua core keeps its shape.
THEOREM LuaTypes == Spec => []TypeOK
<1>1. LuaInv => TypeOK
  BY DEF LuaInv
<1> QED
  BY <1>1, LuaInvariant, PTL

LEMMA AtMostOne ==
  ASSUME NEW S, \A x, y \in S : x = y
  PROVE  Cardinality(S) <= 1
<1>1. CASE S = {}
  BY <1>1, FS_EmptySet
<1>2. CASE S # {}
  <2>1. PICK x : S = {x}
    BY <1>2
  <2> QED
    BY <2>1, FS_Singleton
<1> QED
  BY <1>1, <1>2

LEMMA PlacesAt ==
  ASSUME TypeOK, NEW r
  PROVE  \A x : x \in Places(r) <=>
           \E t \in Service : \E i \in Nat : x = <<t, i>> /\ At(t, i, r)
<1>1. \A t \in Service : DOMAIN box[t] \subseteq Nat /\ 0 \notin DOMAIN box[t]
  BY DEF TypeOK
<1>2. \A x : x \in Places(r) <=>
        \/ \E t \in Service : \E i \in DOMAIN box[t] : x = <<t, i>> /\ Carries(box[t][i], r)
        \/ \E t \in Service : x = <<t, 0>> /\ callDst[t][r] # None
  BY DEF Places
<1>3. \A t \in Service : \A i \in Nat : At(t, i, r) <=>
        \/ i \in DOMAIN box[t] /\ Carries(box[t][i], r)
        \/ i = 0 /\ callDst[t][r] # None
  BY <1>1 DEF At
<1> QED
  BY <1>1, <1>2, <1>3

\* A call is in one place at a time on its way to the callee and back
\* (localRequest, localResponse), and nowhere once it was lost.
THEOREM SessionsAreSingle == Spec => []SessionIsSingle
<1>1. LuaInv => SessionIsSingle
  <2> SUFFICES ASSUME LuaInv, NEW r \in Session
               PROVE  /\ Cardinality(Places(r)) <= 1
                      /\ r \in dropped => Places(r) = {}
    BY DEF SessionIsSingle
  <2>1. TypeOK /\ CallOK(r)
    BY DEF LuaInv, CallInv
  <2>2. \A x, y \in Places(r) : x = y
    BY <2>1, PlacesAt DEF CallOK
  <2>3. r \in dropped => Places(r) = {}
    BY <2>1, PlacesAt DEF CallOK, Gone
  <2> QED
    BY <2>2, <2>3, AtMostOne
<1> QED
  BY <1>1, LuaInvariant, PTL

\* callCoMap names exactly the coroutines that wait: the ones that run, or are
\* in the pool, are resumed by no answer.
THEOREM WaitersAreExact == Spec => []WaiterIsExact
<1>1. LuaInv => WaiterIsExact
  <2> SUFFICES ASSUME LuaInv, NEW s \in Service, NEW c \in Coroutine
               PROVE  LET noted == {r \in Session \cup {0} : callCo[s][r] = c}
                                     \ (Answering(s) \ {0}) IN
                      IF coState[s][c] = "waiting" THEN Cardinality(noted) <= 1
                                                   ELSE noted = {}
    BY DEF WaiterIsExact
  <2> DEFINE noted == {r \in Session \cup {0} : callCo[s][r] = c} \ (Answering(s) \ {0})
  <2>1. \A r \in noted : r \in Session \cup {0} /\ Noted(s, r, c)
    BY DEF Noted, Answering, Answered
  <2>2. (\A x, y \in noted : x = y) /\ (coState[s][c] # "waiting" => noted = {})
    BY <2>1 DEF LuaInv, WaiterInv
  <2> QED
    BY <2>2, AtMostOne
<1> QED
  BY <1>1, LuaInvariant, PTL

\* Whoever waits for an answer can still get it, unless the request or the
\* answer was lost with a service that is not in the map.
THEOREM WaitersHaveTheirCalls == Spec => []WaiterHasItsCall
<1>1. LuaInv => WaiterHasItsCall
  <2> SUFFICES ASSUME LuaInv, NEW s \in Service, NEW r \in Session,
                      callCo[s][r] # None, r \notin Answering(s)
               PROVE  Places(r) # {} \/ r \in dropped
    BY DEF WaiterHasItsCall
  <2>1. TypeOK /\ CallOK(r) /\ ~Answered(s, r)
    BY DEF LuaInv, CallInv, Answering, Answered
  <2>2. r \in dropped \/ \E t \in Service : \E i \in Nat : At(t, i, r)
    BY <2>1 DEF CallOK
  <2> QED
    BY <2>1, <2>2, PlacesAt
<1> QED
  BY <1>1, LuaInvariant, PTL

\* An answer in a mailbox finds the coroutine that asked suspended there.
THEOREM AnswersFindCallers == Spec => []AnswerFindsItsCaller
<1>1. LuaInv => AnswerFindsItsCaller
  <2> SUFFICES ASSUME LuaInv, NEW s \in Service, NEW i \in 1..Len(box[s]),
                      box[s][i].kind = "response"
               PROVE  LET c == callCo[s][box[s][i].id] IN
                      c # None /\ coState[s][c] = "waiting"
    BY DEF AnswerFindsItsCaller
  <2>1. box[s] \in Seq(Message)
    BY DEF LuaInv, TypeOK
  <2>2. i \in DOMAIN box[s] /\ i \in Nat /\ i # 0 /\ box[s][i] \in Message /\ box[s] # <<>>
    BY <2>1
  <2>3. box[s][i].id \in Session
    BY <2>2, MessageFacts
  <2>4. At(s, i, box[s][i].id) /\ Caller(s, i, box[s][i].id) = s
    BY <2>2 DEF At, Caller, Carries
  <2>5. Waits(s, box[s][i].id)
    BY <2>2, <2>3, <2>4 DEF LuaInv, CallInv, CallOK
  <2>6. stage[s] = "live"
    BY <2>2 DEF LuaInv, ServiceInv
  <2> QED
    BY <2>5, <2>6 DEF Waits
<1> QED
  BY <1>1, LuaInvariant, PTL

\* No callback of a timer, repeating or not, starts after its stopSchedule, not
\* even for a message of the timer that was in the mailbox then.
THEOREM StoppedAreSilent == Spec => StoppedIsSilent
<1> DEFINE Silent == \A s \in Service : \A c \in Coroutine :
             after'[s][c].timer # after[s][c].timer => after'[s][c].timer \notin stopped
<1>1. ASSUME LuaInv, [Next]_vars PROVE Silent
  <2>0. /\ TypeOK /\ TimerInv /\ CoTypes /\ BoxTypes /\ 0 \notin stopped
        /\ Nothing \in Todo /\ Nothing.timer = 0
    <3>1. TypeOK /\ TimerInv /\ Nothing \in Todo /\ Nothing.timer = 0
      BY <1>1 DEF LuaInv, Nothing, Todo
    <3>2. 0 \notin Timer
      BY DEF Timer
    <3>3. CoTypes /\ BoxTypes /\ stopped \subseteq Timer
      BY <3>1, Types DEF TypeOK
    <3> QED
      BY <3>1, <3>2, <3>3
  <2>1. CASE UNCHANGED after
    BY <2>1
  <2>2. ASSUME NEW s \in Service, NEW c \in Coroutine, NEW todo \in Todo,
               todo.timer \notin stopped, after' = [after EXCEPT ![s][c] = todo]
        PROVE  Silent
    BY <2>0, <2>2 DEF TypeOK
  <2>3. ASSUME NEW s \in Service, NEW c \in Coroutine,
               Spawn(s, c) \/ OnEvent(s, c) \/ OnRequest(s, c)
        PROVE  Silent
    BY <2>0, <2>2, <2>3 DEF Spawn, OnEvent, OnRequest, CoCreate
  <2>4. ASSUME NEW s \in Service, NEW c \in Coroutine, OnResponse(s, c) PROVE Silent
    <3> DEFINE r == Head(box[s]).id
               todo == [session |-> r, timer |-> 0]
    <3>1. Head(box[s]) \in Message /\ Head(box[s]).kind = "response"
      BY <2>0, <2>4, TakeTyped DEF OnResponse
    <3>2. todo \in Todo /\ todo.timer = 0
      BY <3>1, MessageFacts DEF Todo
    <3>3. UNCHANGED after \/ after' = [after EXCEPT ![s][c] = todo]
      BY <2>4 DEF OnResponse, coVars
    <3> QED
      BY <2>0, <2>1, <2>2, <3>2, <3>3
  <2>5. ASSUME NEW s \in Service, NEW c \in Coroutine, OnTimer(s, c) PROVE Silent
    <3> DEFINE i == Head(box[s]).id
               todo == [session |-> 0, timer |-> i]
    <3>1. Head(box[s]) \in Message /\ Head(box[s]).kind = "timer"
      BY <2>0, <2>5, TakeTyped DEF OnTimer
    <3>2. todo \in Todo /\ todo.timer = i
      BY <3>1, MessageFacts DEF Todo
    <3>3. UNCHANGED after \/ (i \in timerFn[s] /\ after' = [after EXCEPT ![s][c] = todo])
      BY <2>5 DEF OnTimer, CoCreate, coVars
    <3>4. i \in timerFn[s] => i \notin stopped
      BY <2>0 DEF TimerInv
    <3> QED
      BY <2>0, <2>1, <2>2, <3>2, <3>3, <3>4
  <2>6. ASSUME NEW s \in Service, Finish(s) \/ Raise(s) PROVE Silent
    <3>1. Top(s) \in Coroutine /\ after' = [after EXCEPT ![s][Top(s)] = Nothing]
      BY <2>0, <2>6, PopTyped DEF Finish, Raise, InProgram, InCoroutine, Leave
    <3> QED
      BY <2>0, <2>2, <3>1
  <2>7. ASSUME NEW s \in Service, OnClose(s) PROVE Silent
    BY <2>0, <2>7 DEF OnClose, TypeOK
  <2> QED
    BY <1>1, <2>1, <2>3, <2>4, <2>5, <2>6, <2>7
    DEF Next, Step, Handle, vars, coVars, Deliver, AddService, InsertService,
        CloseService, EraseService, LocalRequest, LocalResponse, Arm, GetTimerId,
        StopSchedule, Invalidate, Fire
<1>2. LuaInv /\ [Next]_vars => [Silent]_vars
  BY <1>1
<1>3. StoppedIsSilent <=> [][Silent]_vars
  BY DEF StoppedIsSilent
<1> QED
  BY <1>2, <1>3, LuaInvariant, PTL DEF Spec
=============================================================================
