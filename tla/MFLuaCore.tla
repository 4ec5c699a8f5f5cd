------------------------------ MODULE MFLuaCore ------------------------------
(***************************************************************************)
(* What the Lua framework makes of the messages of a service: MFCore.lua   *)
(* and MFMsgHandlers.lua.  Every message is handled in a coroutine.  A     *)
(* handler may call another service (localRequest): the request carries a  *)
(* new session, the coroutine is noted under it and suspends; the callee   *)
(* notes the caller under the session and answers when it likes            *)
(* (localResponse), and the answer resumes the coroutine.  Timers of the   *)
(* main loop come back as messages too.                                    *)
(*                                                                         *)
(* Services are actors: their messages come one at a time in the order of  *)
(* the mailbox, as MFMailbox promises and MFScheduler implements.  Between *)
(* two calls of the manager a handler is one step, for nobody else sees    *)
(* the state of its virtual machine.                                       *)
(***************************************************************************)
EXTENDS Naturals, Sequences, FiniteSets

CONSTANTS
  Service,
  Coroutine,    \* bound: the coroutines of one virtual machine
  MaxSession,   \* bound: requests
  MaxTimer,     \* bound: timers
  MaxEvent,     \* bound: messages from outside, coroutines that the program
                \* starts, closings, and repetitions of timers
  None

ASSUME LuaAssumption ==
  /\ MaxSession \in Nat /\ MaxTimer \in Nat /\ MaxEvent \in Nat
  /\ None \notin Service \cup Coroutine

Session == 1..MaxSession
Timer == 1..MaxTimer

\* The kinds of messages that behave differently.  0 stands for "none".
Message ==
  [kind : {"event", "close"}, id : {0}, src : {None}]
    \cup [kind : {"request"}, id : Session, src : Service]
    \cup [kind : {"response"}, id : Session, src : {None}]
    \cup [kind : {"timer"}, id : Timer \cup {0}, src : {None}]

VARIABLES
  stage,     \* the service: "none", "init" while main runs, "live", "gone"
  inMap,     \* m_serviceMap
  closing,   \* the service that the running coroutine closes and has yet to
             \* take out of the map
  box,       \* its messages
  coState,   \* its coroutines: "idle" (pooled or not made yet), "running"
             \* (or resuming another), "waiting" for an answer
  stack,     \* the coroutines that resumed each other, the running one last
  after,     \* what the handler of a coroutine is about: the session of
             \* callCoMap that it will forget, the timer whose callback runs
  callCo,    \* callCoMap: the coroutine that waits for the session
  callDst,   \* callDstMap: the service to answer for the session
  timerFn,   \* scheduleFnMap: the timers with a callback
  arming,    \* the timer whose number scheduleOnce or schedule has yet to get
  armed,     \* timers of the main loop
  owner,     \* the service of a timer
  repeats,   \* the timers made by schedule
  sessions,  \* m_sessionId
  timers,    \* timers so far
  events,    \* the count that MaxEvent bounds
  stopped,   \* the timers that stopSchedule was called for
  dropped    \* history: sessions whose request or answer got lost

mapVars == <<inMap, closing>>
coVars == <<coState, stack, after>>
callVars == <<callCo, callDst>>
timerVars == <<timerFn, arming, armed, owner, repeats, timers, stopped>>
vars == <<stage, mapVars, box, coVars, callVars, timerVars, sessions, events,
          dropped>>

Nothing == [session |-> 0, timer |-> 0]

Init ==
  /\ stage = [s \in Service |-> "none"]
  /\ inMap = {}
  /\ closing = [s \in Service |-> None]
  /\ box = [s \in Service |-> <<>>]
  /\ coState = [s \in Service |-> [c \in Coroutine |-> "idle"]]
  /\ stack = [s \in Service |-> <<>>]
  /\ after = [s \in Service |-> [c \in Coroutine |-> Nothing]]
  /\ callCo = [s \in Service |-> [r \in Session \cup {0} |-> None]]
  /\ callDst = [s \in Service |-> [r \in Session |-> None]]
  /\ timerFn = [s \in Service |-> {}]
  /\ arming = [s \in Service |-> 0]
  /\ armed = {}
  /\ owner = [i \in Timer |-> None]
  /\ repeats = {}
  /\ sessions = 0
  /\ timers = 0
  /\ events = 0
  /\ stopped = {}
  /\ dropped = {}

-----------------------------------------------------------------------------
(***************************************************************************)
(* Coroutines.                                                             *)
(***************************************************************************)
Top(s) == stack[s][Len(stack[s])]

\* The running coroutine gives way to the one that resumed it.
Pop(s) == stack' = [stack EXCEPT ![s] = SubSeq(@, 1, Len(@) - 1)]

\* The virtual machine of s is not inside a call of the manager or of the loop.
InLua(s) == arming[s] = 0 /\ closing[s] = None

\* A coroutine of s runs.  The handler of an answer, once what it resumed gives
\* way, only forgets the session; any other runs the program.
InCoroutine(s) == stack[s] # <<>> /\ InLua(s)
InProgram(s) == InCoroutine(s) /\ after[s][Top(s)].session = 0

\* The program runs, in a coroutine or in main, and may call the framework.
MayCall(s) == InProgram(s) \/ (stage[s] = "init" /\ stack[s] = <<>> /\ InLua(s))

\* coCreate: an idle coroutine runs on top of the others.
CoCreate(s, c, todo) ==
  /\ coState[s][c] = "idle"
  /\ coState' = [coState EXCEPT ![s][c] = "running"]
  /\ stack' = [stack EXCEPT ![s] = Append(@, c)]
  /\ after' = [after EXCEPT ![s][c] = todo]

\* The program starts a coroutine itself.
Spawn(s, c) ==
  /\ MayCall(s)
  /\ events < MaxEvent
  /\ events' = events + 1
  /\ CoCreate(s, c, Nothing)
  /\ UNCHANGED <<stage, mapVars, box, callVars, timerVars, sessions, dropped>>

\* The running coroutine leaves its handler and is free again.
Leave(s) ==
  /\ coState' = [coState EXCEPT ![s][Top(s)] = "idle"]
  /\ after' = [after EXCEPT ![s][Top(s)] = Nothing]
  /\ Pop(s)

\* Mutant: the handler of an answer keeps the session.
FinishKeepsSession(s) ==
  /\ InCoroutine(s)
  /\ timerFn' = [timerFn EXCEPT ![s] = @ \ ({after[s][Top(s)].timer} \ repeats)]
  /\ Leave(s)
  /\ UNCHANGED <<stage, mapVars, box, callVars, arming, armed, owner, repeats,
                 timers, stopped, sessions, events, dropped>>

\* The handler returns; the one of a timer that does not repeat forgets it.
Finish(s) ==
  LET todo == after[s][Top(s)] IN
  /\ InCoroutine(s)
  /\ callCo' = [callCo EXCEPT ![s] =
       [r \in DOMAIN @ |-> IF r = todo.session /\ r # 0 THEN None ELSE @[r]]]
  /\ timerFn' = [timerFn EXCEPT ![s] = @ \ ({todo.timer} \ repeats)]
  /\ Leave(s)
  /\ UNCHANGED <<stage, mapVars, box, callDst, arming, armed, owner, repeats,
                 timers, stopped, sessions, events, dropped>>

\* It raises: coResume logs the traceback, the coroutine is dead and a new one
\* will take its place.
Raise(s) ==
  /\ InProgram(s)
  /\ Leave(s)
  /\ UNCHANGED <<stage, mapVars, box, callVars, timerVars, sessions, events,
                 dropped>>

-----------------------------------------------------------------------------
(***************************************************************************)
(* Services and their messages.                                            *)
(***************************************************************************)
Post(s, m) == box' = [box EXCEPT ![s] = Append(@, m)]

Msg(kind, id, src) == [kind |-> kind, id |-> id, src |-> src]

\* Whom a message reaches.  A service that was destroyed before it was taken out
\* of the map is still found there, and what is pushed to it is lost.
Reaches(s) == s \in inMap /\ stage[s] # "gone"

\* A socket event, a send of another service: anything that only starts a
\* handler.
Deliver(s) ==
  /\ Reaches(s)
  /\ events < MaxEvent
  /\ events' = events + 1
  /\ Post(s, Msg("event", 0, None))
  /\ UNCHANGED <<stage, mapVars, coVars, callVars, timerVars, sessions, dropped>>

\* addService: main runs before the service is in the map.
AddService(s) ==
  /\ stage[s] = "none"
  /\ stage' = [stage EXCEPT ![s] = "init"]
  /\ UNCHANGED <<mapVars, box, coVars, callVars, timerVars, sessions, events,
                 dropped>>

InsertService(s) ==
  /\ stage[s] = "init"
  /\ stack[s] = <<>> /\ InLua(s)
  /\ stage' = [stage EXCEPT ![s] = "live"]
  /\ inMap' = inMap \cup {s}
  /\ UNCHANGED <<closing, box, coVars, callVars, timerVars, sessions, events,
                 dropped>>

\* closeService, called in t, of t itself (killSelf) or of another service: the
\* close message goes first, so the service may end before the map loses it, and
\* until then others find it.
CloseService(t, s) ==
  /\ MayCall(t)
  /\ s \in inMap
  /\ events < MaxEvent
  /\ events' = events + 1
  /\ IF Reaches(s) THEN Post(s, Msg("close", 0, None)) ELSE UNCHANGED box
  /\ closing' = [closing EXCEPT ![t] = s]
  /\ UNCHANGED <<stage, inMap, coVars, callVars, timerVars, sessions, dropped>>

EraseService(t) ==
  /\ closing[t] # None
  /\ inMap' = inMap \ {closing[t]}
  /\ closing' = [closing EXCEPT ![t] = None]
  /\ UNCHANGED <<stage, box, coVars, callVars, timerVars, sessions, events, dropped>>

\* singleMessage: an idle service takes its next message, of the kind.
Take(s, kind) ==
  /\ stage[s] = "live"
  /\ stack[s] = <<>>
  /\ box[s] # <<>>
  /\ Head(box[s]).kind = kind
  /\ box' = [box EXCEPT ![s] = Tail(@)]

OnEvent(s, c) ==
  /\ Take(s, "event")
  /\ CoCreate(s, c, Nothing)
  /\ UNCHANGED <<stage, mapVars, callVars, timerVars, sessions, events, dropped>>

\* Mutant: the callee notes itself.
OnRequestSelf(s, c) ==
  LET m == Head(box[s]) IN
  /\ Take(s, "request")
  /\ callDst' = [callDst EXCEPT ![s][m.id] = s]
  /\ CoCreate(s, c, Nothing)
  /\ UNCHANGED <<stage, mapVars, callCo, timerVars, sessions, events, dropped>>

OnRequest(s, c) ==
  LET m == Head(box[s]) IN
  /\ Take(s, "request")
  /\ callDst' = [callDst EXCEPT ![s][m.id] = m.src]
  /\ CoCreate(s, c, Nothing)
  /\ UNCHANGED <<stage, mapVars, callCo, timerVars, sessions, events, dropped>>

\* The coroutine of the handler resumes the one that waits, which runs before
\* the handler forgets the session.
OnResponse(s, c) ==
  LET r == Head(box[s]).id
      w == callCo[s][r] IN
  /\ Take(s, "response")
  /\ coState[s][c] = "idle"
  /\ IF w = None
       THEN UNCHANGED coVars
       ELSE /\ coState' = [coState EXCEPT ![s][c] = "running", ![s][w] = "running"]
            /\ stack' = [stack EXCEPT ![s] = <<c, w>>]
            /\ after' = [after EXCEPT ![s][c] = [session |-> r, timer |-> 0]]
  /\ UNCHANGED <<stage, mapVars, callVars, timerVars, sessions, events, dropped>>

\* Mutant: the callback of a timer is kept elsewhere, not looked up here.
OnTimerBlind(s, c) ==
  LET i == Head(box[s]).id IN
  /\ Take(s, "timer")
  /\ CoCreate(s, c, [session |-> 0, timer |-> i])
  /\ UNCHANGED <<stage, mapVars, callVars, timerVars, sessions, events, dropped>>

\* The message of a timer runs its callback, if there still is one.
OnTimer(s, c) ==
  LET i == Head(box[s]).id IN
  /\ Take(s, "timer")
  /\ IF i \in timerFn[s]
       THEN CoCreate(s, c, [session |-> 0, timer |-> i])
       ELSE UNCHANGED coVars
  /\ UNCHANGED <<stage, mapVars, callVars, timerVars, sessions, events, dropped>>

\* The sessions of the requests and answers among messages.
SessionsOf(q) ==
  {q[i].id : i \in {j \in 1..Len(q) : q[j].kind \in {"request", "response"}}}

\* The close message: the virtual machine goes, with all it had noted.
OnClose(s) ==
  /\ Take(s, "close")
  /\ stage' = [stage EXCEPT ![s] = "gone"]
  /\ dropped' = dropped \cup SessionsOf(box[s])
                  \cup {r \in Session : callDst[s][r] # None}
  /\ box' = [box EXCEPT ![s] = <<>>]
  /\ coState' = [coState EXCEPT ![s] = [c \in Coroutine |-> "idle"]]
  /\ after' = [after EXCEPT ![s] = [c \in Coroutine |-> Nothing]]
  /\ callCo' = [callCo EXCEPT ![s] = [r \in Session \cup {0} |-> None]]
  /\ callDst' = [callDst EXCEPT ![s] = [r \in Session |-> None]]
  /\ timerFn' = [timerFn EXCEPT ![s] = {}]
  /\ UNCHANGED <<mapVars, stack, arming, armed, owner, repeats, timers, stopped,
                 sessions, events>>

-----------------------------------------------------------------------------
(***************************************************************************)
(* Calls between services.                                                 *)
(***************************************************************************)
\* localRequest: send finds the callee and makes a session, or returns 0; the
\* coroutine suspends either way.
LocalRequest(s, d) ==
  LET r == IF d \in inMap THEN sessions + 1 ELSE 0 IN
  /\ InProgram(s)
  /\ sessions < MaxSession
  /\ callCo' = [callCo EXCEPT ![s][r] = Top(s)]
  /\ coState' = [coState EXCEPT ![s][Top(s)] = "waiting"]
  /\ Pop(s)
  /\ sessions' = IF r # 0 THEN r ELSE sessions
  /\ IF Reaches(d)
       THEN Post(d, Msg("request", r, s)) /\ UNCHANGED dropped
       ELSE dropped' = dropped \cup ({r} \ {0}) /\ UNCHANGED box
  /\ UNCHANGED <<stage, mapVars, after, callDst, timerVars, events>>

\* Mutant: the request can be answered again.
LocalResponseAgain(s, r) ==
  LET d == callDst[s][r] IN
  /\ MayCall(s)
  /\ d # None
  /\ Len(box[s]) < 3
  /\ IF Reaches(d)
       THEN Post(d, Msg("response", r, None)) /\ UNCHANGED dropped
       ELSE dropped' = dropped \cup {r} /\ UNCHANGED box
  /\ UNCHANGED <<stage, mapVars, coVars, callVars, timerVars, sessions, events>>

\* localResponse: the answer goes to the caller if it is still there.
LocalResponse(s, r) ==
  LET d == callDst[s][r] IN
  /\ MayCall(s)
  /\ d # None
  /\ callDst' = [callDst EXCEPT ![s][r] = None]
  /\ IF Reaches(d)
       THEN Post(d, Msg("response", r, None)) /\ UNCHANGED dropped
       ELSE dropped' = dropped \cup {r} /\ UNCHANGED box
  /\ UNCHANGED <<stage, mapVars, coVars, callCo, timerVars, sessions, events>>

-----------------------------------------------------------------------------
(***************************************************************************)
(* Timers.                                                                 *)
(***************************************************************************)
\* scheduleOnce and schedule: the loop has the timer before the number is known.
Arm(s, again) ==
  LET i == timers + 1 IN
  /\ MayCall(s)
  /\ timers < MaxTimer
  /\ timers' = i
  /\ armed' = armed \cup {i}
  /\ owner' = [owner EXCEPT ![i] = s]
  /\ repeats' = IF again THEN repeats \cup {i} ELSE repeats
  /\ arming' = [arming EXCEPT ![s] = i]
  /\ UNCHANGED <<stage, mapVars, box, coVars, callVars, timerFn, stopped,
                 sessions, events, dropped>>

\* runAfter returns the number, under which the callback is kept.
GetTimerId(s) ==
  /\ arming[s] # 0
  /\ timerFn' = [timerFn EXCEPT ![s] = @ \cup {arming[s]}]
  /\ arming' = [arming EXCEPT ![s] = 0]
  /\ UNCHANGED <<stage, mapVars, box, coVars, callVars, armed, owner, repeats,
                 timers, stopped, sessions, events, dropped>>

\* stopSchedule; the loop hears of it later.
StopSchedule(s, i) ==
  /\ MayCall(s)
  /\ owner[i] = s /\ i \notin stopped
  /\ stopped' = stopped \cup {i}
  /\ timerFn' = [timerFn EXCEPT ![s] = @ \ {i}]
  /\ UNCHANGED <<stage, mapVars, box, coVars, callVars, arming, armed, owner,
                 repeats, timers, sessions, events, dropped>>

Invalidate(i) ==
  /\ i \in stopped \cap armed
  /\ armed' = armed \ {i}
  /\ UNCHANGED <<stage, mapVars, box, coVars, callVars, timerFn, arming, owner,
                 repeats, timers, stopped, sessions, events, dropped>>

\* The callback of the loop.  The number it reads is written by the thread that
\* armed the timer: before that, it may read 0.
Fire(i) ==
  LET s == owner[i] IN
  /\ i \in armed
  /\ IF i \in repeats
       THEN events < MaxEvent /\ events' = events + 1 /\ UNCHANGED armed
       ELSE armed' = armed \ {i} /\ UNCHANGED events
  /\ IF Reaches(s)
       THEN \E id \in {i} \cup (IF arming[s] = i THEN {0} ELSE {}) :
              Post(s, Msg("timer", id, None))
       ELSE UNCHANGED box
  /\ UNCHANGED <<stage, mapVars, coVars, callVars, timerFn, arming, owner,
                 repeats, timers, stopped, sessions, dropped>>

-----------------------------------------------------------------------------
Handle(s, c) ==
  \/ Spawn(s, c) \/ OnEvent(s, c) \/ OnRequest(s, c) \/ OnResponse(s, c)
  \/ OnTimer(s, c)

Step(s) ==
  \/ \E c \in Coroutine : Handle(s, c)
  \/ Finish(s) \/ Raise(s)
  \/ Deliver(s) \/ AddService(s) \/ InsertService(s)
  \/ EraseService(s) \/ OnClose(s)
  \/ \E d \in Service : CloseService(s, d) \/ LocalRequest(s, d)
  \/ \E r \in Session : LocalResponse(s, r)
  \/ \E again \in BOOLEAN : Arm(s, again)
  \/ GetTimerId(s)
  \/ \E i \in Timer : StopSchedule(s, i)

Next ==
  \/ \E s \in Service : Step(s)
  \/ \E i \in Timer : Invalidate(i) \/ Fire(i)

Spec == Init /\ [][Next]_vars

-----------------------------------------------------------------------------
(***************************************************************************)
(* Correctness.                                                            *)
(***************************************************************************)
\* Every variable keeps its shape.
TypeOK ==
  /\ stage \in [Service -> {"none", "init", "live", "gone"}]
  /\ inMap \subseteq Service
  /\ closing \in [Service -> Service \cup {None}]
  /\ box \in [Service -> Seq(Message)]
  /\ coState \in [Service -> [Coroutine -> {"idle", "running", "waiting"}]]
  /\ stack \in [Service -> Seq(Coroutine)]
  /\ after \in [Service -> [Coroutine ->
                  [session : Session \cup {0}, timer : Timer \cup {0}]]]
  /\ callCo \in [Service -> [Session \cup {0} -> Coroutine \cup {None}]]
  /\ callDst \in [Service -> [Session -> Service \cup {None}]]
  /\ timerFn \in [Service -> SUBSET Timer]
  /\ arming \in [Service -> Timer \cup {0}]
  /\ armed \subseteq Timer /\ repeats \subseteq Timer /\ stopped \subseteq Timer
  /\ owner \in [Timer -> Service \cup {None}]
  /\ sessions \in 0..MaxSession /\ timers \in 0..MaxTimer /\ events \in 0..MaxEvent
  /\ dropped \subseteq Session

\* The message asks or answers for the session.
Carries(m, r) == m.kind \in {"request", "response"} /\ m.id = r

\* Where a session is: with the messages of a service, or noted by the callee.
Places(r) ==
  (UNION {{<<s, i>> : i \in {j \in DOMAIN box[s] : Carries(box[s][j], r)}} : s \in Service})
  \cup {<<s, 0>> : s \in {t \in Service : callDst[t][r] # None}}

\* The session is being answered: the waiting coroutine was resumed and the
\* handler that did it is still on the stack.
Answering(s) == {after[s][c].session : c \in Coroutine}

\* A call is in one place at a time on its way to the callee and back, and
\* nowhere once it was lost, so that nobody can be resumed twice for it.
SessionIsSingle ==
  \A r \in Session :
    /\ Cardinality(Places(r)) <= 1
    /\ r \in dropped => Places(r) = {}

\* callCoMap names exactly the suspended coroutines: a coroutine that went back
\* to the pool, or took another message, is never resumed with an old answer.
\* Session 0, of requests to nobody, is shared and keeps the last of them.
WaiterIsExact ==
  \A s \in Service, c \in Coroutine :
    LET noted == {r \in Session \cup {0} : callCo[s][r] = c} \ (Answering(s) \ {0}) IN
    IF coState[s][c] = "waiting" THEN Cardinality(noted) <= 1 ELSE noted = {}

\* Whoever waits for an answer can still get it: the call is on its way, or its
\* request or answer was lost with a service that is not, or not yet, there.
WaiterHasItsCall ==
  \A s \in Service, r \in Session :
    callCo[s][r] # None /\ r \notin Answering(s) =>
      Places(r) # {} \/ r \in dropped

\* An answer in a mailbox finds the coroutine that asked suspended there.
AnswerFindsItsCaller ==
  \A s \in Service : \A i \in 1..Len(box[s]) :
    box[s][i].kind = "response" =>
      LET c == callCo[s][box[s][i].id] IN c # None /\ coState[s][c] = "waiting"

\* A stopped timer is silent, whether it repeats or not: no callback starts
\* after its stopSchedule, which so takes effect also for the messages of the
\* timer that the service has not handled yet.
StoppedIsSilent ==
  [][\A s \in Service : \A c \in Coroutine :
       after'[s][c].timer # after[s][c].timer => after'[s][c].timer \notin stopped]_vars
=============================================================================
