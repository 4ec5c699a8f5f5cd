------------------------- MODULE MFSqlSession_proofs -------------------------
(***************************************************************************)
(* Proofs about MFSqlSession, for every number of services, databases and  *)
(* calls and every length of a transaction.                                *)
(***************************************************************************)
EXTENDS MFSqlSession, FiniteSetTheorems, TLAPS

\* Session numbers are given in order.
AskedInv == \E n \in 0..MaxCall : {c \in Call : req[c] # None} = 1..n

\* A service in a call has not been told of it, and before the call is submitted
\* nothing has happened.
CallerInv ==
  \A s \in Service :
    /\ cur[s] # None => told[cur[s]] = "none"
    /\ pc[s] \in {"find", "create", "submit"} => job[cur[s]].phase = "none"
    /\ ~run[s].on => run[s] = Off

\* Nothing takes effect, and nobody is told, before the database has reported.
JobInv ==
  \A c \in Call :
    /\ job[c].phase \notin {"limbo", "over"} => told[c] = "none"
    /\ job[c].phase # "over" => effect[c] = 0
    /\ job[c].phase \notin {"none", "over"} => req[c].size > 0
    /\ job[c].phase = "single" => req[c].size = 1

\* Answer m in the queue of service s: its call is of s, over, and not told of;
\* if the answer is of success all is done.
Settled(s, m) ==
  /\ req[m.call] # None /\ req[m.call].src = s
  /\ job[m.call].phase \in {"limbo", "over"} /\ told[m.call] = "none"
  /\ m.ok => effect[m.call] = req[m.call].size /\ req[m.call].size > 0

\* Every answer is settled and the only one to its call.
MailInv ==
  \A s \in Service : \A i \in DOMAIN mail[s] :
    /\ Settled(s, mail[s][i])
    /\ \A j \in DOMAIN mail[s] : mail[s][j].call = mail[s][i].call => j = i

\* What is left to do after a coroutine concerns calls that were told of.
LeftInv ==
  /\ \A s \in Service : \A c \in Call :
       c = run[s].fnEnd \/ c = run[s].coStop => told[c] # "none"
  /\ \A c \in Call : co[c] # None =>
       /\ req[c] # None
       /\ co[c].fnEnd # None => told[co[c].fnEnd] # "none"

\* A call that was submitted and not yet told of has its waiter, once the
\* service has noted it; a waiter that was told is about to be erased.
WaiterInv ==
  \A c \in Call :
    /\ job[c].phase # "none" /\ told[c] = "none" /\ cur[req[c].src] # c =>
         /\ req[c].form = "co" => co[c] # None
         /\ req[c].form = "fn" => c \in fn
    /\ co[c] # None /\ told[c] # "none" => run[req[c].src].coStop = c

SqlInv ==
  /\ TypeOK /\ OnePool /\ AskedInv /\ CallerInv /\ JobInv /\ MailInv /\ LeftInv
  /\ WaiterInv

-----------------------------------------------------------------------------
LEMMA RequestTyped ==
  ASSUME NEW r \in Request
  PROVE  /\ r.src \in Service /\ r.db \in Db /\ r.tx \in BOOLEAN
         /\ r.form \in {"co", "fn", "none"} /\ r.size \in 0..MaxStatement
         /\ ~r.tx => r.size = 1
         /\ r # None
<1>1. r # None
  BY SqlAssumption
<1>2. 1 \in 0..MaxStatement
  BY SqlAssumption
<1>3. CASE r \in [src : Service, db : Db, tx : {FALSE},
                  form : {"co", "fn", "none"}, size : {1}]
  BY <1>1, <1>2, <1>3
<1>4. CASE r \in [src : Service, db : Db, tx : {TRUE},
                  form : {"co"}, size : 0..MaxStatement]
  BY <1>1, <1>4
<1> QED
  BY <1>3, <1>4 DEF Request

LEMMA AppendFacts ==
  ASSUME NEW S, NEW q \in Seq(S), NEW e \in S
  PROVE  /\ Append(q, e) \in Seq(S)
         /\ Len(q) \in Nat /\ DOMAIN q = 1..Len(q)
         /\ DOMAIN Append(q, e) = 1..(Len(q) + 1)
         /\ \A i \in DOMAIN q : Append(q, e)[i] = q[i]
         /\ Append(q, e)[Len(q) + 1] = e
  OBVIOUS

LEMMA TailFacts ==
  ASSUME NEW S, NEW q \in Seq(S), q # <<>>
  PROVE  /\ Tail(q) \in Seq(S) /\ Head(q) \in S
         /\ 1 \in DOMAIN q /\ Head(q) = q[1]
         /\ DOMAIN Tail(q) \subseteq Nat
         /\ \A i \in DOMAIN Tail(q) : i + 1 \in DOMAIN q /\ Tail(q)[i] = q[i + 1]
  OBVIOUS

-----------------------------------------------------------------------------
\* The call that Ask makes is a new one, and the numbers stay in order.
LEMMA NextCall ==
  ASSUME AskedInv, NEW c, c = Cardinality({d \in Call : req[d] # None}) + 1, c \in Call
  PROVE  /\ req[c] = None
         /\ \E n \in 0..MaxCall : {d \in Call : req[d] # None} \cup {c} = 1..n
<1> PICK n \in 0..MaxCall : {d \in Call : req[d] # None} = 1..n
  BY DEF AskedInv
<1>1. n \in Nat /\ MaxCall \in Nat
  BY SqlAssumption
<1>2. Cardinality(1..n) = n
  BY <1>1, FS_Interval
<1>3. c = n + 1 /\ c \in 1..MaxCall
  BY <1>2 DEF Call
<1>4. (1..n) \cup {n + 1} = 1..(n + 1)
  BY <1>1
<1> QED
  BY <1>1, <1>3, <1>4

-----------------------------------------------------------------------------
LEMMA LuaFrame == LuaTypes /\ UNCHANGED <<req, luaVars>> => LuaTypes'
  BY DEF LuaTypes, luaVars

LEMMA DbFrame == DbTypes /\ UNCHANGED <<req, dbVars>> => DbTypes'
  BY DEF DbTypes, dbVars

\* The types are preserved by what a service does; AskedInv says that Ask makes
\* a new call.
LEMMA ServiceTyped ==
  ASSUME TypeOK, AskedInv, NEW s \in Service
  PROVE  /\ Begin(s) \/ (\E r \in Request : Ask(s, r)) => TypeOK'
         /\ Work(s) => TypeOK'
         /\ Handle(s) => TypeOK'
<1> USE DEF poolVars, dbVars
<1>0. /\ None \notin Call /\ None \notin Request /\ None \notin Waiter
      /\ Configured \subseteq Db /\ LuaTypes /\ DbTypes
      /\ req \in [Call -> Request \cup {None}]
      /\ mail \in [Service -> Seq(Answers)]
  BY SqlAssumption DEF TypeOK
<1>1. ASSUME Begin(s) PROVE TypeOK'
  <2>1. UNCHANGED <<req, pc, cur, co, fn, poolVars, dbVars, mail, told, up>>
        /\ run' = [run EXCEPT ![s] = [Off EXCEPT !.on = TRUE]] /\ ~run[s].on
    BY <1>1 DEF Begin
  <2> DEFINE R == [on : BOOLEAN, fnEnd : Call \cup {None}, coStop : Call \cup {None}]
             started == [Off EXCEPT !.on = TRUE]
  <2>3. run \in [Service -> R]
    BY <1>0 DEF LuaTypes
  <2>4. started \in R /\ started.on
    BY DEF Off
  <2>5. run' = [run EXCEPT ![s] = started]
    BY <2>1
  <2> HIDE DEF R, started
  <2>6. run' \in [Service -> R]
    BY <2>3, <2>4, <2>5
  <2>7. \A t \in Service : run[t].on => run'[t].on
    BY <2>3, <2>4, <2>5
  <2>2. LuaTypes'
    BY <1>0, <2>1, <2>6, <2>7 DEF LuaTypes, R
  <2> QED
    BY <1>0, <2>1, <2>2, DbFrame DEF TypeOK
<1>2. ASSUME NEW r \in Request, Ask(s, r) PROVE TypeOK'
  <2> DEFINE c == Cardinality({d \in Call : req[d] # None}) + 1
  <2> HIDE DEF c
  <2>1. /\ c \in Call
        /\ req' = [req EXCEPT ![c] = r]
        /\ cur' = [cur EXCEPT ![s] = c]
        /\ run[s].on /\ pc[s] = "lua" /\ r.src = s
        /\ pc' = [pc EXCEPT ![s] = "find"]
        /\ UNCHANGED <<run, co, fn, poolVars, dbVars, mail, told, up>>
    BY <1>2 DEF Ask, c
  <2>2. req[c] = None
    BY <2>1, NextCall DEF c
  <2>3. r # None
    BY <1>0
  <2>4. DbTypes'
    BY <1>0, <2>1, <2>2, <2>3 DEF DbTypes
  <2>5. LuaTypes'
    BY <1>0, <2>1, <2>2, <2>3 DEF LuaTypes
  <2>6. req' \in [Call -> Request \cup {None}]
    BY <1>0, <2>1
  <2> QED
    BY <2>1, <2>4, <2>5, <2>6 DEF TypeOK
<1>3. ASSUME Find(s) PROVE TypeOK'
  <2>1. UNCHANGED <<req, cur, run, co, fn, poolVars, dbVars, mail, told, up>>
    BY <1>3 DEF Find
  <2>2. LuaTypes'
    BY <1>0, <1>3, <2>1 DEF LuaTypes, Find
  <2> QED
    BY <1>0, <2>1, <2>2, DbFrame DEF TypeOK
<1>4. ASSUME Create(s) PROVE TypeOK'
  <2>1. UNCHANGED <<req, cur, run, co, fn, dbVars, mail, told, up>>
    BY <1>4 DEF Create
  <2>2. req[cur[s]].db \in Db
    <3>1. cur[s] \in Call /\ req[cur[s]] \in Request
      BY <1>0, <1>4 DEF Create, LuaTypes
    <3> QED
      BY <3>1, RequestTyped
  <2>3. pools' \subseteq Configured /\ made' \in [Db -> Nat]
    BY <1>0, <1>4, <2>2 DEF Create, Add, TypeOK
  <2>4. LuaTypes'
    <3>1. \E where \in {"submit", "note"} : pc' = [pc EXCEPT ![s] = where]
      BY <1>4 DEF Create
    <3>2. pc[s] = "create"
      BY <1>4 DEF Create
    <3> QED
      BY <1>0, <2>1, <3>1, <3>2 DEF LuaTypes
  <2> QED
    BY <1>0, <2>1, <2>3, <2>4, DbFrame DEF TypeOK
<1>5. ASSUME Submit(s) PROVE TypeOK'
  <2> DEFINE c == cur[s]
  <2>1. UNCHANGED <<req, cur, run, co, fn, poolVars, effect, told, up>>
    BY <1>5 DEF Submit
  <2>2. c \in Call /\ req[c] \in Request /\ req[c].src \in Service
    BY <1>0, <1>5, RequestTyped DEF Submit, LuaTypes
  <2>3. \E ph \in {"over", "begin", "single"} :
          job' = [job EXCEPT ![c] = [phase |-> ph, at |-> 0]]
    BY <1>5 DEF Submit, Goto
  <2>4. mail' \in [Service -> Seq(Answers)]
    <3>1. [call |-> c, ok |-> FALSE] \in Answers
      BY <2>2 DEF Answers
    <3>2. Append(mail[req[c].src], [call |-> c, ok |-> FALSE]) \in Seq(Answers)
      BY <1>0, <2>2, <3>1, AppendFacts
    <3>3. mail' = mail \/ mail' = [mail EXCEPT ![req[c].src] =
                                      Append(@, [call |-> c, ok |-> FALSE])]
      BY <1>5 DEF Submit, Answer
    <3> QED
      BY <1>0, <2>2, <3>2, <3>3
  <2>5. DbTypes'
    BY <1>0, <2>1, <2>2, <2>3, SqlAssumption DEF DbTypes
  <2>6. LuaTypes'
    BY <1>0, <1>5, <2>1 DEF LuaTypes, Submit
  <2> QED
    BY <1>0, <2>1, <2>4, <2>5, <2>6 DEF TypeOK
<1>6. ASSUME NoteFn(s) PROVE TypeOK'
  <2>1. UNCHANGED <<req, run, co, poolVars, dbVars, mail, told, up>>
    BY <1>6 DEF NoteFn
  <2>2. LuaTypes'
    BY <1>0, <1>6, <2>1 DEF LuaTypes, NoteFn, Return
  <2> QED
    BY <1>0, <2>1, <2>2, DbFrame DEF TypeOK
<1>7. ASSUME Suspend(s) PROVE TypeOK'
  <2>1. UNCHANGED <<req, fn, poolVars, dbVars, mail, told, up>>
    BY <1>7 DEF Suspend
  <2>2. Waiting(s) \in Waiter
    BY <1>0 DEF Waiting, Waiter, LuaTypes
  <2>3. co' \in [Call -> Waiter \cup {None}]
    BY <1>0, <1>7, <2>2 DEF Suspend, LuaTypes
  <2>4. LuaTypes'
    BY <1>0, <1>7, <2>1, <2>3 DEF LuaTypes, Suspend, Return, Off
  <2> QED
    BY <1>0, <2>1, <2>4, DbFrame DEF TypeOK
<1>8. ASSUME NEW raises \in BOOLEAN, Stop(s, raises) PROVE TypeOK'
  <2>1. UNCHANGED <<req, pc, cur, poolVars, dbVars, mail, told, up>>
    BY <1>8 DEF Stop
  <2>2. LuaTypes'
    BY <1>0, <1>8, <2>1 DEF LuaTypes, Stop, Off
  <2> QED
    BY <1>0, <2>1, <2>2, DbFrame DEF TypeOK
<1>9. ASSUME Handle(s) PROVE TypeOK'
  <2> DEFINE m == Head(mail[s])
             c == m.call
  <2>1. UNCHANGED <<req, pc, cur, co, fn, poolVars, dbVars, up>> /\ ~run[s].on
    BY <1>9 DEF Handle
  <2>2. m \in Answers /\ Tail(mail[s]) \in Seq(Answers) /\ c \in Call
    <3>1. mail[s] \in Seq(Answers) /\ mail[s] # <<>>
      BY <1>0, <1>9 DEF Handle
    <3>2. m \in Answers /\ Tail(mail[s]) \in Seq(Answers)
      BY <3>1, TailFacts
    <3> QED
      BY <3>2 DEF Answers
  <2>3. co[c] # None => co[c].fnEnd \in Call \cup {None}
    BY <1>0, <2>2 DEF Waiter, LuaTypes
  <2>4. run' \in [Service -> [on : BOOLEAN, fnEnd : Call \cup {None},
                              coStop : Call \cup {None}]]
    BY <1>0, <1>9, <2>2, <2>3 DEF Handle, Off, LuaTypes
  <2>5. \A t \in Service : cur[t] # None => run'[t] = run[t]
    BY <1>0, <1>9, <2>1 DEF Handle, LuaTypes
  <2>6. LuaTypes'
    BY <1>0, <2>1, <2>4, <2>5 DEF LuaTypes
  <2>7. told' \in [Call -> {"none", "ok", "failed", "again"}]
    BY <1>9, <2>2 DEF Handle, TypeOK
  <2>8. mail' \in [Service -> Seq(Answers)]
    BY <1>0, <1>9, <2>2 DEF Handle
  <2> QED
    BY <1>0, <2>1, <2>6, <2>7, <2>8, DbFrame DEF TypeOK
<1> QED
  BY <1>1, <1>2, <1>3, <1>4, <1>5, <1>6, <1>7, <1>8, <1>9 DEF Work

\* The types are preserved by the reports of the database; JobInv says that a
\* transaction that has begun is not empty.
LEMMA DbTyped ==
  ASSUME TypeOK, JobInv, NEW c \in Call, DbWork(c) \/ LateEffect(c)
  PROVE  TypeOK'
<1>0. /\ LuaTypes /\ DbTypes /\ mail \in [Service -> Seq(Answers)]
      /\ req \in [Call -> Request \cup {None}]
      /\ MaxStatement \in Nat /\ 1 \in 0..MaxStatement
  BY SqlAssumption DEF TypeOK
<1>1. UNCHANGED <<req, luaVars, poolVars, told, up>>
  BY DEF DbWork, Single, BeginTx, Statement, Commit, LateEffect, luaVars, poolVars
<1>2. job[c].phase # "none" /\ req[c] \in Request
  BY <1>0 DEF DbWork, Single, BeginTx, Statement, Commit, LateEffect, DbTypes
<1>3. req[c].src \in Service /\ req[c].size \in 0..MaxStatement
  BY <1>2, RequestTyped
<1>4. \A ok \in BOOLEAN : Answer(c, ok) => mail' \in [Service -> Seq(Answers)]
  <2> SUFFICES ASSUME NEW ok \in BOOLEAN, Answer(c, ok)
               PROVE  mail' \in [Service -> Seq(Answers)]
    OBVIOUS
  <2>1. [call |-> c, ok |-> ok] \in Answers
    BY DEF Answers
  <2>2. Append(mail[req[c].src], [call |-> c, ok |-> ok]) \in Seq(Answers)
    BY <1>0, <1>3, <2>1, AppendFacts
  <2> QED
    BY <1>0, <1>3, <2>2 DEF Answer
<1>5. mail' \in [Service -> Seq(Answers)]
  BY <1>0, <1>4 DEF DbWork, Single, BeginTx, Statement, Commit, LateEffect
<1>6. ASSUME NEW phase \in {"commit", "limbo", "over"}, Goto(c, phase, 0),
             effect' \in [Call -> Nat]
      PROVE  DbTypes'
  BY <1>0, <1>1, <1>2, <1>6 DEF DbTypes, Goto
<1>7. ASSUME NEW n \in 1..req[c].size, Goto(c, "statement", n), UNCHANGED effect
      PROVE  DbTypes'
  <2>1. n \in 0..MaxStatement
    BY <1>0, <1>3
  <2> QED
    BY <1>0, <1>1, <1>2, <1>7, <2>1 DEF DbTypes, Goto
<1>8. DbTypes'
  <2>0. effect \in [Call -> Nat] /\ effect[c] \in Nat /\ req[c].size \in Nat
    BY <1>0, <1>3 DEF DbTypes
  <2>1. ASSUME NEW ok \in BOOLEAN, Single(c, ok) PROVE DbTypes'
    <3>1. effect' \in [Call -> Nat]
      BY <2>0, <2>1 DEF Single
    <3> QED
      BY <1>6, <2>1, <3>1 DEF Single
  <2>2. ASSUME NEW ok \in BOOLEAN, BeginTx(c, ok) PROVE DbTypes'
    <3>1. 1 \in 1..req[c].size
      BY <1>0, <1>3, <2>2 DEF BeginTx, JobInv
    <3> QED
      BY <1>6, <1>7, <2>0, <2>2, <3>1 DEF BeginTx
  <2>3. ASSUME NEW ok \in BOOLEAN, Statement(c, ok) PROVE DbTypes'
    <3>1. job[c].at \in 1..req[c].size
      BY <1>0, <2>3 DEF Statement, DbTypes
    <3>2. job[c].at < req[c].size => job[c].at + 1 \in 1..req[c].size
      BY <1>3, <3>1
    <3>3. job[c].at >= req[c].size \/ job[c].at < req[c].size
      BY <1>3, <3>1
    <3> QED
      BY <1>6, <1>7, <2>0, <2>3, <3>2, <3>3 DEF Statement, RunTx
  <2>4. ASSUME NEW ok \in BOOLEAN, Commit(c, ok) PROVE DbTypes'
    <3>1. effect' \in [Call -> Nat]
      BY <2>0, <2>4 DEF Commit
    <3> QED
      BY <1>6, <2>4, <3>1 DEF Commit
  <2>5. CASE LateEffect(c)
    <3>1. effect' \in [Call -> Nat]
      BY <2>0, <2>5 DEF LateEffect
    <3> QED
      BY <1>6, <2>5, <3>1 DEF LateEffect
  <2> QED
    BY <2>1, <2>2, <2>3, <2>4, <2>5 DEF DbWork
<1>9. LuaTypes'
  BY <1>0, <1>1, LuaFrame
<1> QED
  BY <1>1, <1>5, <1>8, <1>9 DEF TypeOK, poolVars

LEMMA StepTyped ==
  TypeOK /\ OnePool /\ AskedInv /\ JobInv /\ [Next]_vars => TypeOK'
<1> SUFFICES ASSUME TypeOK, OnePool, AskedInv, JobInv, [Next]_vars PROVE TypeOK'
  OBVIOUS
<1>1. CASE Destroy
  <2>1. \A k \in Db : k \in pools => made[k] - 1 \in Nat
    BY DEF OnePool
  <2>2. made' \in [Db -> Nat] /\ pools' \subseteq Configured /\ up' \in BOOLEAN
    BY <1>1, <2>1 DEF Destroy, TypeOK
  <2>3. UNCHANGED <<req, luaVars, dbVars, mail, told>>
    BY <1>1 DEF Destroy
  <2> QED
    BY <2>2, <2>3, LuaFrame, DbFrame DEF TypeOK
<1>2. CASE UNCHANGED vars
  BY <1>2, LuaFrame, DbFrame DEF vars, TypeOK, poolVars
<1> QED
  BY <1>1, <1>2, ServiceTyped, DbTyped DEF Next

-----------------------------------------------------------------------------
\* Only Create and the destructor touch the pools (MFSqlConnectPool.cpp).
LEMMA StepOnePool ==
  ASSUME TypeOK, OnePool, [Next]_vars
  PROVE  OnePool'
<1>1. ASSUME NEW s \in Service, Create(s) PROVE OnePool'
  <2>1. CASE UNCHANGED poolVars
    BY <2>1 DEF OnePool, poolVars
  <2>2. ASSUME NEW k \in Db, k \notin pools, Add(k) PROVE OnePool'
    BY <2>2 DEF OnePool, Add, TypeOK
  <2>3. req[cur[s]].db \in Db
    <3>1. req[cur[s]] \in Request
      BY <1>1 DEF Create, LuaTypes, TypeOK
    <3> QED
      BY <3>1, RequestTyped
  <2> QED
    BY <1>1, <2>1, <2>2, <2>3 DEF Create
<1>2. CASE Destroy
  BY <1>2 DEF Destroy, OnePool, TypeOK
<1>3. CASE UNCHANGED poolVars
  BY <1>3 DEF OnePool, poolVars
<1> QED
  BY <1>1, <1>2, <1>3
     DEF Next, Work, DbWork, Begin, Ask, Find, Submit, NoteFn, Suspend, Stop,
         Handle, Single, BeginTx, Statement, Commit, LateEffect, vars

LEMMA StepAsked ==
  ASSUME TypeOK, AskedInv, [Next]_vars
  PROVE  AskedInv'
<1>1. ASSUME NEW s \in Service, NEW r \in Request, Ask(s, r) PROVE AskedInv'
  <2> DEFINE c == Cardinality({d \in Call : req[d] # None}) + 1
  <2> HIDE DEF c
  <2>1. c \in Call /\ req' = [req EXCEPT ![c] = r]
    BY <1>1 DEF Ask, c
  <2>2. PICK n \in 0..MaxCall : {d \in Call : req[d] # None} \cup {c} = 1..n
    BY <2>1, NextCall DEF c
  <2>3. {d \in Call : req'[d] # None} = {d \in Call : req[d] # None} \cup {c}
    BY <2>1, SqlAssumption DEF TypeOK
  <2> QED
    BY <2>2, <2>3 DEF AskedInv
<1>2. CASE UNCHANGED req
  BY <1>2 DEF AskedInv
<1> QED
  BY <1>1, <1>2
     DEF Next, Work, DbWork, Begin, Find, Create, Submit, NoteFn, Suspend, Stop,
         Handle, Single, BeginTx, Statement, Commit, LateEffect, Destroy, vars

\* A call is in one service's hands.
LEMMA OneCaller ==
  ASSUME TypeOK, NEW s \in Service, pc[s] # "lua"
  PROVE  /\ cur[s] \in Call /\ req[cur[s]] \in Request /\ req[cur[s]].src = s
         /\ run[s].on /\ cur[s] # None
         /\ \A t \in Service \ {s} : cur[t] # cur[s]
  BY DEF TypeOK, LuaTypes

LEMMA StepCaller ==
  ASSUME TypeOK, AskedInv, CallerInv, JobInv, MailInv, [Next]_vars
  PROVE  CallerInv'
<1> USE DEF CallerInv
<1>0. LuaTypes /\ DbTypes /\ None \notin Call
  BY SqlAssumption DEF TypeOK
<1>1. ASSUME NEW s \in Service, Begin(s) PROVE CallerInv'
  BY <1>0, <1>1 DEF Begin, LuaTypes, dbVars, Off
<1>2. ASSUME NEW s \in Service, NEW r \in Request, Ask(s, r) PROVE CallerInv'
  <2> DEFINE c == Cardinality({d \in Call : req[d] # None}) + 1
  <2> HIDE DEF c
  <2>1. /\ c \in Call /\ cur' = [cur EXCEPT ![s] = c]
        /\ pc' = [pc EXCEPT ![s] = "find"] /\ pc[s] = "lua"
        /\ UNCHANGED <<run, job, told>>
    BY <1>2 DEF Ask, c, dbVars
  <2>2. req[c] = None
    BY <2>1, NextCall DEF c
  <2>3. job[c].phase = "none"
    BY <1>0, <2>1, <2>2 DEF DbTypes
  <2>4. told[c] = "none"
    BY <2>1, <2>3 DEF JobInv
  <2> QED
    BY <1>0, <2>1, <2>3, <2>4 DEF LuaTypes
<1>3. ASSUME NEW s \in Service, Find(s) \/ Create(s) PROVE CallerInv'
  <2>1. UNCHANGED <<cur, run, job, told>>
        /\ pc[s] \in {"find", "create"}
        /\ \A t \in Service \ {s} : pc'[t] = pc[t]
    BY <1>0, <1>3 DEF Find, Create, LuaTypes, dbVars
  <2> QED
    BY <2>1
<1>4. ASSUME NEW s \in Service, Submit(s) PROVE CallerInv'
  <2>1. /\ pc[s] = "submit" /\ pc' = [pc EXCEPT ![s] = "note"]
        /\ UNCHANGED <<cur, run, told>>
        /\ \A d \in Call \ {cur[s]} : job'[d] = job[d]
    BY <1>0, <1>4 DEF Submit, Goto, DbTypes
  <2> QED
    BY <1>0, <2>1, OneCaller DEF LuaTypes
<1>5. ASSUME NEW s \in Service, NoteFn(s) \/ Suspend(s) PROVE CallerInv'
  <2>1. /\ pc' = [pc EXCEPT ![s] = "lua"] /\ cur' = [cur EXCEPT ![s] = None]
        /\ UNCHANGED <<job, told>>
        /\ run' = run \/ run' = [run EXCEPT ![s] = Off]
    BY <1>5 DEF NoteFn, Suspend, Return, dbVars
  <2> QED
    BY <1>0, <2>1 DEF LuaTypes
<1>6. ASSUME NEW s \in Service, NEW raises \in BOOLEAN, Stop(s, raises)
      PROVE  CallerInv'
  BY <1>0, <1>6 DEF Stop, LuaTypes, dbVars, Off
<1>7. ASSUME NEW s \in Service, Handle(s) PROVE CallerInv'
  <2> DEFINE c == Head(mail[s]).call
  <2>1. /\ UNCHANGED <<pc, cur, job>> /\ ~run[s].on
        /\ \A d \in Call \ {c} : told'[d] = told[d]
        /\ \A t \in Service \ {s} : run'[t] = run[t]
    BY <1>0, <1>7 DEF Handle, dbVars, TypeOK, LuaTypes
  <2>2. mail[s] \in Seq(Answers) /\ mail[s] # <<>>
    BY <1>7 DEF Handle, TypeOK
  <2>3. req[c].src = s /\ c \in Call /\ req[c] # None
    <3>1. 1 \in DOMAIN mail[s] /\ Head(mail[s]) = mail[s][1] /\ Head(mail[s]) \in Answers
      BY <2>2, TailFacts
    <3> QED
      BY <3>1 DEF MailInv, Settled, Answers
  <2>4. \A t \in Service : cur[t] # c
    BY <1>0, <2>1, <2>3 DEF LuaTypes
  <2>5. ~run'[s].on => run'[s] = Off
    <3> HIDE DEF CallerInv
    <3>1. \/ run'[s] = [on |-> TRUE, fnEnd |-> co[c].fnEnd, coStop |-> c]
          \/ run'[s] = [on |-> TRUE, fnEnd |-> c, coStop |-> None]
          \/ run'[s] = Off
      BY <1>0, <1>7 DEF Handle, LuaTypes
    <3> QED
      BY <3>1
  <2> QED
    BY <1>0, <2>1, <2>4, <2>5 DEF LuaTypes
<1>8. ASSUME NEW c \in Call, DbWork(c) \/ LateEffect(c) PROVE CallerInv'
  <2>1. /\ UNCHANGED <<pc, cur, run, told>> /\ job[c].phase # "none"
        /\ \A d \in Call \ {c} : job'[d] = job[d]
    BY <1>0, <1>8 DEF DbWork, Single, BeginTx, Statement, Commit, LateEffect, Goto,
                      RunTx, luaVars, DbTypes
  <2>2. \A s \in Service :
          pc[s] \in {"find", "create", "submit"} => cur[s] \in Call \ {c}
    BY <1>0, <2>1 DEF LuaTypes
  <2> QED
    BY <2>1, <2>2
<1>9. CASE Destroy \/ UNCHANGED vars
  BY <1>9 DEF Destroy, vars, luaVars, dbVars
<1> QED
  BY <1>1, <1>2, <1>3, <1>4, <1>5, <1>6, <1>7, <1>8, <1>9 DEF Next, Work

\* What a report of the database leaves alone, and the phase it starts from.
LEMMA DbStep ==
  ASSUME TypeOK, NEW c \in Call, DbWork(c)
  PROVE  /\ UNCHANGED <<req, luaVars, poolVars, told, up>>
         /\ job[c].phase \in {"single", "begin", "statement", "commit"}
         /\ req[c] \in Request /\ req[c] # None /\ req[c].src \in Service
         /\ \A d \in Call \ {c} : job'[d] = job[d] /\ effect'[d] = effect[d]
<1>0. /\ DbTypes /\ req \in [Call -> Request \cup {None}]
  BY DEF TypeOK
<1>1. UNCHANGED <<req, luaVars, poolVars, told, up>>
  BY DEF DbWork, Single, BeginTx, Statement, Commit, luaVars, poolVars
<1>2. job[c].phase \in {"single", "begin", "statement", "commit"}
  BY DEF DbWork, Single, BeginTx, Statement, Commit
<1>3. req[c] \in Request /\ req[c] # None
  BY <1>0, <1>2 DEF DbTypes
<1>4. \A d \in Call \ {c} : job'[d] = job[d]
  BY <1>0 DEF DbWork, Single, BeginTx, Statement, Commit, Goto, RunTx, DbTypes
<1>5. \A d \in Call \ {c} : effect'[d] = effect[d]
  BY <1>0 DEF DbWork, Single, BeginTx, Statement, Commit, DbTypes
<1> QED
  BY <1>1, <1>2, <1>3, <1>4, <1>5, RequestTyped

LEMMA StepJob ==
  ASSUME TypeOK, AskedInv, CallerInv, JobInv, MailInv, [Next]_vars
  PROVE  JobInv'
<1>0. LuaTypes /\ DbTypes /\ req \in [Call -> Request \cup {None}]
  BY DEF TypeOK
<1>1. ASSUME NEW s \in Service, NEW r \in Request, Ask(s, r) PROVE JobInv'
  <2> DEFINE c == Cardinality({d \in Call : req[d] # None}) + 1
  <2> HIDE DEF c
  <2>1. /\ c \in Call /\ req' = [req EXCEPT ![c] = r]
        /\ UNCHANGED <<job, effect, told>>
    BY <1>1 DEF Ask, c, dbVars
  <2>2. job[c].phase = "none"
    BY <1>0, <2>1, NextCall DEF c, DbTypes
  <2> QED
    BY <1>0, <2>1, <2>2 DEF JobInv
<1>2. ASSUME NEW s \in Service, Submit(s) PROVE JobInv'
  <2> DEFINE c == cur[s]
  <2>1. /\ c \in Call /\ req[c] \in Request /\ told[c] = "none" /\ effect[c] = 0
        /\ UNCHANGED <<req, effect, told>>
    BY <1>2, OneCaller DEF Submit, CallerInv, JobInv
  <2>2. \/ job' = [job EXCEPT ![c] = [phase |-> "over", at |-> 0]]
        \/ /\ job' = [job EXCEPT ![c] = [phase |-> "begin", at |-> 0]]
           /\ req[c].size # 0
        \/ /\ job' = [job EXCEPT ![c] = [phase |-> "single", at |-> 0]]
           /\ ~req[c].tx
    BY <1>2 DEF Submit, Goto
  <2>3. req[c].size \in Nat /\ (~req[c].tx => req[c].size = 1)
    BY <2>1, RequestTyped, SqlAssumption
  <2> QED
    BY <1>0, <2>1, <2>2, <2>3 DEF JobInv, DbTypes
<1>3. ASSUME NEW s \in Service, Handle(s) PROVE JobInv'
  <2> DEFINE c == Head(mail[s]).call
  <2>1. mail[s] \in Seq(Answers) /\ mail[s] # <<>>
    BY <1>3 DEF Handle, TypeOK
  <2>2. 1 \in DOMAIN mail[s] /\ Head(mail[s]) = mail[s][1]
    BY <2>1, TailFacts
  <2>3. job[c].phase \in {"limbo", "over"}
    BY <2>2 DEF MailInv, Settled
  <2>4. /\ UNCHANGED <<req, job, effect>>
        /\ \A d \in Call \ {c} : told'[d] = told[d]
    BY <1>3 DEF Handle, TypeOK, dbVars
  <2> QED
    BY <2>3, <2>4 DEF JobInv
<1>4. ASSUME NEW c \in Call, DbWork(c) PROVE JobInv'
  <2>1. /\ UNCHANGED <<req, told>>
        /\ \A d \in Call \ {c} : job'[d] = job[d] /\ effect'[d] = effect[d]
        /\ told[c] = "none" /\ effect[c] = 0 /\ req[c].size > 0
    BY <1>4, DbStep DEF JobInv
  <2>2. /\ job'[c].phase \in {"statement", "commit", "limbo", "over"}
        /\ job'[c].phase # "over" => effect'[c] = 0
    <3>1. ASSUME NEW ok \in BOOLEAN, Single(c, ok) \/ Commit(c, ok) PROVE <2>2
      BY <1>0, <2>1, <3>1 DEF Single, Commit, Goto, DbTypes
    <3>2. ASSUME NEW ok \in BOOLEAN, BeginTx(c, ok) \/ Statement(c, ok) PROVE <2>2
      <4>1. effect' = effect
        BY <3>2 DEF BeginTx, Statement
      <4>2. \E phase \in {"statement", "commit", "over"}, at \in {0, 1, job[c].at + 1} :
              Goto(c, phase, at)
        BY <3>2 DEF BeginTx, Statement, RunTx
      <4> QED
        BY <1>0, <2>1, <4>1, <4>2 DEF Goto, DbTypes
    <3> QED
      BY <1>4, <3>1, <3>2 DEF DbWork
  <2> QED
    BY <2>1, <2>2 DEF JobInv
<1>5. ASSUME NEW c \in Call, LateEffect(c) PROVE JobInv'
  BY <1>0, <1>5 DEF LateEffect, Goto, JobInv, DbTypes
<1>6. CASE UNCHANGED <<req, dbVars, told>>
  BY <1>6 DEF JobInv, dbVars
<1> QED
  BY <1>1, <1>2, <1>3, <1>4, <1>5, <1>6
     DEF Next, Work, Begin, Find, Create, NoteFn, Suspend, Stop, Destroy, vars

LEMMA MailTyped ==
  ASSUME TypeOK, MailInv, NEW s \in Service, NEW i \in DOMAIN mail[s]
  PROVE  /\ mail[s][i] \in Answers /\ mail[s][i].call \in Call
         /\ Settled(s, mail[s][i]) /\ i \in 1..Len(mail[s])
<1>1. mail[s] \in Seq(Answers)
  BY DEF TypeOK
<1>2. mail[s][i] \in Answers /\ i \in 1..Len(mail[s])
  BY <1>1
<1> QED
  BY <1>2 DEF MailInv, Answers

\* dispatchQuery and dispatchExecute: the first answer to a call.
LEMMA AnswerMail ==
  ASSUME TypeOK, MailInv, NEW c \in Call, NEW ok \in BOOLEAN, Answer(c, ok),
         req[c] \in Request, job[c].phase \notin {"limbo", "over"},
         told[c] = "none", UNCHANGED <<req, told>>,
         \A d \in Call \ {c} : job'[d] = job[d] /\ effect'[d] = effect[d],
         job'[c].phase \in {"limbo", "over"},
         ok => effect'[c] = req[c].size /\ req[c].size > 0
  PROVE  MailInv'
<1> DEFINE s == req[c].src
           a == [call |-> c, ok |-> ok]
           q == mail[s]
           n == Len(q) + 1
<1>1. s \in Service /\ req[c] # None /\ a \in Answers
  BY RequestTyped DEF Answers
<1>2. mail \in [Service -> Seq(Answers)] /\ mail' = [mail EXCEPT ![s] = Append(@, a)]
  BY DEF TypeOK, Answer
<1>3. ASSUME NEW t \in Service, NEW m \in Answers, Settled(t, m)
      PROVE  m.call # c /\ Settled(t, m)'
  <2>1. m.call \in Call /\ m.call # c
    BY <1>3 DEF Settled, Answers
  <2> QED
    BY <1>3, <2>1 DEF Settled
<1>4. /\ req'[c] # None /\ req'[c].src = s /\ a.call = c /\ a.ok = ok
      /\ \A m : m = a => Settled(s, m)'
  BY <1>1 DEF Settled
<1>5. ASSUME NEW t \in Service \ {s}
      PROVE  /\ mail'[t] = mail[t]
             /\ \A i \in DOMAIN mail[t] : \A m : m = mail[t][i] => Settled(t, m)'
  <2>1. mail'[t] = mail[t]
    BY <1>2
  <2> QED
    BY <1>3, <2>1, MailTyped
<1>6. /\ mail'[s] = Append(q, a) /\ Len(q) \in Nat /\ DOMAIN q = 1..Len(q)
      /\ DOMAIN mail'[s] = 1..n
      /\ \A j \in 1..Len(q) : mail'[s][j] = q[j]
      /\ mail'[s][n] = a
  BY <1>1, <1>2, AppendFacts
<1>7. \A j \in 1..Len(q) : q[j] \in Answers /\ Settled(s, q[j]) /\ q[j].call # c
  BY <1>1, <1>3, <1>6, MailTyped
<1>8. ASSUME NEW j \in DOMAIN mail'[s] PROVE \A m : m = mail'[s][j] => Settled(s, m)'
  <2>1. CASE j = n
    BY <1>4, <1>6, <2>1
  <2>2. CASE j \in 1..Len(q)
    BY <1>1, <1>3, <1>6, <1>7, <2>2
  <2>3. j \in 1..n
    BY <1>6, <1>8
  <2>4. j = n \/ j \in 1..Len(q)
    BY <1>6, <2>3
  <2> QED
    BY <2>1, <2>2, <2>4
<1>9. \A i, j \in 1..n : mail'[s][j].call = mail'[s][i].call => j = i
  <2>1. \A i, j \in 1..Len(q) : q[j].call = q[i].call => j = i
    BY <1>1, <1>6 DEF MailInv
  <2> HIDE DEF s, a, q
  <2> QED
    BY <1>4, <1>6, <1>7, <2>1
<1>10. ASSUME NEW t \in Service, NEW i \in DOMAIN mail'[t]
       PROVE  /\ Settled(t, mail[t][i])'
              /\ \A j \in DOMAIN mail'[t] : mail'[t][j].call = mail'[t][i].call => j = i
  <2>1. CASE t = s
    BY <1>6, <1>8, <1>9, <2>1
  <2>2. CASE t # s
    BY <1>5, <2>2 DEF MailInv
  <2> QED
    BY <2>1, <2>2
<1> QED
  BY <1>10 DEF MailInv

\* The answer that Handle takes, and those it leaves.
LEMMA HandleMail ==
  ASSUME TypeOK, MailInv, NEW s \in Service, Handle(s)
  PROVE  LET m == Head(mail[s]) IN
           /\ m \in Answers /\ m.call \in Call /\ Settled(s, m)
           /\ \A d \in Call \ {m.call} : told'[d] = told[d]
           /\ \A t \in Service : \A i \in DOMAIN mail'[t] :
                \E k \in DOMAIN mail[t] : /\ mail'[t][i] = mail[t][k]
                                          /\ mail[t][k].call # m.call
                                          /\ k = IF t = s THEN i + 1 ELSE i
<1> DEFINE q == mail[s]
           m == Head(q)
<1>1. q \in Seq(Answers) /\ q # <<>> /\ mail' = [mail EXCEPT ![s] = Tail(q)]
  BY DEF Handle, TypeOK
<1>2. /\ 1 \in DOMAIN q /\ m = q[1] /\ DOMAIN Tail(q) \subseteq Nat
      /\ \A i \in DOMAIN Tail(q) : i + 1 \in DOMAIN q /\ Tail(q)[i] = q[i + 1]
      /\ 0 \notin DOMAIN Tail(q)
  BY <1>1, TailFacts
<1>3. m \in Answers /\ m.call \in Call /\ Settled(s, m)
  BY <1>2, MailTyped
<1>4. \A d \in Call \ {m.call} : told'[d] = told[d]
  BY DEF Handle, TypeOK
<1>5. ASSUME NEW i \in DOMAIN mail'[s]
      PROVE  /\ i + 1 \in DOMAIN q /\ mail'[s][i] = q[i + 1]
             /\ q[i + 1].call # m.call
  <2>1. mail'[s] = Tail(q)
    BY <1>1 DEF TypeOK
  <2>2. i + 1 \in DOMAIN q /\ mail'[s][i] = q[i + 1] /\ i + 1 # 1
    BY <1>2, <2>1
  <2>3. q[i + 1].call = q[1].call => i + 1 = 1
    BY <1>2, <2>2 DEF MailInv
  <2> QED
    BY <1>2, <2>2, <2>3
<1>6. ASSUME NEW t \in Service \ {s}, NEW i \in DOMAIN mail'[t]
      PROVE  /\ i \in DOMAIN mail[t] /\ mail'[t][i] = mail[t][i]
             /\ mail[t][i].call # m.call
  <2>1. mail'[t] = mail[t]
    BY <1>1 DEF TypeOK
  <2>2. Settled(t, mail[t][i])
    BY <2>1, MailTyped
  <2> QED
    BY <1>3, <2>1, <2>2 DEF Settled
<1>7. ASSUME NEW t \in Service, NEW i \in DOMAIN mail'[t]
      PROVE  \E k \in DOMAIN mail[t] : /\ mail'[t][i] = mail[t][k]
                                       /\ mail[t][k].call # m.call
                                       /\ k = IF t = s THEN i + 1 ELSE i
  <2>1. CASE t = s
    BY <1>5, <2>1
  <2>2. CASE t # s
    BY <1>6, <2>2
  <2> QED
    BY <2>1, <2>2
<1> QED
  BY <1>3, <1>4, <1>7

LEMMA StepMail ==
  ASSUME TypeOK, AskedInv, CallerInv, JobInv, MailInv, [Next]_vars
  PROVE  MailInv'
<1>0. LuaTypes /\ DbTypes /\ req \in [Call -> Request \cup {None}]
  BY DEF TypeOK
<1>1. ASSUME NEW s \in Service, NEW r \in Request, Ask(s, r) PROVE MailInv'
  <2> DEFINE c == Cardinality({d \in Call : req[d] # None}) + 1
  <2> HIDE DEF c
  <2>1. /\ c \in Call /\ req' = [req EXCEPT ![c] = r]
        /\ UNCHANGED <<job, effect, told, mail>>
    BY <1>1 DEF Ask, c, dbVars
  <2>2. req[c] = None
    BY <2>1, NextCall DEF c
  <2>3. ASSUME NEW t \in Service, NEW i \in DOMAIN mail[t]
        PROVE  Settled(t, mail[t][i])'
    <3>1. Settled(t, mail[t][i]) /\ mail[t][i].call \in Call \ {c}
      BY <2>2, <2>3, MailTyped DEF Settled
    <3> QED
      BY <1>0, <2>1, <3>1 DEF Settled
  <2> QED
    BY <2>1, <2>3 DEF MailInv
<1>2. ASSUME NEW s \in Service, Submit(s) PROVE MailInv'
  <2> DEFINE c == cur[s]
  <2>1. /\ c \in Call /\ req[c] \in Request /\ job[c].phase = "none"
        /\ told[c] = "none" /\ UNCHANGED <<req, effect, told>>
    BY <1>2, OneCaller DEF Submit, CallerInv
  <2>2. \A d \in Call \ {c} : job'[d] = job[d]
    BY <1>0, <1>2 DEF Submit, Goto, DbTypes
  <2>3. CASE UNCHANGED mail
    <3>1. ASSUME NEW t \in Service, NEW i \in DOMAIN mail[t]
          PROVE  Settled(t, mail[t][i])'
      <4>1. Settled(t, mail[t][i]) /\ mail[t][i].call \in Call \ {c}
        BY <2>1, <3>1, MailTyped DEF Settled
      <4> QED
        BY <2>1, <2>2, <2>3, <4>1 DEF Settled
    <3> QED
      BY <2>3, <3>1 DEF MailInv
  <2>4. CASE Goto(c, "over", 0) /\ Answer(c, FALSE)
    <3>1. job'[c].phase = "over"
      BY <1>0, <2>1, <2>4 DEF Goto, DbTypes
    <3> QED
      BY <2>1, <2>2, <2>4, <3>1, AnswerMail
  <2> QED
    BY <1>2, <2>3, <2>4 DEF Submit
<1>3. ASSUME NEW s \in Service, Handle(s) PROVE MailInv'
  <2> DEFINE m == Head(mail[s])
  <2>1. UNCHANGED <<req, job, effect>>
    BY <1>3 DEF Handle, dbVars
  <2>2. ASSUME NEW t \in Service, NEW i \in DOMAIN mail'[t]
        PROVE  /\ Settled(t, mail[t][i])'
               /\ \A j \in DOMAIN mail'[t] :
                    mail'[t][j].call = mail'[t][i].call => j = i
    <3>1. PICK k \in DOMAIN mail[t] : /\ mail'[t][i] = mail[t][k]
                                      /\ mail[t][k].call # m.call
                                      /\ k = IF t = s THEN i + 1 ELSE i
      BY <1>3, <2>2, HandleMail
    <3>2. Settled(t, mail[t][k]) /\ mail[t][k].call \in Call
      BY <3>1, MailTyped
    <3>3. told'[mail[t][k].call] = told[mail[t][k].call]
      BY <1>3, <3>1, <3>2, HandleMail
    <3>4. Settled(t, mail[t][i])'
      BY <2>1, <3>1, <3>2, <3>3 DEF Settled
    <3>5. ASSUME NEW j \in DOMAIN mail'[t], mail'[t][j].call = mail'[t][i].call
          PROVE  j = i
      <4>1. PICK l \in DOMAIN mail[t] : /\ mail'[t][j] = mail[t][l]
                                        /\ l = IF t = s THEN j + 1 ELSE j
        BY <1>3, <3>5, HandleMail
      <4>2. l = k
        BY <3>1, <3>5, <4>1 DEF MailInv
      <4>3. mail'[t] \in Seq(Answers)
        BY <1>3, ServiceTyped DEF TypeOK
      <4>4. i \in Nat /\ j \in Nat
        BY <4>3
      <4> QED
        BY <3>1, <4>1, <4>2, <4>4
    <3> QED
      BY <3>4, <3>5
  <2> QED
    BY <2>2 DEF MailInv
<1>4. ASSUME NEW c \in Call, DbWork(c) PROVE MailInv'
  <2>1. /\ UNCHANGED <<req, told>> /\ req[c] \in Request
        /\ \A d \in Call \ {c} : job'[d] = job[d] /\ effect'[d] = effect[d]
        /\ job[c].phase \notin {"limbo", "over"} /\ told[c] = "none" /\ effect[c] = 0
        /\ req[c].size > 0 /\ (job[c].phase = "single" => req[c].size = 1)
    BY <1>4, DbStep DEF JobInv
  <2>2. CASE UNCHANGED mail
    <3>1. ASSUME NEW t \in Service, NEW i \in DOMAIN mail[t]
          PROVE  Settled(t, mail[t][i])'
      <4>1. Settled(t, mail[t][i]) /\ mail[t][i].call \in Call \ {c}
        BY <2>1, <3>1, MailTyped DEF Settled
      <4> QED
        BY <2>1, <2>2, <4>1 DEF Settled
    <3> QED
      BY <2>2, <3>1 DEF MailInv
  <2>3. ASSUME NEW ok \in BOOLEAN, Single(c, ok) \/ Commit(c, ok) PROVE MailInv'
    <3>0. req[c].size \in Nat
      BY <2>1, RequestTyped, SqlAssumption
    <3>1. /\ Answer(c, ok) /\ job'[c].phase \in {"limbo", "over"}
          /\ ok => effect'[c] = req[c].size
      BY <1>0, <2>1, <2>3, <3>0 DEF Single, Commit, Goto, DbTypes
    <3> QED
      BY <2>1, <3>1, AnswerMail
  <2>4. ASSUME NEW ok \in BOOLEAN, BeginTx(c, ok) \/ Statement(c, ok),
               mail' # mail
        PROVE  MailInv'
    <3>1. Goto(c, "over", 0) /\ Answer(c, FALSE)
      BY <2>4 DEF BeginTx, Statement
    <3>2. job'[c].phase = "over"
      BY <1>0, <3>1 DEF Goto, DbTypes
    <3> QED
      BY <2>1, <3>1, <3>2, AnswerMail
  <2> QED
    BY <1>4, <2>2, <2>3, <2>4 DEF DbWork
<1>5. ASSUME NEW c \in Call, LateEffect(c) PROVE MailInv'
  <2>1. /\ UNCHANGED <<req, told, mail>>
        /\ \A d \in Call \ {c} : job'[d] = job[d] /\ effect'[d] = effect[d]
        /\ job'[c].phase = "over" /\ effect'[c] = req[c].size /\ req[c].size > 0
    <3>1. req[c] \in Request /\ effect[c] = 0
      BY <1>0, <1>5 DEF LateEffect, DbTypes, JobInv, TypeOK
    <3>2. req[c].size \in Nat
      BY <3>1, RequestTyped, SqlAssumption
    <3> QED
      BY <1>0, <1>5, <3>1, <3>2 DEF LateEffect, Goto, DbTypes, JobInv
  <2>2. ASSUME NEW t \in Service, NEW i \in DOMAIN mail[t]
        PROVE  Settled(t, mail[t][i])'
    <3>1. Settled(t, mail[t][i]) /\ mail[t][i].call \in Call
      BY <2>2, MailTyped
    <3> QED
      BY <2>1, <3>1 DEF Settled
  <2> QED
    BY <2>1, <2>2 DEF MailInv
<1>6. CASE UNCHANGED <<req, dbVars, told, mail>>
  BY <1>6 DEF MailInv, Settled, dbVars
<1> QED
  BY <1>1, <1>2, <1>3, <1>4, <1>5, <1>6
     DEF Next, Work, Begin, Find, Create, NoteFn, Suspend, Stop, Destroy, vars

-----------------------------------------------------------------------------
\* Who was told stays told, and a call that was made stays as it is.
LEMMA Kept ==
  ASSUME TypeOK, AskedInv, MailInv, [Next]_vars, NEW c \in Call
  PROVE  /\ told[c] # "none" => told'[c] # "none"
         /\ req[c] # None => req'[c] = req[c]
<1>1. ASSUME NEW s \in Service, Handle(s)
      PROVE  told[c] # "none" => told'[c] # "none"
  BY <1>1, HandleMail DEF Settled
<1>2. ASSUME NEW s \in Service, NEW r \in Request, Ask(s, r)
      PROVE  req[c] # None => req'[c] = req[c]
  <2> DEFINE d == Cardinality({e \in Call : req[e] # None}) + 1
  <2> HIDE DEF d
  <2>1. d \in Call /\ req' = [req EXCEPT ![d] = r]
    BY <1>2 DEF Ask, d
  <2>2. req[d] = None
    BY <2>1, NextCall DEF d
  <2> QED
    BY <2>1, <2>2 DEF TypeOK
<1>3. UNCHANGED told \/ \E s \in Service : Handle(s)
  BY DEF Next, Work, DbWork, Begin, Ask, Find, Create, Submit, NoteFn, Suspend, Stop,
         Single, BeginTx, Statement, Commit, LateEffect, Destroy, vars
<1>4. UNCHANGED req \/ \E s \in Service, r \in Request : Ask(s, r)
  BY DEF Next, Work, DbWork, Begin, Find, Create, Submit, NoteFn, Suspend, Stop,
         Handle, Single, BeginTx, Statement, Commit, LateEffect, Destroy, vars
<1> QED
  BY <1>1, <1>2, <1>3, <1>4

LEMMA StepLeft ==
  ASSUME TypeOK, AskedInv, MailInv, LeftInv, [Next]_vars
  PROVE  LeftInv'
<1>0. LuaTypes /\ None \notin Call /\ None \notin Waiter
  BY SqlAssumption DEF TypeOK
<1>1. ASSUME NEW s \in Service, \A u \in Service \ {s} : run'[u] = run[u],
             \A c \in Call : c = run'[s].fnEnd \/ c = run'[s].coStop
                              => told'[c] # "none"
      PROVE  \A t \in Service : \A c \in Call :
               c = run'[t].fnEnd \/ c = run'[t].coStop => told'[c] # "none"
  BY <1>1, Kept DEF LeftInv
<1>2. ASSUME NEW c \in Call, co'[c] = co[c], co[c] # None
      PROVE  /\ req'[c] # None
             /\ co'[c].fnEnd # None => told'[co'[c].fnEnd] # "none"
  <2>1. co[c].fnEnd \in Call \cup {None}
    BY <1>0, <1>2 DEF LuaTypes, Waiter
  <2> QED
    BY <1>2, <2>1, Kept DEF LeftInv
<1>3. ASSUME NEW s \in Service, Suspend(s) \/ (\E raises \in BOOLEAN : Stop(s, raises))
      PROVE  LeftInv'
  <2>1. run' = [run EXCEPT ![s] = Off] /\ UNCHANGED <<req, told>>
    BY <1>3 DEF Suspend, Stop
  <2>2. /\ run'[s].fnEnd = None /\ run'[s].coStop = None
        /\ \A u \in Service \ {s} : run'[u] = run[u]
    BY <1>0, <2>1 DEF LuaTypes, Off
  <2>3. ASSUME NEW c \in Call, co'[c] # None, co'[c] # co[c]
        PROVE  /\ req'[c] # None
               /\ co'[c].fnEnd # None => told'[co'[c].fnEnd] # "none"
    <3>1. c = cur[s] /\ co'[c] = Waiting(s) /\ pc[s] # "lua"
      BY <1>3, <2>3 DEF Suspend, Stop
    <3>2. req[c] # None
      BY <3>1, <1>0 DEF LuaTypes
    <3>3. co'[c].fnEnd = run[s].fnEnd /\ run[s].fnEnd \in Call \cup {None}
      BY <1>0, <3>1 DEF Waiting, LuaTypes
    <3> QED
      BY <2>1, <3>2, <3>3 DEF LeftInv
  <2>4. \A t \in Service : \A c \in Call :
          c = run'[t].fnEnd \/ c = run'[t].coStop => told'[c] # "none"
    BY <1>0, <1>1, <2>2
  <2>5. \A c \in Call : co'[c] # None =>
          /\ req'[c] # None
          /\ co'[c].fnEnd # None => told'[co'[c].fnEnd] # "none"
    BY <1>2, <2>3
  <2> QED
    BY <2>4, <2>5 DEF LeftInv
<1>4. ASSUME NEW s \in Service, Handle(s) PROVE LeftInv'
  <2> DEFINE c == Head(mail[s]).call
  <2>1. /\ c \in Call /\ UNCHANGED co
        /\ \A u \in Service \ {s} : run'[u] = run[u]
    <3>1. c \in Call
      BY <1>4, HandleMail
    <3>2. DOMAIN run = Service
      BY <1>0 DEF LuaTypes
    <3>3. UNCHANGED co /\ \E r : run' = [run EXCEPT ![s] = r]
      BY <1>4 DEF Handle
    <3> HIDE DEF c
    <3> QED
      BY <3>1, <3>2, <3>3
  <2>2. co[c] # None \/ c \in fn => told'[c] # "none"
    BY <1>4, <2>1 DEF Handle, TypeOK
  <2>3. \/ run'[s] = [on |-> TRUE, fnEnd |-> co[c].fnEnd, coStop |-> c] /\ co[c] # None
        \/ run'[s] = [on |-> TRUE, fnEnd |-> c, coStop |-> None] /\ c \in fn
        \/ run'[s] = Off
    BY <1>0, <1>4 DEF Handle, LuaTypes
  <2>4. \A d \in Call : d = run'[s].fnEnd \/ d = run'[s].coStop => told'[d] # "none"
    BY <1>0, <1>2, <2>1, <2>2, <2>3 DEF Off
  <2> QED
    BY <1>1, <1>2, <2>1, <2>4 DEF LeftInv
<1>5. ASSUME NEW s \in Service, Begin(s) PROVE LeftInv'
  <2>1. /\ UNCHANGED co /\ run'[s].fnEnd = None /\ run'[s].coStop = None
        /\ \A u \in Service \ {s} : run'[u] = run[u]
    BY <1>0, <1>5 DEF Begin, LuaTypes, Off
  <2> QED
    BY <1>0, <1>1, <1>2, <2>1 DEF LeftInv
<1>6. CASE UNCHANGED <<run, co>>
  BY <1>2, <1>6, Kept DEF LeftInv
<1> QED
  BY <1>3, <1>4, <1>5, <1>6
     DEF Next, Work, DbWork, Ask, Find, Create, Submit, NoteFn, Single, BeginTx,
         Statement, Commit, LateEffect, Destroy, luaVars, vars

LEMMA StepWaiter ==
  ASSUME TypeOK, AskedInv, CallerInv, JobInv, MailInv, LeftInv, WaiterInv, [Next]_vars
  PROVE  WaiterInv'
<1>0. /\ LuaTypes /\ DbTypes /\ None \notin Call /\ None \notin Waiter
      /\ req \in [Call -> Request \cup {None}]
      /\ \A s \in Service : ~run[s].on => run[s].coStop = None
  <2>1. \A s \in Service : ~run[s].on => run[s] = Off
    BY DEF CallerInv
  <2>2. Off.coStop = None
    BY DEF Off
  <2> QED
    BY <2>1, <2>2, SqlAssumption DEF TypeOK
<1>1. ASSUME NEW s \in Service, Begin(s) PROVE WaiterInv'
  <2>1. /\ UNCHANGED <<req, cur, co, fn, job, told>> /\ run[s].coStop = None
        /\ \A u : u # s => run'[u] = run[u]
    BY <1>0, <1>1 DEF Begin, dbVars, LuaTypes
  <2> QED
    BY <1>0, <2>1 DEF WaiterInv
<1>2. ASSUME NEW s \in Service, NEW r \in Request, Ask(s, r) PROVE WaiterInv'
  <2> DEFINE d == Cardinality({e \in Call : req[e] # None}) + 1
  <2> HIDE DEF d
  <2>1. /\ d \in Call /\ req' = [req EXCEPT ![d] = r]
        /\ cur' = [cur EXCEPT ![s] = d] /\ pc[s] = "lua"
        /\ UNCHANGED <<run, co, fn, job, told>>
    BY <1>2 DEF Ask, d, dbVars
  <2>2. req[d] = None
    BY <2>1, NextCall DEF d
  <2>3. job[d].phase = "none" /\ co[d] = None
    BY <1>0, <2>1, <2>2 DEF DbTypes, LeftInv
  <2>4. \A c \in Call \ {d} : req'[c] = req[c]
    BY <1>0, <2>1
  <2>5. \A t \in Service : cur'[t] = cur[t] \/ cur[t] = None
    BY <1>0, <2>1 DEF LuaTypes
  <2>6. \A c \in Call \ {d} :
          job[c].phase # "none" => req[c].src \in Service
    <3>1. \A c \in Call : job[c].phase # "none" => req[c] \in Request
      BY <1>0 DEF DbTypes
    <3> QED
      BY <3>1, RequestTyped
  <2>7. ASSUME NEW c \in Call \ {d}
        PROVE  /\ job'[c].phase # "none" /\ told'[c] = "none" /\ cur'[req'[c].src] # c =>
                    /\ req'[c].form = "co" => co'[c] # None
                    /\ req'[c].form = "fn" => c \in fn'
               /\ co'[c] # None /\ told'[c] # "none" => run'[req'[c].src].coStop = c
    BY <1>0, <2>1, <2>4, <2>5, <2>6 DEF WaiterInv
  <2> QED
    BY <2>1, <2>3, <2>7 DEF WaiterInv
<1>3. ASSUME NEW s \in Service, Submit(s) PROVE WaiterInv'
  <2>1. /\ UNCHANGED <<req, cur, run, co, fn, told>>
        /\ req[cur[s]].src = s
        /\ \A c \in Call \ {cur[s]} : job'[c] = job[c]
    <3>1. UNCHANGED <<req, cur, run, co, fn, told>> /\ pc[s] # "lua"
      BY <1>3 DEF Submit
    <3>2. req[cur[s]].src = s
      BY <3>1, OneCaller
    <3>3. DOMAIN job = Call
      BY <1>0 DEF DbTypes
    <3>4. \E j : job' = [job EXCEPT ![cur[s]] = j]
      BY <1>3 DEF Submit, Goto
    <3> QED
      BY <3>1, <3>2, <3>3, <3>4
  <2> QED
    BY <2>1 DEF WaiterInv
<1>4. ASSUME NEW s \in Service, NoteFn(s) PROVE WaiterInv'
  <2>1. /\ UNCHANGED <<req, run, co, job, told>> /\ fn \subseteq fn'
        /\ req[cur[s]].form # "co"
        /\ req[cur[s]].form = "fn" => cur[s] \in fn'
        /\ \A u : u # s => cur'[u] = cur[u]
    BY <1>0, <1>4 DEF NoteFn, Return, dbVars, LuaTypes
  <2> QED
    BY <2>1 DEF WaiterInv
<1>5. ASSUME NEW s \in Service, Suspend(s) PROVE WaiterInv'
  <2> DEFINE d == cur[s]
  <2>1. /\ UNCHANGED <<req, fn, job, told>> /\ req[d].form = "co" /\ d \in Call
        /\ told[d] = "none" /\ req[d].src = s
    BY <1>5, OneCaller DEF Suspend, CallerInv, dbVars
  <2>2. \A u : u # s => cur'[u] = cur[u] /\ run'[u] = run[u]
    BY <1>0, <1>5 DEF Suspend, Return, LuaTypes
  <2>3. co'[d] # None
    <3>1. Waiting(s) \in Waiter
      BY <1>0 DEF Waiting, Waiter, LuaTypes
    <3>2. co'[d] = Waiting(s)
      <4>1. co' = [c \in Call |-> CASE c = cur[s] -> Waiting(s)
                                    [] c = run[s].coStop -> None
                                    [] OTHER -> co[c]]
        BY <1>5 DEF Suspend
      <4> HIDE DEF d
      <4>2. d \in Call /\ d = cur[s]
        BY <2>1 DEF d
      <4>3. co'[d] = CASE d = cur[s] -> Waiting(s)
                       [] d = run[s].coStop -> None
                       [] OTHER -> co[d]
        BY <4>1, <4>2, Zenon
      <4>4. d # run[s].coStop
        BY <2>1, <4>2 DEF LeftInv
      <4> QED
        BY <4>2, <4>3, <4>4
    <3> QED
      BY <1>0, <3>1, <3>2
  <2>4. \A c \in Call \ {d} : co'[c] = IF c = run[s].coStop THEN None ELSE co[c]
    BY <1>5 DEF Suspend
  <2>5. run[s].coStop \in Call => told[run[s].coStop] # "none"
    BY DEF LeftInv
  <2> QED
    BY <2>1, <2>2, <2>3, <2>4, <2>5 DEF WaiterInv
<1>6. ASSUME NEW s \in Service, NEW raises \in BOOLEAN, Stop(s, raises)
      PROVE  WaiterInv'
  <2>1. /\ UNCHANGED <<req, cur, job, told>>
        /\ \A u : u # s => run'[u] = run[u]
        /\ \A c \in Call : co'[c] = IF c = run[s].coStop THEN None ELSE co[c]
        /\ \A c \in Call : c \in fn /\ c \notin fn' => c = run[s].fnEnd
    BY <1>0, <1>6 DEF Stop, dbVars, LuaTypes
  <2>2. \A c \in Call : c = run[s].fnEnd \/ c = run[s].coStop => told[c] # "none"
    BY DEF LeftInv
  <2> QED
    BY <2>1, <2>2 DEF WaiterInv
<1>7. ASSUME NEW s \in Service, Handle(s) PROVE WaiterInv'
  <2> DEFINE d == Head(mail[s]).call
  <2>1. /\ UNCHANGED <<req, cur, co, fn, job>> /\ run[s].coStop = None
        /\ \A u : u # s => run'[u] = run[u]
    BY <1>0, <1>7 DEF Handle, dbVars, LuaTypes
  <2>2. /\ d \in Call /\ req[d].src = s
        /\ \A c \in Call \ {d} : told'[c] = told[c]
    BY <1>7, HandleMail DEF Settled
  <2>3. /\ co[d] # None => run'[s].coStop = d
        /\ co[d] = None /\ d \notin fn => told' = told
        /\ co[d] # None \/ d \in fn => told'[d] # "none"
    BY <1>0, <1>7, <2>2 DEF Handle, LuaTypes, TypeOK
  <2>4. ASSUME NEW c \in Call \ {d}
        PROVE  /\ job[c].phase # "none" /\ told[c] = "none" /\ cur[req[c].src] # c =>
                    /\ req[c].form = "co" => co[c] # None
                    /\ req[c].form = "fn" => c \in fn
               /\ co[c] # None /\ told[c] # "none" => run'[req[c].src].coStop = c
    BY <1>0, <2>1 DEF WaiterInv
  <2> QED
    BY <2>1, <2>2, <2>3, <2>4 DEF WaiterInv
<1>8. ASSUME NEW c \in Call, DbWork(c) \/ LateEffect(c) PROVE WaiterInv'
  <2>1. /\ UNCHANGED <<req, cur, run, co, fn, told>> /\ job[c].phase # "none"
        /\ \A d \in Call \ {c} : job'[d] = job[d]
    BY <1>0, <1>8 DEF DbWork, Single, BeginTx, Statement, Commit, LateEffect, Goto,
                      RunTx, luaVars, DbTypes
  <2> QED
    BY <2>1 DEF WaiterInv
<1>9. CASE UNCHANGED <<req, cur, run, co, fn, job, told>>
  BY <1>9 DEF WaiterInv
<1> QED
  BY <1>1, <1>2, <1>3, <1>4, <1>5, <1>6, <1>7, <1>8, <1>9
     DEF Next, Work, Find, Create, Destroy, vars, luaVars, dbVars

-----------------------------------------------------------------------------
LEMMA InitInv == Init => SqlInv
<1> SUFFICES ASSUME Init PROVE SqlInv
  OBVIOUS
<1> USE DEF Init
<1>0. MaxCall \in Nat /\ MaxStatement \in Nat /\ None \notin Call
  BY SqlAssumption
<1>1. TypeOK
  <2>1. <<>> \in Seq(Answers)
    OBVIOUS
  <2> QED
    BY <1>0, <2>1 DEF TypeOK, LuaTypes, DbTypes, Off
<1>2. AskedInv
  <2>1. {c \in Call : req[c] # None} = 1..0
    OBVIOUS
  <2> QED
    BY <1>0, <2>1 DEF AskedInv
<1>3. MailInv
  BY DEF MailInv
<1> QED
  BY <1>0, <1>1, <1>2, <1>3 DEF SqlInv, OnePool, CallerInv, JobInv, LeftInv, WaiterInv, Off

\* The types and the invariants that follow hold in every state; none is
\* preserved by every step without the others.
THEOREM SqlInvariant == Spec => []SqlInv
<1>1. SqlInv /\ [Next]_vars => SqlInv'
  BY StepTyped, StepOnePool, StepAsked, StepCaller, StepJob, StepMail, StepLeft,
     StepWaiter DEF SqlInv
<1> QED
  BY InitInv, <1>1, PTL DEF Spec

\* Types; the statement that is sent is one of the transaction's list, and a
\* service in a call runs a coroutine (MFLuaSql.lua, runTx).
THEOREM SqlTypes == Spec => []TypeOK
<1>1. SqlInv => TypeOK
  BY DEF SqlInv
<1> QED
  BY SqlInvariant, <1>1, PTL

\* Services that use a database for the first time at once make one pool for it
\* (MFSqlPoolManager::getConnectPool).
THEOREM OnePoolAlways == Spec => []OnePool
<1>1. SqlInv => OnePool
  BY DEF SqlInv
<1> QED
  BY SqlInvariant, <1>1, PTL

\* However early the database answers, and whatever calls the handlers of
\* earlier answers make, an answer finds what waits for its session (onQueryCallBack,
\* onExecuteCallBack).
THEOREM AnswersFindWaiters == Spec => []AnswerFindsItsWaiter
<1>1. SqlInv => AnswerFindsItsWaiter
  <2> SUFFICES ASSUME SqlInv PROVE AnswerFindsItsWaiter
    OBVIOUS
  <2>1. ASSUME NEW s \in Service, NEW i \in DOMAIN mail[s]
        PROVE  LET c == mail[s][i].call IN
                 /\ c \in Call /\ req[c].src = s
                 /\ job[c].phase # "none" /\ told[c] = "none"
    BY <2>1, MailTyped DEF SqlInv, Settled
  <2> QED
    BY <2>1 DEF SqlInv, AnswerFindsItsWaiter, WaiterInv
<1> QED
  BY SqlInvariant, <1>1, PTL

-----------------------------------------------------------------------------
Asked == {c \in Call : req[c] # None}
Done == {c \in Call : req[c] # None /\ effect[c] = req[c].size /\ req[c].size > 0}

\* The whole of a call takes effect in one step of the database.
LEMMA DoneStep ==
  ASSUME TypeOK, JobInv, NEW c \in Call, DbWork(c) \/ LateEffect(c)
  PROVE  [SqlCall!Next]_(SqlCall!callVars)
<1>0. DbTypes
  BY DEF TypeOK
<1>1. /\ UNCHANGED <<req, told>> /\ req[c] # None /\ effect[c] = 0
      /\ \A d \in Call \ {c} : effect'[d] = effect[d]
      /\ effect'[c] \in {0, req[c].size}
  <2>0. req[c] \in Request /\ req[c].size \in Nat
    <3>1. job[c].phase # "none"
      BY DEF DbWork, Single, BeginTx, Statement, Commit, LateEffect
    <3>2. req[c] \in Request
      BY <1>0, <3>1 DEF DbTypes, TypeOK
    <3> QED
      BY <3>2, RequestTyped, SqlAssumption
  <2>1. CASE LateEffect(c)
    BY <1>0, <2>0, <2>1 DEF LateEffect, DbTypes, JobInv
  <2>2. ASSUME NEW ok \in BOOLEAN, Single(c, ok) PROVE <1>1
    BY <1>0, <2>0, <2>2 DEF Single, DbTypes, JobInv
  <2>3. ASSUME NEW ok \in BOOLEAN, Commit(c, ok) PROVE <1>1
    BY <1>0, <2>0, <2>3 DEF Commit, DbTypes, JobInv
  <2>4. ASSUME NEW ok \in BOOLEAN, BeginTx(c, ok) \/ Statement(c, ok) PROVE <1>1
    BY <1>0, <2>4 DEF BeginTx, Statement, DbTypes, JobInv
  <2> QED
    BY <2>1, <2>2, <2>3, <2>4 DEF DbWork
<1>2. /\ Asked' = Asked /\ c \in Asked
      /\ \/ Done' = Done
         \/ c \notin Done /\ Done' = Done \cup {c}
  <2>1. Asked' = Asked /\ c \in Asked
    BY <1>1 DEF Asked
  <2>2. \A d \in Call \ {c} : d \in Done' <=> d \in Done
    BY <1>1 DEF Done
  <2>3. c \notin Done /\ Done \subseteq Call /\ Done' \subseteq Call
    BY <1>1 DEF Done
  <2>4. Done' = Done \/ Done' = Done \cup {c}
    BY <2>2, <2>3
  <2> QED
    BY <2>1, <2>3, <2>4
<1> QED
  BY <1>1, <1>2 DEF SqlCall!Next, SqlCall!Do, SqlCall!callVars, Asked, Done

\* A call is asked for once.
LEMMA AskStep ==
  ASSUME TypeOK, AskedInv, JobInv, NEW s \in Service, NEW r \in Request, Ask(s, r)
  PROVE  [SqlCall!Next]_(SqlCall!callVars)
<1> DEFINE c == Cardinality({d \in Call : req[d] # None}) + 1
<1> HIDE DEF c
<1>1. /\ c \in Call /\ req' = [req EXCEPT ![c] = r]
      /\ UNCHANGED <<effect, told>>
  BY DEF Ask, c, dbVars
<1>2. req[c] = None /\ r # None
  BY <1>1, NextCall, RequestTyped DEF c
<1>3. effect[c] = 0
  BY <1>1, <1>2 DEF TypeOK, DbTypes, JobInv
<1>4. Asked' = Asked \cup {c} /\ c \notin Asked
  BY <1>1, <1>2 DEF TypeOK, Asked
<1>5. Done' = Done
  BY <1>1, <1>2, <1>3 DEF TypeOK, Done
<1> QED
  BY <1>1, <1>4, <1>5 DEF SqlCall!Next, SqlCall!Ask, SqlCall!callVars, Asked, Done

\* The caller is told once, of success when the call is done.
LEMMA TellStep ==
  ASSUME TypeOK, MailInv, NEW s \in Service, Handle(s)
  PROVE  [SqlCall!Next]_(SqlCall!callVars)
<1> DEFINE m == Head(mail[s])
           c == m.call
<1>1. m \in Answers /\ c \in Call /\ Settled(s, m)
  BY HandleMail
<1>2. UNCHANGED <<req, effect>>
  BY DEF Handle, dbVars
<1>4. Asked' = Asked /\ Done' = Done /\ c \in Asked /\ told[c] = "none"
      /\ (m.ok => c \in Done) /\ m.ok \in BOOLEAN
  BY <1>1, <1>2 DEF Asked, Done, Settled, Answers
<1>3. told' = told \/ told' = [told EXCEPT ![c] = IF m.ok THEN "ok" ELSE "failed"]
  BY <1>4 DEF Handle
<1> HIDE DEF m, c
<1>5. CASE told' = told
  BY <1>4, <1>5 DEF SqlCall!callVars, Asked, Done
<1>6. CASE told' = [told EXCEPT ![c] = IF m.ok THEN "ok" ELSE "failed"]
  BY <1>1, <1>4, <1>6 DEF SqlCall!Next, SqlCall!Tell, SqlCall!callVars, Asked, Done
<1> QED
  BY <1>3, <1>5, <1>6

\* Every call takes effect as a whole, at most once, and its caller is told at
\* most once, of success only after the effect, commit included (executeTransaction
\* of MFLuaSql, runTx of MFSqlConnectPool).
THEOREM SqlImplementsCall == Spec => ImplementsCall
<1>1. Init => SqlCall!Init
  BY DEF Init, SqlCall!Init
<1>2. SqlInv /\ [Next]_vars => [SqlCall!Next]_(SqlCall!callVars)
  <2> SUFFICES ASSUME SqlInv, [Next]_vars PROVE [SqlCall!Next]_(SqlCall!callVars)
    OBVIOUS
  <2>1. CASE UNCHANGED <<req, effect, told>>
    <3>1. Asked' = Asked /\ Done' = Done
      BY <2>1 DEF Asked, Done
    <3> QED
      BY <2>1, <3>1 DEF SqlCall!callVars, Asked, Done
  <2> QED
    BY <2>1, DoneStep, AskStep, TellStep
       DEF SqlInv, Next, Work, Begin, Find, Create, Submit, NoteFn, Suspend, Stop,
           Destroy, vars, dbVars
<1> QED
  BY SqlInvariant, <1>1, <1>2, PTL DEF Spec, ImplementsCall, SqlCall!Spec
=============================================================================
