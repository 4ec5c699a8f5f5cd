---------------------------- MODULE MFSqlSession ----------------------------
(***************************************************************************)
(* SQL calls: from MFLuaSql through MFSqlPoolManager and MFSqlConnectPool  *)
(* to the database and back, as a message, to the coroutine or function    *)
(* that waits for the session.                                             *)
(*                                                                         *)
(* A service runs one coroutine at a time; it takes the next message when  *)
(* that has ended or has suspended itself.  The database answers on its    *)
(* own threads, which can be before the caller has noted its session.      *)
(* drogon's client is external: it reports a result or an error for each   *)
(* statement, and a failed commit, or a single statement that failed, may  *)
(* still take effect (the connection broke after the server had it).       *)
(***************************************************************************)
EXTENDS Naturals, Sequences, FiniteSets

CONSTANTS
  Service,
  Db,            \* the keys that services pass
  Configured,    \* those the table MFSqlConfig has
  MaxCall,       \* bound: calls made, by all services
  MaxStatement,  \* bound: the length of a transaction
  None

\* Calls stand for their session numbers: genSessionId never gives one twice.
Call == 1..MaxCall

\* The functions of MFLuaSql: the coroutine ones, transactions among them, the
\* ones with a callback, and executeAsyncCall without one.
Request ==
  [src : Service, db : Db, tx : {FALSE}, form : {"co", "fn", "none"}, size : {1}]
    \cup [src : Service, db : Db, tx : {TRUE}, form : {"co"}, size : 0..MaxStatement]

\* What coMap keeps of a coroutine, see Waiting.
Waiter == [fnEnd : Call \cup {None}]

ASSUME SqlAssumption ==
  /\ Configured \subseteq Db
  /\ MaxCall \in Nat /\ MaxStatement \in Nat \ {0}
  /\ None \notin Call \cup Request \cup Waiter

VARIABLES
  req,     \* what each call asks for, None before it is made
  pc,      \* where the service is in the call, "lua" outside
  cur,     \* the call it is making
  run,     \* the coroutine the service is running
  co,      \* coMap: None or the coroutine that waits, by session
  fn,      \* the sessions in sqlAsyncMapFn
  pools,   \* the keys in m_sqlPoolMap
  made,    \* how many pools there are for a key
  job,     \* the call at the database: its phase and the statement it is at
  effect,  \* how often a statement of it took effect
  mail,    \* answers in the message queue of a service
  told,    \* history: what the caller was told, "again" if more than once
  up       \* the process has not come to its end

luaVars == <<pc, cur, run, co, fn>>
poolVars == <<pools, made>>
dbVars == <<job, effect>>
vars == <<req, luaVars, poolVars, dbVars, mail, told, up>>

\* A coroutine runs with what is left to do after it: fnEnd, the entry of
\* sqlAsyncMapFn whose function it runs, is erased when that returns; coStop,
\* the entry of coMap it was resumed from, when it stops, whatever for.
Off == [on |-> FALSE, fnEnd |-> None, coStop |-> None]

Init ==
  /\ req = [c \in Call |-> None]
  /\ pc = [s \in Service |-> "lua"]
  /\ cur = [s \in Service |-> None]
  /\ run = [s \in Service |-> Off]
  /\ co = [c \in Call |-> None]
  /\ fn = {}
  /\ pools = {}
  /\ made = [k \in Db |-> 0]
  /\ job = [c \in Call |-> [phase |-> "none", at |-> 0]]
  /\ effect = [c \in Call |-> 0]
  /\ mail = [s \in Service |-> <<>>]
  /\ told = [c \in Call |-> "none"]
  /\ up = TRUE

-----------------------------------------------------------------------------
(* The caller, on a worker *)

\* Some other message starts a coroutine.
Begin(s) ==
  /\ up /\ ~run[s].on
  /\ run' = [run EXCEPT ![s] = [Off EXCEPT !.on = TRUE]]
  /\ UNCHANGED <<req, pc, cur, co, fn, poolVars, dbVars, mail, told, up>>

\* A function of MFLuaSql is called.
Ask(s, r) ==
  /\ run[s].on /\ pc[s] = "lua" /\ r.src = s
  /\ LET c == Cardinality({d \in Call : req[d] # None}) + 1 IN
       /\ c \in Call
       /\ req' = [req EXCEPT ![c] = r]
       /\ cur' = [cur EXCEPT ![s] = c]
  /\ pc' = [pc EXCEPT ![s] = "find"]
  /\ UNCHANGED <<run, co, fn, poolVars, dbVars, mail, told, up>>

\* The first look of getConnectPool.
Find(s) ==
  /\ pc[s] = "find"
  /\ pc' = [pc EXCEPT ![s] =
              IF req[cur[s]].db \in pools THEN "submit" ELSE "create"]
  /\ UNCHANGED <<req, cur, run, co, fn, poolVars, dbVars, mail, told, up>>

Add(k) ==
  /\ pools' = pools \cup {k}
  /\ made' = [made EXCEPT ![k] = @ + 1]

\* Mutant: the map is not looked at again.
CreateBlind(s) ==
  /\ pc[s] = "create"
  /\ LET k == req[cur[s]].db IN
       IF k \in Configured
         THEN Add(k) /\ pc' = [pc EXCEPT ![s] = "submit"]
         ELSE UNCHANGED poolVars /\ pc' = [pc EXCEPT ![s] = "note"]
  /\ UNCHANGED <<req, cur, run, co, fn, dbVars, mail, told, up>>

\* The rest, in m_createLock; without a configuration the call gets a session
\* and nothing else happens.
Create(s) ==
  /\ pc[s] = "create"
  /\ LET k == req[cur[s]].db IN
       \/ /\ k \in pools
          /\ pc' = [pc EXCEPT ![s] = "submit"]
          /\ UNCHANGED poolVars
       \/ /\ k \notin pools /\ k \in Configured
          /\ Add(k)
          /\ pc' = [pc EXCEPT ![s] = "submit"]
       \/ /\ k \notin pools /\ k \notin Configured
          /\ pc' = [pc EXCEPT ![s] = "note"]
          /\ UNCHANGED poolVars
  /\ UNCHANGED <<req, cur, run, co, fn, dbVars, mail, told, up>>

\* dispatchQuery and dispatchExecute.
Answer(c, ok) ==
  mail' = [mail EXCEPT ![req[c].src] = Append(@, [call |-> c, ok |-> ok])]

Goto(c, phase, at) == job' = [job EXCEPT ![c] = [phase |-> phase, at |-> at]]

\* Mutant: an empty transaction is dropped without a word.
SubmitSilent(s) ==
  /\ pc[s] = "submit"
  /\ LET c == cur[s] IN
       IF req[c].tx /\ req[c].size = 0
         THEN Goto(c, "over", 0)
         ELSE Goto(c, IF req[c].tx THEN "begin" ELSE "single", 0)
  /\ pc' = [pc EXCEPT ![s] = "note"]
  /\ UNCHANGED <<req, cur, run, co, fn, poolVars, effect, mail, told, up>>

\* execSql or executeAsyncTransaction of the pool.
Submit(s) ==
  /\ pc[s] = "submit"
  /\ LET c == cur[s] IN
       IF req[c].tx /\ req[c].size = 0
         THEN Goto(c, "over", 0) /\ Answer(c, FALSE)
         ELSE /\ Goto(c, IF req[c].tx THEN "begin" ELSE "single", 0)
              /\ UNCHANGED mail
  /\ pc' = [pc EXCEPT ![s] = "note"]
  /\ UNCHANGED <<req, cur, run, co, fn, poolVars, effect, told, up>>

Return(s) ==
  /\ pc' = [pc EXCEPT ![s] = "lua"]
  /\ cur' = [cur EXCEPT ![s] = None]

\* sqlAsyncMapFn[sessionId] = fn, if there is one; the caller goes on.
NoteFn(s) ==
  /\ pc[s] = "note" /\ req[cur[s]].form # "co"
  /\ fn' = IF req[cur[s]].form = "fn" THEN fn \cup {cur[s]} ELSE fn
  /\ Return(s)
  /\ UNCHANGED <<req, run, co, poolVars, dbVars, mail, told, up>>

Waiting(s) == [fnEnd |-> run[s].fnEnd]

\* Mutant: the entry that is erased is that of the new session.
SuspendErasesNew(s) ==
  /\ pc[s] = "note" /\ req[cur[s]].form = "co"
  /\ co' = IF run[s].coStop = None THEN [co EXCEPT ![cur[s]] = Waiting(s)] ELSE co
  /\ run' = [run EXCEPT ![s] = Off]
  /\ Return(s)
  /\ UNCHANGED <<req, fn, poolVars, dbVars, mail, told, up>>

\* coMap[sessionId] = coroutineRunning() and coroutineYield; whoever had resumed
\* this coroutine goes on and erases the session it was resumed with.
Suspend(s) ==
  /\ pc[s] = "note" /\ req[cur[s]].form = "co"
  /\ co' = [c \in Call |-> CASE c = cur[s] -> Waiting(s)
                             [] c = run[s].coStop -> None
                             [] OTHER -> co[c]]
  /\ run' = [run EXCEPT ![s] = Off]
  /\ Return(s)
  /\ UNCHANGED <<req, fn, poolVars, dbVars, mail, told, up>>

\* The coroutine returns, or raises: then the entry of its function stays.
Stop(s, raises) ==
  /\ run[s].on /\ pc[s] = "lua"
  /\ co' = [c \in Call |-> IF c = run[s].coStop THEN None ELSE co[c]]
  /\ fn' = IF raises THEN fn ELSE fn \ {run[s].fnEnd}
  /\ run' = [run EXCEPT ![s] = Off]
  /\ UNCHANGED <<req, pc, cur, poolVars, dbVars, mail, told, up>>

\* onQueryCallBack and onExecuteCallBack, as far as the resumed coroutine or
\* the function; without either the answer is dropped.
Handle(s) ==
  /\ up /\ ~run[s].on /\ mail[s] # <<>>
  /\ LET m == Head(mail[s])  c == m.call IN
       /\ mail' = [mail EXCEPT ![s] = Tail(@)]
       /\ told' = IF co[c] # None \/ c \in fn
                    THEN [told EXCEPT ![c] = IF @ # "none" THEN "again"
                                             ELSE IF m.ok THEN "ok" ELSE "failed"]
                    ELSE told
       /\ run' = [run EXCEPT ![s] =
            IF co[c] # None
              THEN [on |-> TRUE, fnEnd |-> co[c].fnEnd, coStop |-> c]
              ELSE IF c \in fn THEN [on |-> TRUE, fnEnd |-> c, coStop |-> None]
              ELSE Off]
  /\ UNCHANGED <<req, pc, cur, co, fn, poolVars, dbVars, up>>

-----------------------------------------------------------------------------
(* The database, on the threads of drogon's client *)

\* The callbacks of execSql.
Single(c, ok) ==
  /\ up /\ job[c].phase = "single"
  /\ Goto(c, IF ok THEN "over" ELSE "limbo", 0)
  /\ effect' = [effect EXCEPT ![c] = @ + IF ok THEN 1 ELSE 0]
  /\ Answer(c, ok)
  /\ UNCHANGED <<req, luaVars, poolVars, told, up>>

\* The callback of newTransactionAsync, with or without a transaction.
BeginTx(c, ok) ==
  /\ up /\ job[c].phase = "begin"
  /\ IF ok THEN Goto(c, "statement", 1) /\ UNCHANGED mail
           ELSE Goto(c, "over", 0) /\ Answer(c, FALSE)
  /\ UNCHANGED <<req, luaVars, poolVars, effect, told, up>>

\* Mutant: one statement too many.
RunTxPast(c) ==
  IF job[c].at > req[c].size THEN Goto(c, "commit", 0)
                             ELSE Goto(c, "statement", job[c].at + 1)

\* runTx, for the statement after this one.
RunTx(c) ==
  IF job[c].at >= req[c].size THEN Goto(c, "commit", 0)
                              ELSE Goto(c, "statement", job[c].at + 1)

\* Mutant: the answer does not wait for the commit.
StatementAnswers(c, ok) ==
  /\ up /\ job[c].phase = "statement"
  /\ IF ok /\ job[c].at < req[c].size THEN RunTx(c) /\ UNCHANGED mail
                                      ELSE Goto(c, "limbo", 0) /\ Answer(c, ok)
  /\ UNCHANGED <<req, luaVars, poolVars, effect, told, up>>

\* The callbacks of a statement of a transaction.
Statement(c, ok) ==
  /\ up /\ job[c].phase = "statement"
  /\ IF ok THEN RunTx(c) /\ UNCHANGED mail
           ELSE Goto(c, "over", 0) /\ Answer(c, FALSE)
  /\ UNCHANGED <<req, luaVars, poolVars, effect, told, up>>

\* The commit callback.
Commit(c, ok) ==
  /\ up /\ job[c].phase = "commit"
  /\ Goto(c, IF ok THEN "over" ELSE "limbo", 0)
  /\ effect' = [effect EXCEPT ![c] = @ + IF ok THEN req[c].size ELSE 0]
  /\ Answer(c, ok)
  /\ UNCHANGED <<req, luaVars, poolVars, told, up>>

\* What was reported as failed takes effect after all.
LateEffect(c) ==
  /\ job[c].phase = "limbo"
  /\ Goto(c, "over", 0)
  /\ effect' = [effect EXCEPT ![c] = @ + req[c].size]
  /\ UNCHANGED <<req, luaVars, poolVars, mail, told, up>>

\* MFSqlPoolManager's destructor, after the workers have ended.
Destroy ==
  /\ up /\ \A s \in Service : ~run[s].on
  /\ up' = FALSE
  /\ pools' = {}
  /\ made' = [k \in Db |-> IF k \in pools THEN made[k] - 1 ELSE made[k]]
  /\ UNCHANGED <<req, luaVars, dbVars, mail, told>>


-----------------------------------------------------------------------------
Work(s) ==
  \/ Find(s) \/ Create(s) \/ Submit(s) \/ NoteFn(s) \/ Suspend(s)
  \/ \E raises \in BOOLEAN : Stop(s, raises)

DbWork(c) ==
  \E ok \in BOOLEAN :
    Single(c, ok) \/ BeginTx(c, ok) \/ Statement(c, ok) \/ Commit(c, ok)

Next ==
  \/ \E s \in Service :
       Begin(s) \/ (\E r \in Request : Ask(s, r)) \/ Work(s) \/ Handle(s)
  \/ \E c \in Call : DbWork(c) \/ LateEffect(c)
  \/ Destroy

Spec == Init /\ [][Next]_vars

\* Coroutines stop or suspend themselves; the message queue of a service is in
\* order, so that other messages (Begin) do not keep it from an answer for ever;
\* and the client reports something for every statement.
FairSpec ==
  /\ Spec
  /\ \A s \in Service : WF_vars(Work(s)) /\ SF_vars(Handle(s))
  /\ \A c \in Call : WF_vars(DbWork(c))

-----------------------------------------------------------------------------
LuaTypes ==
  /\ pc \in [Service -> {"lua", "find", "create", "submit", "note"}]
  /\ cur \in [Service -> Call \cup {None}]
  /\ run \in [Service -> [on : BOOLEAN, fnEnd : Call \cup {None},
                          coStop : Call \cup {None}]]
  /\ co \in [Call -> Waiter \cup {None}]
  /\ fn \subseteq Call
  /\ \A s \in Service :
       /\ pc[s] = "lua" <=> cur[s] = None
       /\ cur[s] # None => run[s].on /\ req[cur[s]] # None /\ req[cur[s]].src = s

DbTypes ==
  /\ job \in [Call -> [phase : {"none", "single", "begin", "statement", "commit",
                                "limbo", "over"}, at : 0..MaxStatement]]
  /\ effect \in [Call -> Nat]
  /\ \A c \in Call : /\ job[c].phase # "none" => req[c] # None
                     /\ job[c].phase = "statement" => job[c].at \in 1..req[c].size

Answers == [call : Call, ok : BOOLEAN]

\* Types; a statement that is sent is one of the transaction's list, and a
\* service in a call runs a coroutine.
TypeOK ==
  /\ req \in [Call -> Request \cup {None}]
  /\ LuaTypes
  /\ pools \subseteq Configured
  /\ made \in [Db -> Nat]
  /\ DbTypes
  /\ mail \in [Service -> Seq(Answers)]
  /\ told \in [Call -> {"none", "ok", "failed", "again"}]
  /\ up \in BOOLEAN

\* Services that use a database for the first time at once make one pool, and
\* the map has it: a second would double the connections and never be deleted.
OnePool == \A k \in Db : made[k] = IF k \in pools THEN 1 ELSE 0

\* An answer that is handled finds the coroutine or function that waits for its
\* session, however early it came and whatever calls the handlers of earlier
\* answers made; what waits was not told before.
AnswerFindsItsWaiter ==
  /\ \A s \in Service : \A i \in DOMAIN mail[s] :
       LET c == mail[s][i].call IN
         /\ req[c].src = s
         /\ cur[s] # c => /\ req[c].form = "co" => co[c] # None
                          /\ req[c].form = "fn" => c \in fn
  /\ \A c \in Call :
       co[c] # None /\ told[c] # "none" => run[req[c].src].coStop = c

\* The calls, as MFSqlCall sees them: an effect of some of the statements of a
\* list, or one counted twice, or a caller told "again", would map to nothing
\* that MFSqlCall has.
SqlCall == INSTANCE MFSqlCall WITH
  asked <- {c \in Call : req[c] # None},
  done <- {c \in Call : req[c] # None /\ effect[c] = req[c].size /\ req[c].size > 0},
  outcome <- told

\* Every call takes effect at most once and is told at most once, of success
\* only after the whole of it took effect, commit included.
ImplementsCall == SqlCall!Spec

\* A coroutine that waits for a database that is configured is resumed, unless
\* the process ends.  Without a configuration nothing is ever sent to it.
CallIsAnswered ==
  \A c \in Call :
    (co[c] # None /\ req[c].db \in Configured) ~> (told[c] # "none" \/ ~up)
=============================================================================
