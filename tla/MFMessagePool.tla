---------------------------- MODULE MFMessagePool ----------------------------
(***************************************************************************)
(* The life of a message object that goes to several services: sendMulti   *)
(* posts one MFMultiForwardMessage, nativeDispatchHotReload one            *)
(* MFHotReloadMessage.  The object is popped from its MFObjectPool, gets   *)
(* one reference per receiver, and every receiver calls reset() once it is *)
(* done with it: the last one wipes the object and pushes it back to the   *)
(* pool, from where any thread may pop it again.  A receiver that is not   *)
(* in the service map costs its reference at once; one that is destroyed   *)
(* resets what is left in its queue.                                       *)
(*                                                                         *)
(* MFScheduler shows that one worker at a time drains a service, so the    *)
(* worker of a service is here the service itself, and drains when it      *)
(* likes.  The payload of a broadcast is its number.                       *)
(***************************************************************************)
EXTENDS Integers, Sequences, FiniteSets

CONSTANTS
  Service,   \* the services that exist at first
  Sender,    \* threads that call sendMulti
  Watcher,   \* the thread of the file watch
  Multi,     \* bound: the MFMultiForwardMessage objects ever allocated
  Reload,    \* bound: the MFHotReloadMessage objects ever allocated
  MaxList,   \* bound: receivers of one broadcast
  MaxCalls,  \* bound: broadcasts
  RefSize,   \* 2^32: m_refCount is unsigned
  None

Object == Multi \cup Reload
Thread == Sender \cup {Watcher}
Process == Thread \cup Service

ASSUME PoolAssumption ==
  /\ MaxList \in Nat /\ MaxCalls \in Nat /\ RefSize \in Nat
  /\ MaxList < RefSize
  /\ Multi \cap Reload = {} /\ Thread \cap Service = {}
  /\ None \notin Process \cup Object

\* A queue entry: a pointer to an object, and for the properties the broadcast
\* it was pushed for.  The close message is an entry without an object.
Entry == [obj : Object, call : 1..MaxCalls]
Close == [obj |-> None, call |-> 0]

VARIABLES
  made,        \* objects that new has returned
  pool,        \* how often the object is in its pool
  refCount,    \* m_refCount
  payload,     \* m_data, or m_module: the broadcast it belongs to, 0 if wiped
  queue,       \* m_luaMessageQueue of a service
  serviceMap,  \* m_serviceMap
  closing,     \* services whose close message has been pushed
  gone,        \* services whose destructor has begun
  pc,          \* where a thread is in its broadcast, a service in singleMessage
  entry,       \* the object and broadcast a process is busy with
  list,        \* the receivers a thread has still to visit
  target,      \* the service it is pushing to
  calls,       \* broadcasts so far
  size,        \* history: the receivers of the object's last broadcast
  lost         \* history: references that were pushed to a deleted service

vars == <<made, pool, refCount, payload, queue, serviceMap, closing, gone, pc,
          entry, list, target, calls, size, lost>>

\* The threads' own variables, the objects' fields and the services' state.
threadVars == <<list, target, calls>>
objectVars == <<made, pool, refCount, payload, size>>
serviceVars == <<queue, serviceMap, closing, gone, lost>>

Init ==
  /\ made = {}
  /\ pool = [o \in Object |-> 0]
  /\ refCount = [o \in Object |-> 0]
  /\ payload = [o \in Object |-> 0]
  /\ queue = [s \in Service |-> <<>>]
  /\ serviceMap = Service
  /\ closing = {}
  /\ gone = {}
  /\ pc = [p \in Process |-> "idle"]
  /\ entry = [p \in Process |-> Close]
  /\ list = [t \in Thread |-> <<>>]
  /\ target = [t \in Thread |-> None]
  /\ calls = 0
  /\ size = [o \in Object |-> 0]
  /\ lost = [o \in Object |-> 0]

Goto(p, place) == pc' = [pc EXCEPT ![p] = place]

-----------------------------------------------------------------------------
(***************************************************************************)
(* A broadcast.                                                            *)
(***************************************************************************)
\* A Lua list may name a service twice and may be empty; the name map's values
\* are the ids of different services, some of them perhaps closed.
Lists(t) ==
  LET all == UNION {[1..n -> Service] : n \in 0..MaxList} IN
  IF t = Watcher
    THEN {l \in all : \A i, j \in DOMAIN l : l[i] = l[j] => i = j}
    ELSE all

\* pop: an object of the pool, or a new one if try_dequeue finds none, which it
\* may do while another thread is pushing.
Pop(t, o) ==
  /\ pc[t] = "idle"
  /\ calls < MaxCalls
  /\ o \in IF t = Watcher THEN Reload ELSE Multi
  /\ \/ pool[o] > 0 /\ pool' = [pool EXCEPT ![o] = @ - 1] /\ UNCHANGED made
     \/ o \notin made /\ made' = made \cup {o} /\ UNCHANGED pool
  /\ calls' = calls + 1
  /\ entry' = [entry EXCEPT ![t] = [obj |-> o, call |-> calls + 1]]
  /\ list' \in {[list EXCEPT ![t] = l] : l \in Lists(t)}
  /\ Goto(t, "fill")
  /\ UNCHANGED <<refCount, payload, size, target, serviceVars>>

\* Mutant: the count of the receivers but one.
FillShort(t) ==
  LET o == entry[t].obj IN
  /\ pc[t] = "fill"
  /\ refCount' = [refCount EXCEPT ![o] = IF list[t] = <<>> THEN 0 ELSE Len(list[t]) - 1]
  /\ payload' = [payload EXCEPT ![o] = entry[t].call]
  /\ size' = [size EXCEPT ![o] = Len(list[t])]
  /\ Goto(t, "visit")
  /\ UNCHANGED <<made, pool, entry, threadVars, serviceVars>>

\* The setters between pop and the loop: setRefCount(size), setData, setModule.
Fill(t) ==
  LET o == entry[t].obj IN
  /\ pc[t] = "fill"
  /\ refCount' = [refCount EXCEPT ![o] = Len(list[t])]
  /\ payload' = [payload EXCEPT ![o] = entry[t].call]
  /\ size' = [size EXCEPT ![o] = Len(list[t])]
  /\ Goto(t, "visit")
  /\ UNCHANGED <<made, pool, entry, threadVars, serviceVars>>

\* Mutant: a receiver that is not in the map is skipped without a reset.
VisitNoReset(t) ==
  /\ pc[t] = "visit"
  /\ list[t] # <<>>
  /\ list' = [list EXCEPT ![t] = Tail(@)]
  /\ IF Head(list[t]) \in serviceMap
       THEN Goto(t, "push") /\ target' = [target EXCEPT ![t] = Head(list[t])]
       ELSE UNCHANGED <<pc, target>>
  /\ UNCHANGED <<entry, calls, objectVars, serviceVars>>

\* One turn of the loop up to getService's answer.
Visit(t) ==
  /\ pc[t] = "visit"
  /\ list[t] # <<>>
  /\ list' = [list EXCEPT ![t] = Tail(@)]
  /\ IF Head(list[t]) \in serviceMap
       THEN Goto(t, "push") /\ target' = [target EXCEPT ![t] = Head(list[t])]
       ELSE Goto(t, "release") /\ UNCHANGED target
  /\ UNCHANGED <<entry, calls, objectVars, serviceVars>>

\* pushMessage to the service that was found; it may have been deleted since,
\* and then the entry goes nowhere.  The queue's push is two steps, and the
\* consumer reaches an entry after the second.
Push(t) ==
  LET s == target[t] IN
  /\ pc[t] = "push"
  /\ IF pc[s] = "freed"
       THEN lost' = [lost EXCEPT ![entry[t].obj] = @ + 1] /\ UNCHANGED queue
       ELSE queue' = [queue EXCEPT ![s] = Append(@, entry[t])] /\ UNCHANGED lost
  /\ Goto(t, "link")
  /\ UNCHANGED <<serviceMap, closing, gone, entry, threadVars, objectVars>>

Link(t) ==
  /\ pc[t] = "link"
  /\ target' = [target EXCEPT ![t] = None]
  /\ Goto(t, "visit")
  /\ UNCHANGED <<entry, list, calls, objectVars, serviceVars>>

Return(t) ==
  /\ pc[t] = "visit"
  /\ list[t] = <<>>
  /\ entry' = [entry EXCEPT ![t] = Close]
  /\ Goto(t, "idle")
  /\ UNCHANGED <<threadVars, objectVars, serviceVars>>

-----------------------------------------------------------------------------
(***************************************************************************)
(* reset().                                                                *)
(***************************************************************************)
\* Where the caller of reset goes on: the loop of the broadcast, the loop of
\* singleMessage, or that of the destructor.
Resume(p) ==
  IF p \in Thread THEN "visit" ELSE IF p \in gone THEN "drop" ELSE "idle"

\* Mutant: the last reference is one too late.
ReleaseLate(p) ==
  LET o == entry[p].obj IN
  /\ pc[p] = "release"
  /\ refCount' = [refCount EXCEPT ![o] = IF @ = 0 THEN RefSize - 1 ELSE @ - 1]
  /\ Goto(p, IF refCount[o] = 0 THEN "recycle" ELSE Resume(p))
  /\ UNCHANGED <<made, pool, payload, size, entry, threadVars, serviceVars>>

\* --m_refCount == 0
Release(p) ==
  LET o == entry[p].obj IN
  /\ pc[p] = "release"
  /\ refCount' = [refCount EXCEPT ![o] = IF @ = 0 THEN RefSize - 1 ELSE @ - 1]
  /\ Goto(p, IF refCount[o] = 1 THEN "recycle" ELSE Resume(p))
  /\ UNCHANGED <<made, pool, payload, size, entry, threadVars, serviceVars>>

\* The two statements of the last reset: a multi message frees its data and is
\* pushed then, a reload message is pushed and forgets its module then.
Wipe(o) == payload' = [payload EXCEPT ![o] = 0] /\ UNCHANGED pool
PushBack(o) == pool' = [pool EXCEPT ![o] = @ + 1] /\ UNCHANGED payload

\* Mutant: a multi message is pushed first as well.
RecycleEarly(p) ==
  LET o == entry[p].obj IN
  /\ pc[p] = "recycle"
  /\ PushBack(o)
  /\ Goto(p, "finish")
  /\ UNCHANGED <<made, refCount, size, entry, threadVars, serviceVars>>

Recycle(p) ==
  LET o == entry[p].obj IN
  /\ pc[p] = "recycle"
  /\ IF o \in Multi THEN Wipe(o) ELSE PushBack(o)
  /\ Goto(p, "finish")
  /\ UNCHANGED <<made, refCount, size, entry, threadVars, serviceVars>>

Finish(p) ==
  LET o == entry[p].obj IN
  /\ pc[p] = "finish"
  /\ IF o \in Multi THEN PushBack(o) ELSE Wipe(o)
  /\ Goto(p, Resume(p))
  /\ UNCHANGED <<made, refCount, size, entry, threadVars, serviceVars>>

-----------------------------------------------------------------------------
(***************************************************************************)
(* Services.                                                               *)
(***************************************************************************)
\* try_dequeue reaches the head.
HeadVisible(s) ==
  /\ queue[s] # <<>>
  /\ ~\E t \in Thread :
        pc[t] = "link" /\ target[t] = s /\ entry[t] = Head(queue[s])

\* singleMessage takes a message: its handler runs until EndHandle ...
Dequeue(s) ==
  /\ pc[s] = "idle"
  /\ s \notin gone
  /\ HeadVisible(s)
  /\ Head(queue[s]) # Close
  /\ entry' = [entry EXCEPT ![s] = Head(queue[s])]
  /\ queue' = [queue EXCEPT ![s] = Tail(@)]
  /\ Goto(s, "handle")
  /\ UNCHANGED <<serviceMap, closing, gone, lost, threadVars, objectVars>>

\* ... and processMessage resets the message, whether it raised or not.
EndHandle(s) ==
  /\ pc[s] = "handle"
  /\ Goto(s, "release")
  /\ UNCHANGED <<entry, threadVars, objectVars, serviceVars>>

\* closeService: the close message, and a little later the erase.
CloseService(s) ==
  /\ s \in serviceMap \ closing
  /\ queue' = [queue EXCEPT ![s] = Append(@, Close)]
  /\ closing' = closing \cup {s}
  /\ UNCHANGED <<serviceMap, gone, lost, pc, entry, threadVars, objectVars>>

EraseService(s) ==
  /\ s \in closing \cap serviceMap
  /\ serviceMap' = serviceMap \ {s}
  /\ UNCHANGED <<queue, closing, gone, lost, pc, entry, threadVars, objectVars>>

\* The close message ends the loop, and the destructor resets what is behind
\* it.  A sender that found the service before may still push.
DequeueClose(s) ==
  /\ pc[s] = "idle"
  /\ s \notin gone
  /\ HeadVisible(s)
  /\ Head(queue[s]) = Close
  /\ queue' = [queue EXCEPT ![s] = Tail(@)]
  /\ gone' = gone \cup {s}
  /\ Goto(s, "drop")
  /\ UNCHANGED <<serviceMap, closing, lost, entry, threadVars, objectVars>>

Drop(s) ==
  /\ pc[s] = "drop"
  /\ HeadVisible(s)
  /\ entry' = [entry EXCEPT ![s] = Head(queue[s])]
  /\ queue' = [queue EXCEPT ![s] = Tail(@)]
  /\ Goto(s, "release")
  /\ UNCHANGED <<serviceMap, closing, gone, lost, threadVars, objectVars>>

\* Mutant: the destructor drops the queue and resets nothing.
FreeUndrained(s) ==
  /\ pc[s] = "drop"
  /\ queue' = [queue EXCEPT ![s] = <<>>]
  /\ Goto(s, "freed")
  /\ UNCHANGED <<serviceMap, closing, gone, lost, entry, threadVars, objectVars>>

\* What the destructor cannot reach goes down with the queue.
Free(s) ==
  /\ pc[s] = "drop"
  /\ ~HeadVisible(s)
  /\ lost' = [o \in Object |-> lost[o] +
                Cardinality({i \in 1..Len(queue[s]) : queue[s][i].obj = o})]
  /\ queue' = [queue EXCEPT ![s] = <<>>]
  /\ Goto(s, "freed")
  /\ UNCHANGED <<serviceMap, closing, gone, entry, threadVars, objectVars>>

Next ==
  \/ \E t \in Thread :
       \/ \E o \in Object : Pop(t, o)
       \/ Fill(t) \/ Visit(t) \/ Push(t) \/ Link(t) \/ Return(t)
  \/ \E p \in Process : Release(p) \/ Recycle(p) \/ Finish(p)
  \/ \E s \in Service :
       \/ Dequeue(s) \/ EndHandle(s) \/ CloseService(s) \/ EraseService(s)
       \/ DequeueClose(s) \/ Drop(s) \/ Free(s)

Spec == Init /\ [][Next]_vars

-----------------------------------------------------------------------------
(***************************************************************************)
(* Properties.                                                             *)
(***************************************************************************)
ThreadPc == {"idle", "fill", "visit", "push", "link"}
ServicePc == {"idle", "handle", "drop", "freed"}
ResetPc == {"release", "recycle", "finish"}

\* Among the types: the unsigned m_refCount never wraps below zero.
TypeOK ==
  /\ made \in SUBSET Object
  /\ pool \in [Object -> Nat]
  /\ refCount \in [Object -> 0..MaxList]
  /\ payload \in [Object -> 0..MaxCalls]
  /\ queue \in [Service -> Seq(Entry \cup {Close})]
  /\ serviceMap \in SUBSET Service
  /\ closing \in SUBSET Service
  /\ gone \in SUBSET Service
  /\ pc \in [Process -> ThreadPc \cup ServicePc \cup ResetPc]
  /\ entry \in [Process -> Entry \cup {Close}]
  /\ list \in [Thread -> UNION {[1..n -> Service] : n \in 0..MaxList}]
  /\ target \in [Thread -> Service \cup {None}]
  /\ calls \in 0..MaxCalls
  /\ size \in [Object -> 0..MaxList]
  /\ lost \in [Object -> Nat]

\* The entries of the queues that point to o.
Queued(o) ==
  UNION {{<<s, i>> : i \in {j \in 1..Len(queue[s]) : queue[s][j].obj = o}} :
           s \in Service}

\* The processes that hold a reference to o of their own.
Holders(o) ==
  {p \in Process : entry[p].obj = o /\ pc[p] \in {"push", "handle", "release"}}

\* The receivers that broadcasts of o have still to visit.
Unvisited(o) ==
  UNION {{<<t, i>> : i \in DOMAIN list[t]} :
           t \in {u \in Thread : entry[u].obj = o /\ pc[u] # "fill"}}

\* Every reference that setRefCount gave out is somewhere: m_refCount is the
\* number of receivers that have not had their turn, are in a queue, are being
\* handled, or were lost with a deleted service.  Threads visit, services
\* handle, close and are destroyed in any order.
RefCountExact ==
  \A o \in Object :
    refCount[o] = Cardinality(Queued(o)) + Cardinality(Holders(o))
                    + Cardinality(Unvisited(o)) + lost[o]

\* A process that will still follow its pointer to o.
Uses(p, o) ==
  /\ entry[p].obj = o
  /\ \/ pc[p] \in {"fill", "push", "handle"} \cup ResetPc
     \/ p \in Thread /\ list[p] # <<>>

\* An object in its pool is there once, and nobody can reach it any more: no
\* queue, handler or broadcast; a multi message is free of its old data.  (The
\* last reset of a reload message still wipes it after the push.)
PooledIsUnused ==
  \A o \in Object : pool[o] > 0 =>
    /\ pool[o] = 1
    /\ Queued(o) = {}
    /\ \A p \in Process :
         Uses(p, o) => o \in Reload /\ pc[p] = "finish"
    /\ o \in Multi => payload[o] = 0

Handling(s, o) == pc[s] = "handle" /\ entry[s].obj = o

\* The handler of a multi message reads the data of the broadcast that was
\* posted to its service, never freed data or that of a later broadcast in the
\* same object, however late it runs.
HandlerSeesItsBroadcast ==
  \A s \in Service, o \in Multi :
    Handling(s, o) => payload[o] = entry[s].call

Quiet ==
  /\ \A t \in Thread : pc[t] = "idle"
  /\ \A s \in Service : pc[s] \in {"idle", "freed"} /\ queue[s] = <<>>

\* Once every broadcast has been handled each object is back in its pool,
\* but for those with a reference that was pushed to a deleted service, and
\* those of an empty list, whose reset nobody ever calls.
NothingLeaks ==
  Quiet => \A o \in made : pool[o] = 1 \/ lost[o] > 0 \/ size[o] = 0
=============================================================================
