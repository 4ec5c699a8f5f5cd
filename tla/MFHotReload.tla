----------------------------- MODULE MFHotReload -----------------------------
(***************************************************************************)
(* Hot reload from end to end, for one Lua file: the file watch of         *)
(* MFApplication, the function cache that the virtual machines share       *)
(* (MFLuaProtoCache), the two maps of MFLuaServiceManager in which the     *)
(* services are found, and the services, each of which swaps the module in *)
(* its own virtual machine (MFHotfix).                                     *)
(*                                                                         *)
(* Files change, services start, close and work at the same time.          *)
(***************************************************************************)
EXTENDS MFHotfix, FiniteSetsExt

CONSTANTS
  Service,   \* bound: the services ever started
  ServiceName, \* service names; several services may have the same one
  FirstKind, \* bound: what the file may be at first
  MaxEdits,  \* bound: changes of the file
  MaxUses,   \* bound: uses of the module
  MaxCloses, \* bound: services that are closed
  NoService

ASSUME ReloadAssumption ==
  /\ NoService \notin Service \cup ServiceName
  /\ FirstKind \subseteq Kind
  /\ MaxEdits \in Nat /\ MaxUses \in Nat /\ MaxCloses \in Nat

VARIABLES
  file,      \* the kinds of the file's versions, the last one is on the disk
  changed,   \* the watch has an event for the file
  protos,    \* s_protos: the version in it, 0 for none
  watch,     \* where the watch thread is
  todo,      \* names that values() has not come to, then services to send to
  list,      \* serviceIds
  name,      \* m_serviceName, NoService before the service starts
  unique,    \* services that were started by addUniqueService
  stage,     \* how far addService and addUniqueService have come
  closing,   \* how far closeService has come
  ids,       \* m_serviceMap
  names,     \* m_serviceNameMap
  queue,     \* the service's messages: "reload" and "close"
  vm,        \* its virtual machine
  gone,      \* services that have been deleted
  had,       \* history: services that had the module at the last eviction
  missed     \* history: services with an old module that values() did not find

fileVars == <<file, changed>>
watchVars == <<watch, todo, list, had, missed>>
mapVars == <<ids, names>>
stageVars == <<name, unique, stage, closing>>
reloadVars == <<fileVars, protos, watchVars, stageVars, mapVars, queue, vm, gone>>

ReloadInit ==
  /\ file \in {<<k>> : k \in FirstKind}
  /\ changed = FALSE
  /\ protos = 0
  /\ watch = "idle"
  /\ todo = {}
  /\ list = {}
  /\ name = [s \in Service |-> NoService]
  /\ unique = {}
  /\ stage = [s \in Service |-> "none"]
  /\ closing = [s \in Service |-> "no"]
  /\ ids = {}
  /\ names = [n \in ServiceName |-> NoService]
  /\ queue = [s \in Service |-> <<>>]
  /\ vm = [s \in Service |-> NewVM]
  /\ gone = {}
  /\ had = {}
  /\ missed = {}

Newest == Len(file)

-----------------------------------------------------------------------------
(***************************************************************************)
(* The file and its watch.                                                 *)
(***************************************************************************)
\* A new version is there, complete, when the watch reacts to it: on Linux one
\* that is moved into the tree (dmon.c:847-863).  One that is written in place is
\* reacted to when it is created only, maybe half written, and is left out.
\* Events of one file that were not delivered yet are one event.
Edit ==
  /\ Newest <= MaxEdits
  /\ \E k \in Kind : file' = Append(file, k)
  /\ changed' = TRUE
  /\ UNCHANGED <<protos, watchVars, stageVars, mapVars, queue, vm, gone>>

\* Mutant: the cache is not told.
EvictNothing ==
  /\ watch = "idle" /\ changed
  /\ changed' = FALSE
  /\ had' = {s \in Service : vm[s].loaded # NotLoaded}
  /\ watch' = "values"
  /\ todo' = ServiceName
  /\ list' = {}
  /\ UNCHANGED <<file, protos, missed, stageVars, mapVars, queue, vm, gone>>

\* The watch's callback: removeRequireCache ...
Evict ==
  /\ watch = "idle" /\ changed
  /\ changed' = FALSE
  /\ protos' = 0
  /\ had' = {s \in Service : vm[s].loaded # NotLoaded}
  /\ watch' = "values"
  /\ todo' = ServiceName
  /\ list' = {}
  /\ UNCHANGED <<file, missed, stageVars, mapVars, queue, vm, gone>>

\* ... and nativeDispatchHotReload: values() locks one stripe after the other,
\* in any order of the names.
Values ==
  /\ watch = "values"
  /\ \E n \in todo :
       /\ todo' = todo \ {n}
       /\ list' = list \cup ({names[n]} \ {NoService})
  /\ UNCHANGED <<fileVars, protos, watch, had, missed, stageVars, mapVars, queue, vm, gone>>

ValuesDone ==
  /\ watch = "values" /\ todo = {}
  /\ watch' = "send"
  /\ todo' = list
  /\ missed' = (missed \cup had) \ list
  /\ list' = {}
  /\ had' = {}
  /\ UNCHANGED <<fileVars, protos, stageVars, mapVars, queue, vm, gone>>

Send ==
  /\ watch = "send"
  /\ \E s \in todo :
       /\ todo' = todo \ {s}
       /\ queue' = IF s \in ids THEN [queue EXCEPT ![s] = Append(@, "reload")] ELSE queue
  /\ UNCHANGED <<fileVars, protos, watch, list, had, missed, stageVars, mapVars, vm, gone>>

SendDone ==
  /\ watch = "send" /\ todo = {}
  /\ watch' = "idle"
  /\ UNCHANGED <<fileVars, protos, todo, list, had, missed, stageVars, mapVars, queue, vm, gone>>

-----------------------------------------------------------------------------
(***************************************************************************)
(* Starting and closing a service.                                         *)
(***************************************************************************)
\* addService and addUniqueService: the virtual machine is made and runs main,
\* which may require the module, before the service is in the maps.
Start(s) ==
  /\ stage[s] = "none"
  /\ stage' = [stage EXCEPT ![s] = "init"]
  /\ name' \in {[name EXCEPT ![s] = n] : n \in ServiceName}
  /\ unique' \in {unique, unique \cup {s}}
  /\ UNCHANGED <<fileVars, protos, watchVars, closing, mapVars, queue, vm, gone>>

InsertId(s) ==
  /\ stage[s] = "init"
  /\ ids' = ids \cup {s}
  /\ stage' = [stage EXCEPT ![s] = "mapped"]
  /\ UNCHANGED <<fileVars, protos, watchVars, name, unique, closing, names, queue, vm, gone>>

InsertName(s) ==
  /\ stage[s] = "mapped" /\ s \in unique
  /\ names' = [names EXCEPT ![name[s]] = s]
  /\ stage' = [stage EXCEPT ![s] = "named"]
  /\ UNCHANGED <<fileVars, protos, watchVars, name, unique, closing, ids, queue, vm, gone>>

\* closeService: the message ...
Close(s) ==
  /\ s \in ids /\ closing[s] = "no"
  /\ Cardinality({c \in Service : closing[c] # "no"}) < MaxCloses
  /\ queue' = [queue EXCEPT ![s] = Append(@, "close")]
  /\ closing' = [closing EXCEPT ![s] = "pushed"]
  /\ UNCHANGED <<fileVars, protos, watchVars, name, unique, stage, mapVars, vm, gone>>

\* ... and the two maps.  The name may stand for another service: one started
\* later, or the unique one where this one is not.
EraseId(s) ==
  /\ closing[s] = "pushed"
  /\ ids' = ids \ {s}
  /\ closing' = [closing EXCEPT ![s] = "unmapped"]
  /\ UNCHANGED <<fileVars, protos, watchVars, name, unique, stage, names, queue, vm, gone>>

EraseName(s) ==
  /\ closing[s] = "unmapped"
  /\ names' = [n \in ServiceName |-> IF n = name[s] THEN NoService ELSE names[n]]
  /\ closing' = [closing EXCEPT ![s] = "done"]
  /\ UNCHANGED <<fileVars, protos, watchVars, name, unique, stage, ids, queue, vm, gone>>

-----------------------------------------------------------------------------
(***************************************************************************)
(* A service at work.                                                      *)
(***************************************************************************)
\* The virtual machine exists until the close message deletes it.
Running(s) == stage[s] # "none" /\ s \notin gone

\* shareProto, under its lock: the version in the cache, or the file's, which
\* stays in the cache if it compiles, also if it then raises.
Shared == IF protos = 0 THEN Newest ELSE protos
ShareProto == protos' = IF file[Shared] = "broken" THEN protos ELSE Shared

\* require in the service's code.
Require(s) ==
  /\ Running(s)
  /\ vm[s].loaded = NotLoaded
  /\ ShareProto
  /\ vm' = [vm EXCEPT ![s] = Required(@, Shared, file[Shared])]
  /\ UNCHANGED <<fileVars, watchVars, stageVars, mapVars, queue, gone>>

\* The handler of a reload message: reloadLua and hotfix.
Reload(s) ==
  /\ Running(s)
  /\ queue[s] # <<>> /\ Head(queue[s]) = "reload"
  /\ queue' = [queue EXCEPT ![s] = Tail(@)]
  /\ IF vm[s].loaded = NotLoaded
       THEN UNCHANGED <<protos, vm>>
       ELSE /\ ShareProto
            /\ \E v \in Hotfix(vm[s], Shared, file[Shared]) : vm' = [vm EXCEPT ![s] = v]
  /\ UNCHANGED <<fileVars, watchVars, stageVars, mapVars, gone>>

\* Another handler uses the module, through the table it holds since the first
\* require or the one in package.loaded: it calls `work` and makes an instance.
Use(s) ==
  /\ Running(s)
  /\ MapThenSumSet(LAMBDA t : vm[t].uses, Service) < MaxUses
  /\ \E t \in {Held, vm[s].loaded} \cap DOMAIN vm[s].tables :
       vm' = [vm EXCEPT ![s] = Constructed(Worked(@, t), t)]
  /\ UNCHANGED <<fileVars, protos, watchVars, stageVars, mapVars, queue, gone>>

\* singleMessage comes to the close message and deletes the service.
Delete(s) ==
  /\ Running(s)
  /\ queue[s] # <<>> /\ Head(queue[s]) = "close"
  /\ queue' = [queue EXCEPT ![s] = <<>>]
  /\ gone' = gone \cup {s}
  /\ vm' = [vm EXCEPT ![s] = NewVM]
  /\ UNCHANGED <<fileVars, protos, watchVars, stageVars, mapVars>>

-----------------------------------------------------------------------------
ReloadNext ==
  \/ Edit \/ Evict \/ Values \/ ValuesDone \/ Send \/ SendDone
  \/ \E s \in Service :
       \/ Start(s) \/ InsertId(s) \/ InsertName(s)
       \/ Close(s) \/ EraseId(s) \/ EraseName(s) \/ Delete(s)
       \/ Require(s) \/ Reload(s) \/ Use(s)

ReloadSpec == ReloadInit /\ [][ReloadNext]_reloadVars

-----------------------------------------------------------------------------
(***************************************************************************)
(* Properties.                                                             *)
(***************************************************************************)
\* No reload is on its way to the service.
Quiet(s) ==
  /\ ~changed /\ watch = "idle"
  /\ queue[s] = <<>> /\ Running(s) /\ closing[s] = "no"

\* A service that values() found, or that required the module after the
\* eviction, ends up with the newest version of the file, whatever is edited,
\* started and closed meanwhile: nobody is left with what the cache held.  It
\* is not said of services that values() missed, and of a virtual machine in
\* which a hotfix raised.
ReloadReachesAll ==
  \A s \in Service \ missed :
    Quiet(s) /\ vm[s].loaded = Held /\ ~vm[s].raised /\ file[Newest] \notin Failing
      => vm[s].tables[Held].fns["work"] = Newest

\* Until a hotfix raises, a virtual machine has one table for the module, the
\* one its code holds, and all functions in it are of one version: a change
\* that does not compile or run changes nothing.
ReloadIsWhole ==
  \A s \in Service :
    ~vm[s].raised =>
      IF vm[s].loaded = Held
        THEN Whole(vm[s]) /\ (file[vm[s].tables[Held].fns["work"]] = "nested" =>
                                 vm[s].tables[Held].sub = vm[s].tables[Held].fns["work"])
        ELSE vm[s].tables = <<>>

\* Until then a reload loses no state: the counter shows every call, and every
\* instance is of the class the code holds and has the fields that the current
\* constructor sets, unless that one needs arguments.
StateSurvives ==
  \A s \in Service :
    ~vm[s].raised /\ vm[s].loaded = Held =>
      /\ Survived(vm[s])
      /\ LET v == vm[s].tables[Held].fns["ctor"] IN
         file[v] # "strict" => \A i \in vm[s].instances : i.fields = v
=============================================================================
