---------------------------- MODULE MFSharedData ----------------------------
(***************************************************************************)
(* Data that all virtual machines share without a copy: the configuration  *)
(* tables of MFShareTable, which each service reads through the cache of   *)
(* SharedConfig.lua, and the values of MFLuaShareData.                     *)
(*                                                                         *)
(* Every operation of MFShareTable holds m_mutex and is one action, except *)
(* that query clones the table after it has let go of the lock.  A load    *)
(* that fails changes nothing and is a stuttering step.  A matrix (the     *)
(* frozen Lua state behind a table) and a buffer are used once: memory     *)
(* that is given out again is not modelled.                                *)
(***************************************************************************)
EXTENDS Naturals

CONSTANTS
  Name,    \* the names of shared tables
  Vm,      \* the services
  Matrix,  \* bound: the matrices ever loaded
  Key,     \* the keys of MFLuaShareData
  Buffer,  \* bound: the values ever packed
  None

ASSUME SharedAssumption ==
  None \notin Matrix \cup Buffer \cup Name /\ Matrix \cap Buffer = {}

VARIABLES
  entries,  \* m_entries
  open,     \* matrices loaded and not closed
  used,     \* matrices and buffers that exist or existed
  cache,    \* SharedConfig's gens and tbls
  call,     \* where a service is in SharedConfig.get
  share,    \* m_shareMap
  freed,    \* buffers that were freed
  up        \* the process has not come to its end

vars == <<entries, open, used, cache, call, share, freed, up>>
dataVars == <<share, freed>>
tableVars == <<entries, open>>
readVars == <<cache, call>>

\* Entry; generation 0 is how the code says that there is none.
Absent == [generation |-> 0, ptr |-> None, oldBoxRefs |-> {}]
Empty == [gen |-> 0, tbl |-> None]
Idle == [pc |-> "idle", name |-> None, gen |-> 0, ptr |-> None]

Owned(n) == entries[n].oldBoxRefs \cup ({entries[n].ptr} \ {None})

Init ==
  /\ entries = [n \in Name |-> Absent]
  /\ open = {}
  /\ used = {}
  /\ cache = [v \in Vm |-> [n \in Name |-> Empty]]
  /\ call = [v \in Vm |-> Idle]
  /\ share = [k \in Key |-> None]
  /\ freed = {}
  /\ up = TRUE

-----------------------------------------------------------------------------
(* MFShareTable *)

LoadMatrix(m) ==
  /\ m \notin used
  /\ used' = used \cup {m}
  /\ open' = open \cup {m}

Share(n, m) ==
  /\ up /\ entries[n].generation = 0
  /\ LoadMatrix(m)
  /\ entries' = [entries EXCEPT ![n] =
                   [generation |-> 1, ptr |-> m, oldBoxRefs |-> {}]]
  /\ UNCHANGED <<readVars, dataVars, up>>

\* Mutant: the matrix that is replaced is forgotten.
UpdateForgets(n, m) ==
  /\ up /\ entries[n].generation > 0
  /\ LoadMatrix(m)
  /\ entries' = [entries EXCEPT ![n].generation = @ + 1, ![n].ptr = m]
  /\ UNCHANGED <<readVars, dataVars, up>>

Update(n, m) ==
  /\ up /\ entries[n].generation > 0
  /\ LoadMatrix(m)
  /\ entries' = [entries EXCEPT ![n] =
                   [generation |-> @.generation + 1, ptr |-> m,
                    oldBoxRefs |-> @.oldBoxRefs \cup {@.ptr}]]
  /\ UNCHANGED <<readVars, dataVars, up>>

\* releaseOld for one name and for all: closes what update replaced, whoever
\* still reads it.
ReleaseOld(names) ==
  /\ up /\ \E n \in names : entries[n].oldBoxRefs # {}
  /\ open' = open \ UNION {entries[n].oldBoxRefs : n \in names}
  /\ entries' = [n \in Name |->
       IF n \in names THEN [entries[n] EXCEPT !.oldBoxRefs = {}] ELSE entries[n]]
  /\ UNCHANGED <<used, readVars, dataVars, up>>

\* The destructor, after the workers have ended.
Destroy ==
  /\ up /\ \A v \in Vm : call[v].pc = "idle"
  /\ up' = FALSE
  /\ open' = open \ UNION {Owned(n) : n \in Name}
  /\ entries' = [n \in Name |-> Absent]
  /\ share' = [k \in Key |-> None]
  /\ freed' = freed \cup ({share[k] : k \in Key} \ {None})
  /\ UNCHANGED <<used, readVars>>

-----------------------------------------------------------------------------
(* SharedConfig.get *)

\* generation() is not 0 and not the one noted: the table has to be fetched.
\* In the other cases get returns nil or the table it has.
ReadGeneration(v, n) ==
  /\ up /\ call[v].pc = "idle"
  /\ entries[n].generation \notin {0, cache[v][n].gen}
  /\ call' = [call EXCEPT ![v] = [pc |-> "query", name |-> n,
                gen |-> entries[n].generation, ptr |-> None]]
  /\ UNCHANGED <<tableVars, used, cache, dataVars, up>>

\* MFShareTable::query, in the lock.
Query(v) ==
  /\ call[v].pc = "query"
  /\ call' = [call EXCEPT ![v].pc = "clone",
                          ![v].ptr = entries[call[v].name].ptr]
  /\ UNCHANGED <<tableVars, used, cache, dataVars, up>>

\* Mutant: gens is set to the generation there is now, not to the one that was
\* read before the table.
CloneNotesLatest(v) ==
  /\ call[v].pc = "clone"
  /\ cache' = [cache EXCEPT ![v][call[v].name] =
                 [gen |-> entries[call[v].name].generation, tbl |-> call[v].ptr]]
  /\ call' = [call EXCEPT ![v] = Idle]
  /\ UNCHANGED <<tableVars, used, dataVars, up>>

\* lua_clonetable, without the lock, and the rest of get.
Clone(v) ==
  /\ call[v].pc = "clone"
  /\ cache' = [cache EXCEPT ![v][call[v].name] =
                 [gen |-> call[v].gen, tbl |-> call[v].ptr]]
  /\ call' = [call EXCEPT ![v] = Idle]
  /\ UNCHANGED <<tableVars, used, dataVars, up>>

\* SharedConfig.release, of one name or all.
Release(v, names) ==
  /\ up /\ call[v].pc = "idle"
  /\ \E n \in names : cache[v][n] # Empty
  /\ cache' = [cache EXCEPT ![v] =
                 [n \in Name |-> IF n \in names THEN Empty ELSE @[n]]]
  /\ UNCHANGED <<tableVars, used, call, dataVars, up>>

-----------------------------------------------------------------------------
(* MFLuaShareData *)

\* Mutant: the old value is freed and stays in the map.
AddOrUpdateLate(k, b) ==
  /\ up /\ b \notin used
  /\ used' = used \cup {b}
  /\ freed' = freed \cup ({share[k]} \ {None})
  /\ share' = [share EXCEPT ![k] = IF @ = None THEN b ELSE @]
  /\ UNCHANGED <<tableVars, readVars, up>>

\* MFShare.update packs the value, then upsert runs in the lock of the stripe.
\* The MFShareInfo made for the case that the key is new is lost if it is not.
AddOrUpdate(k, b) ==
  /\ up /\ b \notin used
  /\ used' = used \cup {b}
  /\ freed' = freed \cup ({share[k]} \ {None})
  /\ share' = [share EXCEPT ![k] = b]
  /\ UNCHANGED <<tableVars, readVars, up>>

Remove(k) ==
  /\ up /\ share[k] # None
  /\ freed' = freed \cup {share[k]}
  /\ share' = [share EXCEPT ![k] = None]
  /\ UNCHANGED <<tableVars, used, readVars, up>>

Next ==
  \/ \E n \in Name, m \in Matrix : Share(n, m) \/ Update(n, m)
  \/ \E n \in Name : ReleaseOld({n})
  \/ ReleaseOld(Name)
  \/ Destroy
  \/ \E v \in Vm :
       \/ Query(v) \/ Clone(v)
       \/ \E n \in Name : ReadGeneration(v, n) \/ Release(v, {n})
       \/ Release(v, Name)
  \/ \E k \in Key : Remove(k) \/ \E b \in Buffer : AddOrUpdate(k, b)

Spec == Init /\ [][Next]_vars

-----------------------------------------------------------------------------
\* Types; a name has a table exactly if its generation is not 0, which is what
\* SharedConfig.get relies on when it takes 0 for "no such table".
TypeOK ==
  /\ entries \in [Name -> [generation : Nat, ptr : Matrix \cup {None},
                           oldBoxRefs : SUBSET Matrix]]
  /\ \A n \in Name : entries[n].generation = 0 <=> entries[n].ptr = None
  /\ \A n \in Name : entries[n].generation = 0 => entries[n].oldBoxRefs = {}
  /\ open \subseteq used
  /\ used \subseteq Matrix \cup Buffer
  /\ cache \in [Vm -> [Name -> [gen : Nat, tbl : Matrix \cup {None}]]]
  /\ call \in [Vm -> [pc : {"idle", "query", "clone"}, name : Name \cup {None},
                      gen : Nat, ptr : Matrix \cup {None}]]
  /\ \A v \in Vm : call[v].pc # "idle" => call[v].name \in Name /\ up
  /\ share \in [Key -> Buffer \cup {None}]
  /\ freed \subseteq Buffer
  /\ up \in BOOLEAN

\* update, releaseOld and the destructor lose no matrix and close none twice:
\* an open matrix is the current or an old one of exactly one name, and the
\* current one is open whatever is released meanwhile.
MatricesOwned ==
  /\ open = UNION {Owned(n) : n \in Name}
  /\ \A n \in Name : entries[n].ptr \notin entries[n].oldBoxRefs
  /\ \A n1, n2 \in Name : n1 # n2 => Owned(n1) \cap Owned(n2) = {}

\* What SharedConfig.get answers from its cache is the table as last updated:
\* if the generation noted is the current one, so is the table, however updates
\* fell between the steps of the get that fetched it.
CacheIsCurrent ==
  \A v \in Vm, n \in Name :
    entries[n].generation # 0 /\ cache[v][n].gen = entries[n].generation =>
      cache[v][n].tbl = entries[n].ptr

\* A value of MFLuaShareData is freed once, when it is replaced or removed, and
\* belongs to one key until then.
BuffersOwned ==
  /\ \A k \in Key : share[k] \notin freed
  /\ \A k1, k2 \in Key : share[k1] = share[k2] => k1 = k2 \/ share[k1] = None
  /\ used \cap Buffer = freed \cup ({share[k] : k \in Key} \ {None})
=============================================================================
