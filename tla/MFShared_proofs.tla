--------------------------- MODULE MFShared_proofs ---------------------------
(***************************************************************************)
(* What all services of a process share outside their mailboxes: the id    *)
(* generator (MFSnowflake), tables and values (MFSharedData), and the code *)
(* they run (MFHotReload).                                                 *)
(*                                                                         *)
(* Ids of one generator are unique while the clock is not set back, for    *)
(* any number of threads, any width of the sequence and any number of      *)
(* restarts.  For any number of names, services, loads and values no       *)
(* matrix or buffer is lost or freed twice, and SharedConfig answers from  *)
(* its cache only what is current.  For any number of services, edits and  *)
(* uses, every service that the watch finds ends up with the newest module *)
(* as a whole and keeps what the old one had counted.                      *)
(***************************************************************************)
EXTENDS MFSnowflake, MFSharedData, MFHotReload, SequenceTheorems, TLAPS

-----------------------------------------------------------------------------
(* The id generator. *)

\* The clock never runs behind what has been read from it.
ClockInv ==
  /\ last <= clock
  /\ \A t \in Thread : pc[t] \in {"count", "return"} =>
       last <= time[t] /\ time[t] <= clock
  /\ \A t \in Thread : pc[t] = "spin" => last # -1

\* Older than everything this generator can still return ...
Past(e) ==
  IF last = -1
    THEN e.time < clock /\ \A t \in Thread : pc[t] = "count" => e.time < time[t]
    ELSE e.time < last

\* ... so that an id is fresh as soon as its sequence is ahead within the
\* millisecond.  What "ahead" means depends on how far nextId has come.
IssuedInv ==
  /\ (\A t \in Thread : pc[t] \notin {"spin", "return"}) =>
       \A e \in issued : Past(e) \/ (e.time = last /\ e.seq <= sequence)
  /\ \A t \in Thread : pc[t] = "spin" => \A e \in issued : e.time <= last
  /\ \A t \in Thread : pc[t] = "return" =>
       \A e \in issued : \/ e.time < time[t]
                         \/ e.time = time[t] /\ e.seq < sequence

UniqueInv == IdTypeOK /\ OneInside /\ ClockInv /\ IssuedInv

-----------------------------------------------------------------------------
\* Every step keeps the types.
LEMMA IdStepTyped == IdTypeOK /\ [IdNext]_idVars => IdTypeOK'
<1> SUFFICES ASSUME IdTypeOK, [IdNext]_idVars PROVE IdTypeOK'
  OBVIOUS
<1> USE SnowflakeAssumption DEF IdTypeOK
<1>1. CASE Tick
  BY <1>1 DEF Tick
<1>2. CASE Restart
  BY <1>2 DEF Restart
<1>3. ASSUME NEW t \in Thread, Lock(t) PROVE IdTypeOK'
  BY <1>3 DEF Lock
<1>4. ASSUME NEW t \in Thread, MilSecond(t) PROVE IdTypeOK'
  BY <1>4 DEF MilSecond
<1>5. ASSUME NEW t \in Thread, Count(t) PROVE IdTypeOK'
  <2>1. sequence' \in 0..SeqSize - 1
    BY <1>5 DEF Count
  <2> QED
    BY <1>5, <2>1 DEF Count
<1>6. ASSUME NEW t \in Thread, WaitNextMillis(t) PROVE IdTypeOK'
  BY <1>6 DEF WaitNextMillis
<1>7. ASSUME NEW t \in Thread, Return(t) PROVE IdTypeOK'
  BY <1>7 DEF Return
<1>8. CASE UNCHANGED idVars
  BY <1>8 DEF idVars
<1> QED
  BY <1>1, <1>2, <1>3, <1>4, <1>5, <1>6, <1>7, <1>8 DEF IdNext

\* The lock is held by the thread inside nextId, and by nobody else.
LEMMA StepInside == IdTypeOK /\ OneInside /\ [IdNext]_idVars => OneInside'
<1> USE SnowflakeAssumption DEF IdTypeOK, OneInside
<1> SUFFICES ASSUME IdTypeOK, OneInside, [IdNext]_idVars PROVE OneInside'
  OBVIOUS
<1>1. CASE Tick
  BY <1>1 DEF Tick
<1>2. CASE Restart
  BY <1>2 DEF Restart
<1>3. ASSUME NEW t \in Thread, Lock(t) PROVE OneInside'
  BY <1>3 DEF Lock
<1>4. ASSUME NEW t \in Thread, MilSecond(t) PROVE OneInside'
  BY <1>4 DEF MilSecond
<1>5. ASSUME NEW t \in Thread, Count(t) PROVE OneInside'
  BY <1>5 DEF Count
<1>6. ASSUME NEW t \in Thread, WaitNextMillis(t) PROVE OneInside'
  BY <1>6 DEF WaitNextMillis
<1>7. ASSUME NEW t \in Thread, Return(t) PROVE OneInside'
  BY <1>7 DEF Return
<1>8. CASE UNCHANGED idVars
  BY <1>8 DEF idVars
<1> QED
  BY <1>1, <1>2, <1>3, <1>4, <1>5, <1>6, <1>7, <1>8 DEF IdNext

\* The fields of the generator stay within their types, whatever the clock does.
THEOREM SnowflakeTypes == IdSpec => []IdTypeOK
<1>1. IdInit => IdTypeOK
  BY SnowflakeAssumption DEF IdInit, IdTypeOK
<1> QED
  BY <1>1, IdStepTyped, PTL DEF IdSpec

\* The spin lock lets one thread at a time into nextId, whatever the clock does.
THEOREM LockIsExclusive == IdSpec => []OneInside
<1>1. IdInit => IdTypeOK /\ OneInside
  BY SnowflakeAssumption DEF IdInit, IdTypeOK, OneInside
<1> QED
  BY <1>1, IdStepTyped, StepInside, PTL DEF IdSpec

\* Without steps back the clock stays ahead of every reading of it.
LEMMA StepClock ==
  ASSUME StepBack = FALSE
  PROVE  IdTypeOK /\ OneInside /\ ClockInv /\ [IdNext]_idVars => ClockInv'
<1> SUFFICES ASSUME IdTypeOK, OneInside, ClockInv, [IdNext]_idVars PROVE ClockInv'
  OBVIOUS
<1> USE SnowflakeAssumption DEF IdTypeOK, OneInside, ClockInv
<1>1. CASE Tick
  BY <1>1 DEF Tick
<1>2. CASE Restart
  BY <1>2 DEF Restart
<1>3. ASSUME NEW t \in Thread, Lock(t) PROVE ClockInv'
  BY <1>3 DEF Lock
<1>4. ASSUME NEW t \in Thread, MilSecond(t) PROVE ClockInv'
  BY <1>4 DEF MilSecond
<1>5. ASSUME NEW t \in Thread, Count(t) PROVE ClockInv'
  BY <1>5 DEF Count
<1>6. ASSUME NEW t \in Thread, WaitNextMillis(t) PROVE ClockInv'
  BY <1>6 DEF WaitNextMillis
<1>7. ASSUME NEW t \in Thread, Return(t) PROVE ClockInv'
  BY <1>7 DEF Return
<1>8. CASE UNCHANGED idVars
  BY <1>8 DEF idVars
<1> QED
  BY <1>1, <1>2, <1>3, <1>4, <1>5, <1>6, <1>7, <1>8 DEF IdNext

\* The ids issued stay behind the one that nextId is making.
LEMMA StepIssued ==
  ASSUME StepBack = FALSE
  PROVE  UniqueInv /\ [IdNext]_idVars => IssuedInv'
<1> SUFFICES ASSUME UniqueInv, [IdNext]_idVars PROVE IssuedInv'
  OBVIOUS
<1> USE SnowflakeAssumption DEF UniqueInv, IdTypeOK, OneInside, ClockInv, IssuedInv, Past
<1>1. CASE Tick
  BY <1>1 DEF Tick
<1>2. CASE Restart
  BY <1>2 DEF Restart
<1>3. ASSUME NEW t \in Thread, Lock(t) PROVE IssuedInv'
  BY <1>3 DEF Lock
<1>4. ASSUME NEW t \in Thread, MilSecond(t) PROVE IssuedInv'
  BY <1>4 DEF MilSecond
<1>5. ASSUME NEW t \in Thread, Count(t) PROVE IssuedInv'
  <2>1. \A u \in Thread : u # t => pc'[u] = "idle"
    BY <1>5 DEF Count
  <2>2. \A e \in issued : Past(e) \/ (e.time = last /\ e.seq <= sequence)
    BY <1>5 DEF Count
  <2>3. CASE last = time[t] /\ (sequence + 1) % SeqSize = 0
    BY <1>5, <2>1, <2>2, <2>3 DEF Count
  <2>4. CASE last = time[t] /\ (sequence + 1) % SeqSize # 0
    <3>1. (sequence + 1) % SeqSize = sequence + 1
      BY <2>4
    <3> QED
      BY <1>5, <2>1, <2>2, <2>4, <3>1 DEF Count
  <2>5. CASE last # time[t]
    BY <1>5, <2>1, <2>2, <2>5 DEF Count
  <2> QED
    BY <2>3, <2>4, <2>5
<1>6. ASSUME NEW t \in Thread, WaitNextMillis(t) PROVE IssuedInv'
  BY <1>6 DEF WaitNextMillis
<1>7. ASSUME NEW t \in Thread, Return(t) PROVE IssuedInv'
  BY <1>7 DEF Return
<1>8. CASE UNCHANGED idVars
  BY <1>8 DEF idVars
<1> QED
  BY <1>1, <1>2, <1>3, <1>4, <1>5, <1>6, <1>7, <1>8 DEF IdNext

\* UniqueInv holds in every reachable state.
THEOREM UniqueInvariant ==
  ASSUME StepBack = FALSE
  PROVE  IdSpec => []UniqueInv
<1>1. IdInit => UniqueInv
  BY SnowflakeAssumption DEF IdInit, UniqueInv, IdTypeOK, OneInside, ClockInv, IssuedInv, Past
<1>2. UniqueInv /\ [IdNext]_idVars => UniqueInv'
  BY IdStepTyped, StepInside, StepClock, StepIssued DEF UniqueInv
<1> QED
  BY <1>1, <1>2, PTL DEF IdSpec

\* No id is returned twice (nextId, wait_next_millis, MFSpinLock).
THEOREM IdsAreUnique ==
  ASSUME StepBack = FALSE
  PROVE  IdSpec => UniqueIds
<1>1. UniqueInv =>
        [\A t \in Thread :
           pc[t] = "return" /\ pc'[t] = "idle" /\ last' = time[t] =>
             ~\E e \in issued : e.seq = sequence /\ Field(e.time) = Field(time[t])]_idVars
  <2> SUFFICES ASSUME UniqueInv, NEW t \in Thread, pc[t] = "return",
                      NEW e \in issued, e.seq = sequence, Field(e.time) = Field(time[t])
               PROVE FALSE
    OBVIOUS
  <2>1. e.time \in 0..MaxClock /\ time[t] \in 0..MaxClock
    BY DEF UniqueInv, IdTypeOK
  <2>2. e.time = time[t]
    BY <2>1, SpanAssumption
  <2>3. e.seq < sequence
    BY <2>1, <2>2 DEF UniqueInv, IssuedInv
  <2> QED
    BY <2>3 DEF UniqueInv, IdTypeOK
<1> QED
  BY <1>1, UniqueInvariant, PTL DEF UniqueIds

-----------------------------------------------------------------------------
(* Shared tables and values. *)

\* A generation g noted for the table t of n is that of t or an older one:
\* update gives a name a new table and a higher generation in one step.
NotNewer(n, g, t) ==
  /\ g <= entries[n].generation
  /\ t # entries[n].ptr => g < entries[n].generation

ReadInv ==
  IF ~up THEN \A n \in Name : entries[n].generation = 0 ELSE \A v \in Vm :
    /\ \A n \in Name : cache[v][n].gen # 0 =>
         NotNewer(n, cache[v][n].gen, cache[v][n].tbl)
    /\ call[v].pc = "query" => call[v].gen <= entries[call[v].name].generation
    /\ call[v].pc = "clone" => NotNewer(call[v].name, call[v].gen, call[v].ptr)

SharedInv == TypeOK /\ MatricesOwned /\ BuffersOwned /\ ReadInv

-----------------------------------------------------------------------------
\* Every step keeps the types.
LEMMA StepTyped == TypeOK /\ [Next]_vars => TypeOK'
<1> SUFFICES ASSUME TypeOK, [Next]_vars PROVE TypeOK'
  OBVIOUS
<1> USE SharedAssumption DEF TypeOK, tableVars, readVars, dataVars
<1>1. ASSUME NEW n \in Name, NEW m \in Matrix, Share(n, m) PROVE TypeOK'
  BY <1>1 DEF Share, LoadMatrix
<1>2. ASSUME NEW n \in Name, NEW m \in Matrix, Update(n, m) PROVE TypeOK'
  BY <1>2 DEF Update, LoadMatrix
<1>3. ASSUME NEW those \in SUBSET Name, ReleaseOld(those) PROVE TypeOK'
  <2>1. /\ entries' = [n \in Name |-> IF n \in those
                                      THEN [entries[n] EXCEPT !.oldBoxRefs = {}]
                                      ELSE entries[n]]
        /\ open' \subseteq open
        /\ UNCHANGED <<used, cache, call, share, freed, up>>
    BY <1>3 DEF ReleaseOld
  <2>2. ASSUME NEW n \in Name
        PROVE  /\ entries'[n] \in [generation : Nat, ptr : Matrix \cup {None},
                                   oldBoxRefs : SUBSET Matrix]
               /\ entries'[n].generation = entries[n].generation
               /\ entries'[n].ptr = entries[n].ptr
               /\ entries'[n].oldBoxRefs \in {entries[n].oldBoxRefs, {}}
    <3>1. entries[n] \in [generation : Nat, ptr : Matrix \cup {None},
                          oldBoxRefs : SUBSET Matrix]
      OBVIOUS
    <3>2. CASE n \in those
      <4>1. entries'[n] = [entries[n] EXCEPT !.oldBoxRefs = {}]
        BY <2>1, <3>2
      <4>2. QED
        BY <3>1, <4>1
    <3>3. CASE n \notin those
      BY <2>1, <3>1, <3>3
    <3>4. QED
      BY <3>2, <3>3
  <2>3. entries' \in [Name -> [generation : Nat, ptr : Matrix \cup {None},
                               oldBoxRefs : SUBSET Matrix]]
    BY <2>1, <2>2
  <2>4. ASSUME NEW n \in Name
        PROVE  /\ entries'[n].generation = 0 <=> entries'[n].ptr = None
               /\ entries'[n].generation = 0 => entries'[n].oldBoxRefs = {}
    BY <2>2
  <2> QED
    BY <2>1, <2>3, <2>4
<1>4. CASE Destroy
  <2>1. entries' \in [Name -> [generation : Nat, ptr : Matrix \cup {None},
                               oldBoxRefs : SUBSET Matrix]]
    BY <1>4 DEF Destroy, Absent
  <2>2. share' \in [Key -> Buffer \cup {None}] /\ freed' \subseteq Buffer
    BY <1>4 DEF Destroy
  <2>3. open' \subseteq used' /\ \A v \in Vm : call'[v].pc = "idle"
    BY <1>4 DEF Destroy
  <2>4. \A n \in Name : /\ entries'[n].generation = 0 /\ entries'[n].ptr = None
                         /\ entries'[n].oldBoxRefs = {}
    BY <1>4 DEF Destroy, Absent
  <2> QED
    BY <1>4, <2>1, <2>2, <2>3, <2>4 DEF Destroy
<1>5. ASSUME NEW v \in Vm, NEW n \in Name, ReadGeneration(v, n) PROVE TypeOK'
  BY <1>5 DEF ReadGeneration
<1>6. ASSUME NEW v \in Vm, Query(v) PROVE TypeOK'
  <2>1. call[v].name \in Name /\ up
    BY <1>6 DEF Query
  <2>2. entries[call[v].name].ptr \in Matrix \cup {None}
    BY <2>1
  <2>3. call' \in [Vm -> [pc : {"idle", "query", "clone"},
               name : Name \cup {None}, gen : Nat, ptr : Matrix \cup {None}]]
    <3>1. call[v] \in [pc : {"idle", "query", "clone"},
               name : Name \cup {None}, gen : Nat, ptr : Matrix \cup {None}]
      OBVIOUS
    <3>2. [call[v] EXCEPT !.pc = "clone", !.ptr = entries[call[v].name].ptr]
            \in [pc : {"idle", "query", "clone"}, name : Name \cup {None},
                 gen : Nat, ptr : Matrix \cup {None}]
      BY <2>2, <3>1
    <3>3. call' = [call EXCEPT ![v] =
            [call[v] EXCEPT !.pc = "clone", !.ptr = entries[call[v].name].ptr]]
      BY <1>6 DEF Query
    <3> QED
      BY <3>2, <3>3
  <2>4. \A w \in Vm : call'[w].pc # "idle" => call'[w].name \in Name /\ up'
    BY <1>6, <2>1 DEF Query
  <2> QED
    BY <1>6, <2>3, <2>4 DEF Query
<1>7. ASSUME NEW v \in Vm, Clone(v) PROVE TypeOK'
  BY <1>7 DEF Clone, Idle
<1>8. ASSUME NEW v \in Vm, NEW those \in SUBSET Name, Release(v, those)
      PROVE TypeOK'
  BY <1>8 DEF Release, Empty
<1>9. ASSUME NEW k \in Key, NEW b \in Buffer, AddOrUpdate(k, b) PROVE TypeOK'
  BY <1>9 DEF AddOrUpdate
<1>10. ASSUME NEW k \in Key, Remove(k) PROVE TypeOK'
  BY <1>10 DEF Remove
<1>11. CASE UNCHANGED vars
  BY <1>11 DEF vars
<1>12. Name \in SUBSET Name /\ \A n \in Name : {n} \in SUBSET Name
  OBVIOUS
<1> QED
  <2> HIDE DEF TypeOK
  <2> QED
    BY <1>1, <1>2, <1>3, <1>4, <1>5, <1>6, <1>7, <1>8, <1>9, <1>10, <1>11,
       <1>12 DEF Next

\* A matrix has one owner: load gives it to one name, update keeps it there.
LEMMA StepOwnsMatrices ==
  TypeOK /\ MatricesOwned /\ [Next]_vars => MatricesOwned'
<1> SUFFICES ASSUME TypeOK, MatricesOwned, [Next]_vars PROVE MatricesOwned'
  OBVIOUS
<1> USE SharedAssumption DEF MatricesOwned, Owned, tableVars, readVars, dataVars
<1>1. ASSUME NEW n \in Name, NEW m \in Matrix, Share(n, m)
      PROVE MatricesOwned'
  <2>1. m \notin open /\ open' = open \cup {m} /\ m # None
    BY <1>1 DEF Share, LoadMatrix, TypeOK
  <2>2. entries[n].ptr = None /\ Owned(n)' = {m}
    BY <1>1, <2>1 DEF Share, TypeOK
  <2>3. \A k \in Name \ {n} : entries'[k] = entries[k]
    BY <1>1 DEF Share, TypeOK
  <2>4. entries'[n].ptr = m /\ entries'[n].oldBoxRefs = {}
    BY <1>1 DEF Share, TypeOK
  <2>5. \A k \in Name \ {n} : Owned(k)' = Owned(k) /\ m \notin Owned(k)
    BY <2>1, <2>3
  <2> HIDE DEF Owned
  <2>6. open' = UNION {Owned(k)' : k \in Name}
    <3>1. open = UNION {Owned(k) : k \in Name}
      OBVIOUS
    <3>2. Owned(n) = {}
      BY <1>1, <2>2 DEF Share, Owned, TypeOK
    <3> QED
      BY <2>1, <2>2, <2>5, <3>1, <3>2
  <2> QED
    BY <2>2, <2>3, <2>4, <2>5, <2>6
<1>2. ASSUME NEW n \in Name, NEW m \in Matrix, Update(n, m)
      PROVE MatricesOwned'
  <2>1. m \notin open /\ open' = open \cup {m} /\ m # None
    BY <1>2 DEF Update, LoadMatrix, TypeOK
  <2>2. Owned(n)' = Owned(n) \cup {m}
    BY <1>2, <2>1 DEF Update, TypeOK
  <2>3. \A k \in Name \ {n} : entries'[k] = entries[k]
    BY <1>2 DEF Update, TypeOK
  <2> QED
    BY <1>2, <2>1, <2>2, <2>3 DEF Update, TypeOK
<1>3. ASSUME NEW those \in SUBSET Name, ReleaseOld(those) PROVE MatricesOwned'
  <2>1. \A n \in Name :
          /\ entries'[n].ptr = entries[n].ptr
          /\ entries'[n].oldBoxRefs =
               IF n \in those THEN {} ELSE entries[n].oldBoxRefs
    BY <1>3 DEF ReleaseOld, TypeOK
  <2>2. open' = UNION {Owned(n)' : n \in Name}
    BY <1>3, <2>1 DEF ReleaseOld
  <2> QED
    BY <2>1, <2>2
<1>4. CASE Destroy
  BY <1>4 DEF Destroy, Absent
<1>5. CASE UNCHANGED tableVars
  BY <1>5
<1>6. Name \in SUBSET Name /\ \A n \in Name : {n} \in SUBSET Name
  OBVIOUS
<1> QED
  BY <1>1, <1>2, <1>3, <1>4, <1>5, <1>6 DEF Next, vars, ReadGeneration, Query,
     Clone, Release, AddOrUpdate, Remove

\* A value is freed when its key lets go of it.
LEMMA StepOwnsBuffers ==
  TypeOK /\ BuffersOwned /\ [Next]_vars => BuffersOwned'
<1> SUFFICES ASSUME TypeOK, BuffersOwned, [Next]_vars PROVE BuffersOwned'
  OBVIOUS
<1> USE SharedAssumption DEF BuffersOwned, tableVars, readVars, dataVars
<1>1. ASSUME NEW k \in Key, NEW b \in Buffer, AddOrUpdate(k, b)
      PROVE BuffersOwned'
  <2>1. b \notin freed /\ b # None /\ \A j \in Key : share[j] # b
    BY <1>1 DEF AddOrUpdate, TypeOK
  <2>2. share'[k] = b /\ \A j \in Key \ {k} : share'[j] = share[j]
    BY <1>1 DEF AddOrUpdate, TypeOK
  <2>3. \A j \in Key : share'[j] \notin freed'
    BY <1>1, <2>1, <2>2 DEF AddOrUpdate
  <2>4. used' \cap Buffer = freed' \cup ({share'[j] : j \in Key} \ {None})
    BY <1>1, <2>1, <2>2 DEF AddOrUpdate
  <2> QED
    BY <2>1, <2>2, <2>3, <2>4
<1>2. ASSUME NEW k \in Key, Remove(k) PROVE BuffersOwned'
  <2>1. share'[k] = None /\ \A j \in Key \ {k} : share'[j] = share[j]
    BY <1>2 DEF Remove, TypeOK
  <2>2. None \notin freed'
    BY <1>2 DEF Remove, TypeOK
  <2>3. used' \cap Buffer = freed' \cup ({share'[j] : j \in Key} \ {None})
    BY <1>2, <2>1 DEF Remove
  <2> QED
    BY <1>2, <2>1, <2>2, <2>3 DEF Remove
<1>3. CASE Destroy
  BY <1>3 DEF Destroy, TypeOK
<1>4. ASSUME NEW m \in Matrix, LoadMatrix(m), UNCHANGED dataVars
      PROVE BuffersOwned'
  <2>1. used' \cap Buffer = used \cap Buffer
    BY <1>4 DEF LoadMatrix
  <2> QED
    BY <1>4, <2>1
<1>5. CASE UNCHANGED <<used, dataVars>>
  BY <1>5
<1> QED
  BY <1>1, <1>2, <1>3, <1>4, <1>5 DEF Next, vars, Share, Update, ReleaseOld,
     ReadGeneration, Query, Clone, Release

\* A get reads the generation before the table, so what it notes is not newer.
LEMMA StepReadsInOrder ==
  TypeOK /\ ReadInv /\ [Next]_vars => ReadInv'
<1>0. CASE Destroy
  BY <1>0 DEF ReadInv, Destroy, Absent
<1> SUFFICES ASSUME TypeOK, ReadInv, [Next]_vars, up, up', ~Destroy
             PROVE ReadInv'
  <2>1. ASSUME TypeOK, [Next]_vars, ~up
        PROVE UNCHANGED <<entries, up>>
    BY <2>1 DEF TypeOK, Next, Share, Update, ReleaseOld, Destroy, vars,
       ReadGeneration, Query, Clone, Release, AddOrUpdate, Remove, tableVars
  <2>2. ASSUME TypeOK, [Next]_vars, up, ~Destroy
        PROVE up'
    BY <2>2 DEF TypeOK, Next, Share, Update, ReleaseOld, vars,
       ReadGeneration, Query, Clone, Release, AddOrUpdate, Remove
  <2> QED
    BY <1>0, <2>1, <2>2 DEF ReadInv
<1> USE DEF tableVars, readVars, dataVars
<1>1. ASSUME \A n \in Name :
               \/ /\ entries'[n].generation = entries[n].generation
                  /\ entries'[n].ptr = entries[n].ptr
               \/ entries'[n].generation > entries[n].generation,
             UNCHANGED readVars, entries' \in [Name -> [generation : Nat,
                ptr : Matrix \cup {None}, oldBoxRefs : SUBSET Matrix]]
      PROVE ReadInv'
  <2>1. ASSUME NEW n \in Name, NEW g \in Nat, NEW t, NotNewer(n, g, t)
        PROVE NotNewer(n, g, t)'
    <3>1. entries[n].generation \in Nat /\ entries'[n].generation \in Nat
      BY <1>1 DEF TypeOK
    <3>2. QED
      BY <1>1, <2>1, <3>1 DEF NotNewer
  <2>2. ASSUME NEW n \in Name, NEW g \in Nat, g <= entries[n].generation
        PROVE g <= entries'[n].generation
    BY <1>1, <2>2 DEF TypeOK
  <2> QED
    BY <1>1, <2>1, <2>2 DEF ReadInv, TypeOK
<1>2. ASSUME NEW n \in Name, NEW m \in Matrix, Share(n, m) PROVE ReadInv'
  BY <1>1, <1>2, StepTyped DEF Share, TypeOK
<1>3. ASSUME NEW n \in Name, NEW m \in Matrix, Update(n, m) PROVE ReadInv'
  BY <1>1, <1>3, StepTyped DEF Update, TypeOK
<1>4. ASSUME NEW those \in SUBSET Name, ReleaseOld(those) PROVE ReadInv'
  <2>1. \A n \in Name : /\ entries'[n].generation = entries[n].generation
                         /\ entries'[n].ptr = entries[n].ptr
    BY <1>4 DEF ReleaseOld, TypeOK
  <2> QED
    BY <1>1, <1>4, <2>1, StepTyped DEF ReleaseOld, TypeOK
<1>5. ASSUME NEW v \in Vm, NEW n \in Name, ReadGeneration(v, n) PROVE ReadInv'
  BY <1>5 DEF ReadGeneration, ReadInv, TypeOK, NotNewer
<1>6. ASSUME NEW v \in Vm, Query(v) PROVE ReadInv'
  <2>1. /\ UNCHANGED <<entries, cache, up>>
        /\ \A w \in Vm \ {v} : call'[w] = call[w]
    BY <1>6 DEF Query, TypeOK
  <2>2. /\ call'[v].pc = "clone" /\ call'[v].name = call[v].name
        /\ call'[v].gen = call[v].gen
        /\ call'[v].ptr = entries[call[v].name].ptr
    BY <1>6 DEF Query, TypeOK
  <2>3. NotNewer(call[v].name, call[v].gen, call[v].ptr)'
    BY <1>6, <2>1, <2>2 DEF Query, ReadInv, NotNewer
  <2> QED
    BY <2>1, <2>2, <2>3 DEF ReadInv, NotNewer
<1>7. ASSUME NEW v \in Vm, Clone(v) PROVE ReadInv'
  BY <1>7 DEF Clone, ReadInv, TypeOK, NotNewer, Idle
<1>8. ASSUME NEW v \in Vm, NEW those \in SUBSET Name, Release(v, those)
      PROVE ReadInv'
  BY <1>8 DEF Release, ReadInv, TypeOK, NotNewer, Empty
<1>9. CASE UNCHANGED <<tableVars, readVars>>
  BY <1>9 DEF ReadInv, NotNewer
<1>10. Name \in SUBSET Name /\ \A n \in Name : {n} \in SUBSET Name
  OBVIOUS
<1> QED
  BY <1>2, <1>3, <1>4, <1>5, <1>6, <1>7, <1>8, <1>9, <1>10
     DEF Next, vars, Destroy, AddOrUpdate, Remove

-----------------------------------------------------------------------------
\* SharedInv is an invariant: the four parts are kept by every step.
THEOREM SharedInvariant == Spec => []SharedInv
<1>1. Init => SharedInv
  BY SharedAssumption DEF Init, SharedInv, TypeOK, MatricesOwned, BuffersOwned,
     ReadInv, Owned, Absent, Empty, Idle
<1>2. SharedInv /\ [Next]_vars => SharedInv'
  BY StepTyped, StepOwnsMatrices, StepOwnsBuffers, StepReadsInOrder
     DEF SharedInv
<1> QED
  BY <1>1, <1>2, PTL DEF Spec

\* Types, for every number of names, services and loads.
THEOREM SharedTypes == Spec => []TypeOK
<1>1. SharedInv => TypeOK
  BY DEF SharedInv
<1> QED
  BY <1>1, SharedInvariant, PTL

\* update and releaseOld lose no matrix, close none twice and never the one a
\* query returns.
THEOREM NoMatrixLost == Spec => []MatricesOwned
<1>1. SharedInv => MatricesOwned
  BY DEF SharedInv
<1> QED
  BY <1>1, SharedInvariant, PTL

\* No value of MFLuaShareData is lost or freed twice.
THEOREM NoBufferLost == Spec => []BuffersOwned
<1>1. SharedInv => BuffersOwned
  BY DEF SharedInv
<1> QED
  BY <1>1, SharedInvariant, PTL

\* SharedConfig.get answers from its cache only with the current table.
THEOREM CachedIsCurrent == Spec => []CacheIsCurrent
<1>1. SharedInv => CacheIsCurrent
  <2> SUFFICES ASSUME TypeOK, ReadInv, NEW v \in Vm, NEW n \in Name,
                      entries[n].generation # 0,
                      cache[v][n].gen = entries[n].generation
               PROVE cache[v][n].tbl = entries[n].ptr
    BY DEF SharedInv, CacheIsCurrent
  <2>1. entries[n].generation \in Nat
    BY DEF TypeOK
  <2> QED
    BY <2>1 DEF ReadInv, NotNewer
<1> QED
  BY <1>1, SharedInvariant, PTL

-----------------------------------------------------------------------------
(* Hot reload: one virtual machine. *)

Machine == {"loaded", "tables", "cells", "instances", "raised", "uses"}

ClassTable == [fns : [Fn -> Nat], sub : Nat, class : Nat, cell : Nat]

\* A class that nothing has raised in: the table that the code holds is of one
\* version v, no newer than `top`; it is its own class, and counts in a cell
\* that shows every use; the instances are of that class and have its fields.
HeldOK(u, F, top) ==
  LET T == u.tables[Held]
      v == T.fns["work"]
  IN /\ u.tables \in Seq(ClassTable) /\ u.cells \in Seq(Nat)
     /\ Len(u.tables) = Len(u.cells) /\ Len(u.tables) > 0
     /\ T.class = Held /\ T.cell \in 1..Len(u.cells) /\ u.cells[T.cell] = u.uses
     /\ v \in 1..top /\ F[v] \in {"plain", "nested", "strict"}
     /\ \A f \in Fn : T.fns[f] = v
     /\ T.sub <= v /\ (F[v] = "nested" => T.sub = v)
     /\ u.instances \subseteq [class : {Held}, fields : 1..v]
     /\ F[v] # "strict" => \A i \in u.instances : i.fields = v

\* No class yet: the module was not loaded, or its chunk returned nothing.
Bare(u) ==
  /\ u.loaded \in {NotLoaded, LoadedTrue}
  /\ u.tables = <<>> /\ u.cells = <<>> /\ u.instances = {} /\ u.uses = 0

MachineOK(u, F, top) ==
  /\ DOMAIN u = Machine
  /\ u.raised \in BOOLEAN
  /\ ~u.raised => Bare(u) \/ (u.loaded = Held /\ HeldOK(u, F, top))

-----------------------------------------------------------------------------
(* Hot reload: the file, the cache, the watch and the maps. *)

ReloadTypes ==
  /\ file \in Seq(Kind) /\ Newest >= 1
  /\ protos \in 0..Newest
  /\ watch \in {"idle", "values", "send"}
  /\ watch = "values" => todo \subseteq ServiceName
  /\ stage \in [Service -> {"none", "init", "mapped", "named"}]
  /\ closing \in [Service -> {"no", "pushed", "unmapped", "done"}]
  /\ names \in [ServiceName -> Service \cup {NoService}]
  /\ ids \subseteq Service
  /\ queue \in [Service -> Seq({"reload", "close"})]
  /\ vm = [s \in Service |-> vm[s]]
  /\ ~changed => protos \in {0, Newest}

\* A service that is found by its name is found by its id, until it is closed.
MapsAgree ==
  /\ \A n \in ServiceName : names[n] # NoService => stage[names[n]] = "named"
  /\ \A s \in Service :
       /\ s \in list \/ (watch = "send" /\ s \in todo) => stage[s] = "named"
       /\ stage[s] \in {"mapped", "named"} /\ closing[s] = "no" => s \in ids

MachinesOK == \A s \in Service : MachineOK(vm[s], file, Shared)

\* The version of the class, and whether a service may keep an old one.
Version(s) == vm[s].tables[Held].fns["work"]

Stale(s) ==
  /\ vm[s].loaded = Held /\ ~vm[s].raised /\ Version(s) # Newest
  /\ s \notin gone \cup missed /\ closing[s] = "no"

\* A reload is on its way.
ToReload(s) ==
  \/ watch = "values" /\ s \in had
  \/ watch = "send" /\ s \in todo
  \/ \E i \in 1..Len(queue[s]) : queue[s][i] = "reload"

NoneForgotten ==
  ~changed /\ file[Newest] \notin Failing =>
    \A s \in Service : Stale(s) => ToReload(s)

ReloadInv == ReloadTypes /\ MapsAgree /\ MachinesOK /\ NoneForgotten

-----------------------------------------------------------------------------
(* Hot reload: what loading, swapping and using do to a machine. *)

\* A file that has got more versions changes nothing for the older ones.
LEMMA Younger ==
  ASSUME NEW u, NEW F, NEW G, NEW low \in Nat, NEW top \in Nat, low <= top,
         MachineOK(u, F, low), \A v \in 1..low : G[v] = F[v]
  PROVE  MachineOK(u, G, top)
<1>1. HeldOK(u, F, low) => HeldOK(u, G, top)
  <2> SUFFICES ASSUME HeldOK(u, F, low) PROVE HeldOK(u, G, top)
    OBVIOUS
  <2>1. u.tables[Held].fns["work"] \in 1..low
    BY DEF HeldOK
  <2>2. u.tables[Held].fns["work"] \in 1..top
    BY <2>1
  <2>3. QED
    BY <2>1, <2>2 DEF HeldOK
<1>2. QED
  BY <1>1 DEF MachineOK

\* What a load or a hotfix leaves: a class of the version loaded, unless there is
\* no class or something raised.
Loaded(w, F, top) ==
  /\ MachineOK(w, F, top)
  /\ w.loaded = Held /\ ~w.raised /\ F[top] \notin Failing => w.tables[Held].fns["work"] = top

LEMMA RequiredOK ==
  ASSUME NEW F \in Seq(Kind), NEW top \in 1..Len(F), NEW u, MachineOK(u, F, top),
         u.loaded = NotLoaded
  PROVE  Loaded(Required(u, top, F[top]), F, top)
<1> DEFINE w == Required(u, top, F[top])
           T == Table(1, top, F[top])
<1>1. F[top] \in Kind /\ top \in Nat
  OBVIOUS
<1>2. DOMAIN u = Machine /\ u.raised \in BOOLEAN
  BY DEF MachineOK
<1>3. CASE F[top] \in Failing
  <2>1. w = u
    BY <1>3 DEF Required, Failing
  <2>2. u.loaded # Held
    BY DEF NotLoaded, Held
  <2>3. QED
    BY <1>3, <2>1, <2>2 DEF Loaded
<1>4. CASE F[top] = "empty"
  <2>1. w = [u EXCEPT !.loaded = LoadedTrue]
    BY <1>4 DEF Required, Failing
  <2>2. /\ DOMAIN w = Machine /\ w.loaded = LoadedTrue /\ w.raised = u.raised
        /\ w.tables = u.tables /\ w.cells = u.cells /\ w.instances = u.instances
        /\ w.uses = u.uses
    BY <1>2, <2>1 DEF Machine
  <2> HIDE DEF w
  <2>3. ~u.raised => Bare(u)
    BY DEF MachineOK, NotLoaded, Held
  <2>4. w.loaded # Held
    BY <2>2 DEF LoadedTrue, Held
  <2>5. MachineOK(w, F, top)
    BY <1>2, <2>2, <2>3 DEF MachineOK, Bare
  <2>6. QED
    BY <2>4, <2>5 DEF w, Loaded
<1>5. CASE F[top] \notin Failing \cup {"empty"}
  <2> DEFINE id == Len(u.tables) + 1
  <2>1. w = [u EXCEPT !.loaded = id, !.tables = Append(@, Table(id, top, F[top])),
                      !.cells = Append(@, 0)]
    BY <1>5 DEF Required, Failing
  <2>2. /\ DOMAIN w = Machine /\ w.loaded = id /\ w.raised = u.raised
        /\ w.tables = Append(u.tables, Table(id, top, F[top]))
        /\ w.cells = Append(u.cells, 0)
        /\ w.instances = u.instances /\ w.uses = u.uses
    BY <1>2, <2>1 DEF Machine
  <2> HIDE DEF w
  <2>3. CASE u.raised
    BY <1>2, <2>2, <2>3 DEF MachineOK, w, Loaded
  <2>4. CASE ~u.raised
    <3>1. Bare(u)
      BY <2>4 DEF MachineOK, NotLoaded, Held
    <3>2. u.tables = <<>> /\ u.cells = <<>> /\ u.instances = {} /\ u.uses = 0
      BY <3>1 DEF Bare
    <3>3. id = 1
      BY <3>2
    <3>4. /\ T \in ClassTable /\ T.class = 1 /\ T.cell = 1
          /\ T.fns = [f \in Fn |-> top]
          /\ T.sub = IF F[top] = "nested" THEN top ELSE 0
      BY <1>1 DEF Table, ClassTable
    <3> HIDE DEF T
    <3>5. w.tables = <<T>> /\ w.cells = <<0>>
      BY <2>2, <3>2, <3>3 DEF T
    <3>6. /\ w.tables \in Seq(ClassTable) /\ Len(w.tables) = 1 /\ w.tables[1] = T
          /\ w.cells \in Seq(Nat) /\ Len(w.cells) = 1 /\ w.cells[1] = 0
      BY <3>4, <3>5
    <3>7. \A f \in Fn : T.fns[f] = top
      BY <3>4
    <3>8. T.fns["work"] = top
      BY <3>7 DEF Fn
    <3>9. T.sub <= top /\ (F[top] = "nested" => T.sub = top)
      BY <1>1, <3>4
    <3>10. F[top] \in {"plain", "nested", "strict"}
      BY <1>1, <1>5 DEF Kind, Failing
    <3>11. HeldOK(w, F, top)
      BY <1>1, <2>2, <3>2, <3>4, <3>6, <3>7, <3>8, <3>9, <3>10 DEF HeldOK, Held
    <3>12. w.loaded = Held
      BY <2>2, <3>3 DEF Held
    <3>13. QED
      BY <1>2, <2>2, <3>6, <3>8, <3>11, <3>12 DEF MachineOK, Held, w, Loaded
  <2>5. QED
    BY <1>2, <2>3, <2>4
<1>6. QED
  BY <1>3, <1>4, <1>5

\* Nothing forgets that a hotfix raised.
LEMMA FieldsKept ==
  ASSUME NEW u, DOMAIN u = Machine, NEW v, NEW kind
  PROVE  /\ DOMAIN Required(u, v, kind) = Machine
         /\ Required(u, v, kind).raised = u.raised
         /\ \A old, S, whole :
              /\ DOMAIN Updated(u, old, S, whole) = Machine
              /\ Updated(u, old, S, whole).raised = u.raised
         /\ \A old :
              /\ DOMAIN Reinvoked(u, old, kind) = Machine
              /\ Reinvoked(u, old, kind).raised = u.raised
<1>1. DOMAIN Required(u, v, kind) = Machine /\ Required(u, v, kind).raised = u.raised
  BY DEF Required, Machine
<1>2. ASSUME NEW old, NEW S, NEW whole
      PROVE  /\ DOMAIN Updated(u, old, S, whole) = Machine
             /\ Updated(u, old, S, whole).raised = u.raised
  BY DEF Updated, Machine
<1>3. ASSUME NEW old
      PROVE  /\ DOMAIN Reinvoked(u, old, kind) = Machine
             /\ Reinvoked(u, old, kind).raised = u.raised
  BY DEF Reinvoked, Machine
<1>4. QED
  BY <1>1, <1>2, <1>3

\* A machine with one table replaced.
Like(y, x) ==
  /\ DOMAIN y = Machine /\ y.loaded = x.loaded /\ y.raised = x.raised
  /\ y.instances = x.instances /\ y.uses = x.uses
  /\ y.tables \in Seq(ClassTable) /\ Len(y.tables) = Len(x.tables)

LEMMA TableSet ==
  ASSUME NEW x, NEW y, Like(y, x), NEW k \in 1..Len(x.tables), NEW r \in ClassTable,
         NEW w, w = [y EXCEPT !.tables = [y.tables EXCEPT ![k] = r]]
  PROVE  /\ Like(w, x) /\ w.cells = y.cells /\ w.tables[k] = r
         /\ \A j \in 1..Len(x.tables) : j # k => w.tables[j] = y.tables[j]
<1> DEFINE tables == [y.tables EXCEPT ![k] = r]
<1>1. /\ tables \in Seq(ClassTable) /\ Len(tables) = Len(y.tables) /\ tables[k] = r
      /\ \A j \in 1..Len(y.tables) : j # k => tables[j] = y.tables[j]
  BY DEF Like
<1> HIDE DEF tables
<1>2. /\ w.tables = tables /\ DOMAIN w = Machine /\ w.loaded = y.loaded
      /\ w.raised = y.raised /\ w.cells = y.cells
      /\ w.instances = y.instances /\ w.uses = y.uses
  BY DEF Like, Machine, tables
<1>3. QED
  BY <1>1, <1>2 DEF Like

\* A machine that holds a class and has just loaded the module again as its
\* table n; and what updateTable then makes of it.
Reloaded(x, n) ==
  /\ DOMAIN x = Machine /\ x.tables \in Seq(ClassTable) /\ x.cells \in Seq(Nat)
  /\ n \in Nat \ {0, 1} /\ Len(x.tables) = n /\ Len(x.cells) = n /\ x.loaded = n
  /\ x.tables[Held].cell \in 1..n /\ x.tables[n].cell = n

Carried(w, x, n) ==
  LET o == x.tables[Held]
      new == x.tables[n]
      T == w.tables[Held]
  IN /\ DOMAIN w = Machine /\ w.raised = x.raised
     /\ w.instances = x.instances /\ w.uses = x.uses
     /\ w.tables \in Seq(ClassTable) /\ Len(w.tables) = n
     /\ w.cells \in Seq(Nat) /\ Len(w.cells) = n
     /\ \A f \in Fn : T.fns[f] = new.fns[f]
     /\ T.sub = IF new.sub # 0 THEN new.sub ELSE o.sub
     /\ T.class = o.class /\ T.cell = n /\ w.cells[n] = x.cells[o.cell]

LEMMA UpdatedAll ==
  ASSUME NEW x, NEW n, Reloaded(x, n)
  PROVE  Carried(Updated(x, Held, Fn, TRUE), x, n)
<1> DEFINE o == x.tables[Held]
           new == x.tables[n]
           newFns == [f \in Fn |-> new.fns[f]]
           newSub == IF new.sub # 0 THEN new.sub ELSE o.sub
           w == Updated(x, Held, Fn, TRUE)
           y1 == [x EXCEPT !.tables[Held].fns = newFns]
           y2 == [y1 EXCEPT !.tables[Held].sub = newSub]
           y3 == [y2 EXCEPT !.tables[Held].cell = n]
           y4 == [y3 EXCEPT !.cells[n] = x.cells[o.cell]]
<1>0. /\ DOMAIN x = Machine /\ x.tables \in Seq(ClassTable) /\ x.cells \in Seq(Nat)
      /\ n \in Nat \ {0, 1} /\ Len(x.tables) = n /\ Len(x.cells) = n /\ x.loaded = n
      /\ x.tables[Held].cell \in 1..n /\ x.tables[n].cell = n
  BY DEF Reloaded
<1>1. /\ o \in ClassTable /\ new \in ClassTable /\ Held \in 1..n /\ n \in 1..n
      /\ Held # n
  BY <1>0 DEF Held
<1>2. newFns \in [Fn -> Nat] /\ newSub \in Nat /\ o.class \in Nat
  BY <1>1 DEF ClassTable
<1>3. x.cells[o.cell] \in Nat
  BY <1>0
<1>4. w = [y4 EXCEPT !.tables[n].class = o.class]
  BY <1>0 DEF Updated, Fn
<1> DEFINE o1 == [o EXCEPT !.fns = newFns]
           o2 == [o1 EXCEPT !.sub = newSub]
           o3 == [o2 EXCEPT !.cell = n]
           q == [new EXCEPT !.class = o.class]
<1> HIDE DEF o, new, newFns, newSub
<1>5. /\ o1 \in ClassTable /\ o2 \in ClassTable /\ o3 \in ClassTable
      /\ q \in ClassTable
      /\ o3.fns = newFns /\ o3.sub = newSub /\ o3.class = o.class /\ o3.cell = n
  BY <1>0, <1>1, <1>2 DEF ClassTable
<1> HIDE DEF o1, o2, o3, q
<1>6. Like(x, x) /\ x.tables[Held] = o /\ x.tables[n] = new
  BY <1>0 DEF o, new, Like
<1>7. /\ Like(y1, x) /\ y1.cells = x.cells /\ y1.tables[Held] = o1 /\ y1.tables[n] = new
  <2>1. y1 = [x EXCEPT !.tables = [x.tables EXCEPT ![Held] = o1]]
    BY <1>0, <1>1, <1>6 DEF Machine, o1
  <2> HIDE DEF y1
  <2>2. QED
    BY <1>0, <1>1, <1>5, <1>6, <2>1, TableSet
<1> HIDE DEF y1
<1>8. /\ Like(y2, x) /\ y2.cells = x.cells /\ y2.tables[Held] = o2 /\ y2.tables[n] = new
  <2>1. y2 = [y1 EXCEPT !.tables = [y1.tables EXCEPT ![Held] = o2]]
    BY <1>1, <1>7 DEF Machine, o2, Like
  <2> HIDE DEF y2
  <2>2. QED
    BY <1>0, <1>1, <1>5, <1>7, <2>1, TableSet
<1> HIDE DEF y2
<1>9. /\ Like(y3, x) /\ y3.cells = x.cells /\ y3.tables[Held] = o3 /\ y3.tables[n] = new
  <2>1. y3 = [y2 EXCEPT !.tables = [y2.tables EXCEPT ![Held] = o3]]
    BY <1>1, <1>8 DEF Machine, o3, Like
  <2> HIDE DEF y3
  <2>2. QED
    BY <1>0, <1>1, <1>5, <1>8, <2>1, TableSet
<1> HIDE DEF y3
<1> DEFINE cells == [x.cells EXCEPT ![n] = x.cells[o.cell]]
<1>10. cells \in Seq(Nat) /\ Len(cells) = n /\ cells[n] = x.cells[o.cell]
  BY <1>0, <1>1, <1>3
<1>11. Like(y4, x) /\ y4.cells = cells /\ y4.tables = y3.tables
  BY <1>9 DEF Like, Machine
<1> HIDE DEF y4, cells
<1>12. /\ Like(w, x) /\ w.cells = cells /\ w.tables[Held] = o3
  <2>1. w = [y4 EXCEPT !.tables = [y4.tables EXCEPT ![n] = q]]
    BY <1>1, <1>4, <1>9, <1>11 DEF Machine, q, Like
  <2> HIDE DEF w
  <2>2. QED
    BY <1>0, <1>1, <1>5, <1>9, <1>11, <2>1, TableSet
<1> HIDE DEF w
<1>13. \A f \in Fn : newFns[f] = new.fns[f]
  BY DEF newFns
<1>14. QED
  BY <1>0, <1>5, <1>10, <1>12, <1>13 DEF Carried, Like, o, new, newSub, w

\* A hotfix that raises nothing, of a class that is in use.
Swapped(u, v, kind) ==
  [Reinvoked(Updated(Required([u EXCEPT !.loaded = NotLoaded], v, kind), Held, Fn, TRUE),
             Held, kind) EXCEPT !.loaded = Held]

InUse(u, F, top) ==
  /\ DOMAIN u = Machine /\ u.raised = FALSE /\ u.loaded = Held
  /\ F \in Seq(Kind) /\ top \in 1..Len(F) /\ HeldOK(u, F, top)
  /\ F[top] \in {"plain", "nested", "strict"}

LEMMA SwapOK ==
  ASSUME NEW u, NEW F, NEW top, InUse(u, F, top)
  PROVE  /\ MachineOK(Swapped(u, top, F[top]), F, top)
         /\ Swapped(u, top, F[top]).tables[Held].fns["work"] = top
<1> DEFINE bare == [u EXCEPT !.loaded = NotLoaded]
           new == Required(bare, top, F[top])
           w1 == Updated(new, Held, Fn, TRUE)
           w2 == Reinvoked(w1, Held, F[top])
           w == [w2 EXCEPT !.loaded = Held]
           n == Len(u.tables) + 1
           T == Table(n, top, F[top])
           o == u.tables[Held]
           v == o.fns["work"]
<1>0. /\ DOMAIN u = Machine /\ u.raised = FALSE /\ u.loaded = Held
      /\ F \in Seq(Kind) /\ top \in 1..Len(F) /\ HeldOK(u, F, top)
      /\ F[top] \in {"plain", "nested", "strict"}
  BY DEF InUse
<1>1. top \in Nat /\ top # 0
  BY <1>0
<1>2. /\ u.tables \in Seq(ClassTable) /\ u.cells \in Seq(Nat)
      /\ Len(u.cells) = Len(u.tables) /\ Len(u.tables) > 0
      /\ o.class = Held /\ o.cell \in 1..Len(u.tables) /\ u.cells[o.cell] = u.uses
      /\ v \in 1..top /\ o.sub <= v
      /\ u.instances \subseteq [class : {Held}, fields : 1..v]
      /\ F[v] # "strict" => \A i \in u.instances : i.fields = v
  BY <1>0 DEF HeldOK
<1>3. Len(u.tables) \in Nat /\ n \in Nat \ {0, 1} /\ Held \in 1..Len(u.tables)
  BY <1>2 DEF Held
<1>4. o \in ClassTable /\ o.sub \in Nat
  <2>1. o \in ClassTable
    BY <1>2, <1>3
  <2>2. QED
    BY <2>1 DEF ClassTable
<1>5. /\ T \in ClassTable /\ T.fns = [f \in Fn |-> top] /\ T.cell = n
      /\ T.sub = IF F[top] = "nested" THEN top ELSE 0
  BY <1>1, <1>3 DEF Table, ClassTable
<1>6. /\ new.loaded = n /\ new.tables = Append(u.tables, T) /\ new.cells = Append(u.cells, 0)
      /\ new.raised = FALSE /\ new.instances = u.instances /\ new.uses = u.uses
      /\ DOMAIN new = Machine
  <2>1. /\ DOMAIN bare = Machine /\ bare.tables = u.tables /\ bare.cells = u.cells
        /\ bare.raised = FALSE /\ bare.instances = u.instances /\ bare.uses = u.uses
    BY <1>0 DEF Machine
  <2> HIDE DEF bare
  <2>2. new = [bare EXCEPT !.loaded = n, !.tables = Append(@, T), !.cells = Append(@, 0)]
    BY <1>0, <2>1 DEF Required, Failing
  <2> HIDE DEF new, n, T
  <2>3. QED
    BY <2>1, <2>2 DEF Machine
<1> HIDE DEF T, o, new, n
<1>7. /\ new.tables \in Seq(ClassTable) /\ Len(new.tables) = n
      /\ new.tables[Held] = o /\ new.tables[n] = T
  BY <1>2, <1>3, <1>5, <1>6 DEF n, o
<1>8. new.cells \in Seq(Nat) /\ Len(new.cells) = n /\ new.cells[o.cell] = u.uses
  <2>1. Append(u.cells, 0) \in Seq(Nat) /\ Len(Append(u.cells, 0)) = Len(u.cells) + 1
    BY <1>2
  <2>2. \A j \in 1..Len(u.cells) : Append(u.cells, 0)[j] = u.cells[j]
    BY <1>2
  <2>3. QED
    BY <1>2, <1>6, <2>1, <2>2 DEF n
<1>9. o.cell \in 1..n
  BY <1>2, <1>3 DEF n
<1>10. /\ DOMAIN w1 = Machine /\ w1.raised = FALSE /\ w1.instances = u.instances
       /\ w1.uses = u.uses
       /\ w1.tables \in Seq(ClassTable) /\ Len(w1.tables) = n
       /\ w1.cells \in Seq(Nat) /\ Len(w1.cells) = n
       /\ \A f \in Fn : w1.tables[Held].fns[f] = T.fns[f]
       /\ w1.tables[Held].sub = IF T.sub # 0 THEN T.sub ELSE o.sub
       /\ w1.tables[Held].class = Held /\ w1.tables[Held].cell = n
       /\ w1.cells[n] = u.uses
  <2>1. Reloaded(new, n)
    BY <1>3, <1>5, <1>6, <1>7, <1>8, <1>9 DEF Reloaded
  <2>2. Carried(w1, new, n)
    BY <2>1, UpdatedAll
  <2> HIDE DEF w1
  <2>3. QED
    BY <1>2, <1>6, <1>7, <1>8, <2>2 DEF Carried
<1> HIDE DEF w1
<1>11. /\ \A f \in Fn : w1.tables[Held].fns[f] = top
       /\ w1.tables[Held].fns["work"] = top /\ w1.tables[Held].fns["ctor"] = top
       /\ w1.tables[Held].sub <= top
       /\ F[top] = "nested" => w1.tables[Held].sub = top
  <2>1. \A f \in Fn : T.fns[f] = top
    BY <1>5
  <2>2. \A f \in Fn : w1.tables[Held].fns[f] = top
    BY <1>10, <2>1
  <2>3. o.sub <= top /\ T.sub <= top
    BY <1>1, <1>2, <1>4, <1>5
  <2>4. QED
    BY <1>1, <1>5, <1>10, <2>2, <2>3 DEF Fn
<1>12. ASSUME NEW i \in u.instances
       PROVE  i \in [class : {Held}, fields : 1..top] /\ i.class = Held /\ i.fields <= top
  BY <1>1, <1>2
<1>13. /\ DOMAIN w2 = Machine /\ w2.raised = FALSE /\ w2.uses = u.uses
       /\ w2.tables = w1.tables /\ w2.cells = w1.cells
       /\ w2.instances \subseteq [class : {Held}, fields : 1..top]
       /\ F[top] # "strict" => \A i \in w2.instances : i.fields = top
  <2>1. CASE F[top] = "strict"
    <3>1. w2 = w1
      BY <2>1 DEF Reinvoked
    <3>2. QED
      BY <1>10, <1>12, <2>1, <3>1
  <2>2. CASE F[top] # "strict"
    <3> DEFINE Anew(i) == IF i.class = Held
                 THEN [i EXCEPT !.fields = IF @ < w1.tables[Held].fns["ctor"]
                                             THEN w1.tables[Held].fns["ctor"] ELSE @]
                 ELSE i
               all == {Anew(i) : i \in w1.instances}
    <3>1. w2 = [w1 EXCEPT !.instances = all]
      BY <2>2 DEF Reinvoked
    <3>2. ASSUME NEW i \in u.instances
          PROVE  Anew(i) \in [class : {Held}, fields : 1..top] /\ Anew(i).fields = top
      BY <1>1, <1>11, <1>12
    <3> HIDE DEF Anew
    <3>3. all \subseteq [class : {Held}, fields : 1..top] /\ \A i \in all : i.fields = top
      BY <1>10, <3>2
    <3> HIDE DEF all, w2
    <3>4. /\ DOMAIN w2 = Machine /\ w2.raised = w1.raised /\ w2.uses = w1.uses
          /\ w2.tables = w1.tables /\ w2.cells = w1.cells /\ w2.instances = all
      BY <1>10, <3>1 DEF Machine
    <3>5. QED
      BY <1>10, <3>3, <3>4
  <2>3. QED
    BY <2>1, <2>2
<1> HIDE DEF w2
<1>14. /\ DOMAIN w = Machine /\ w.raised = FALSE /\ w.uses = u.uses /\ w.loaded = Held
       /\ w.tables = w1.tables /\ w.cells = w1.cells /\ w.instances = w2.instances
  BY <1>13 DEF Machine
<1> HIDE DEF w
<1>15. n \in 1..n /\ n > 0 /\ top \in 1..top
  BY <1>1, <1>3
<1>16. HeldOK(w, F, top)
  <2>1. /\ w.tables \in Seq(ClassTable) /\ w.cells \in Seq(Nat)
        /\ Len(w.tables) = Len(w.cells) /\ Len(w.tables) > 0
    BY <1>10, <1>14, <1>15
  <2>2. /\ w.tables[Held].class = Held /\ w.tables[Held].cell \in 1..Len(w.cells)
        /\ w.cells[w.tables[Held].cell] = w.uses
    BY <1>10, <1>14, <1>15
  <2>3. QED
    BY <1>0, <1>11, <1>13, <1>14, <1>15, <2>1, <2>2 DEF HeldOK
<1>17. MachineOK(w, F, top) /\ w.tables[Held].fns["work"] = top
  BY <1>11, <1>14, <1>16 DEF MachineOK
<1>18. QED
  BY <1>17 DEF w, w2, w1, new, Swapped

\* Whatever a hotfix of the newest version does: the class is of that version
\* or the hotfix raised.
LEMMA HotfixOK ==
  ASSUME NEW F \in Seq(Kind), NEW top \in 1..Len(F), NEW u, MachineOK(u, F, top),
         u.loaded # NotLoaded, NEW w \in Hotfix(u, top, F[top])
  PROVE  Loaded(w, F, top)
<1> DEFINE bare == [u EXCEPT !.loaded = NotLoaded]
           new == Required(bare, top, F[top])
           raise == [new EXCEPT !.raised = TRUE]
           swapped == Swapped(u, top, F[top])
<1>1. F[top] \in Kind /\ DOMAIN u = Machine /\ u.raised \in BOOLEAN
  BY DEF MachineOK
<1>2. DOMAIN bare = Machine /\ bare.raised = u.raised
  BY <1>1 DEF Machine
<1> HIDE DEF bare
<1>3. DOMAIN new = Machine /\ new.raised = u.raised
  BY <1>2, FieldsKept
<1> HIDE DEF new
<1>4. DOMAIN raise = Machine /\ raise.raised = TRUE
  BY <1>3 DEF Machine
<1> HIDE DEF raise
<1>5. ASSUME NEW x, DOMAIN x = Machine, x.raised = TRUE
      PROVE  Loaded(x, F, top)
  BY <1>5 DEF MachineOK, Loaded
<1>6. CASE F[top] \in Failing
  <2>1. w = u
    BY <1>6 DEF Hotfix, Results
  <2>2. QED
    BY <1>6, <2>1 DEF Loaded
<1>7. CASE F[top] \notin Failing /\ w = raise
  BY <1>4, <1>5, <1>7
<1>8. CASE \E S \in SUBSET Fn : w = Updated(raise, u.loaded, S, FALSE)
  <2> PICK S : w = Updated(raise, u.loaded, S, FALSE)
    BY <1>8
  <2> DEFINE x == Updated(raise, u.loaded, S, FALSE)
  <2>1. DOMAIN x = Machine /\ x.raised = TRUE
    BY <1>4, FieldsKept
  <2>2. QED
    BY <1>5, <2>1
<1>9. CASE /\ F[top] \notin Failing /\ u.loaded # LoadedTrue /\ new.loaded # LoadedTrue
           /\ w = [Reinvoked(Updated(new, u.loaded, Fn, TRUE), u.loaded, F[top])
                     EXCEPT !.loaded = u.loaded]
  <2>1. CASE u.raised
    <3> DEFINE x1 == Updated(new, u.loaded, Fn, TRUE)
               x2 == Reinvoked(x1, u.loaded, F[top])
    <3>1. DOMAIN x1 = Machine /\ x1.raised = TRUE
      BY <1>1, <1>3, <2>1, FieldsKept
    <3> HIDE DEF x1
    <3>2. DOMAIN x2 = Machine /\ x2.raised = TRUE
      BY <3>1, FieldsKept
    <3>3. w = [x2 EXCEPT !.loaded = u.loaded]
      BY <1>9 DEF x1
    <3> HIDE DEF x2
    <3>4. DOMAIN w = Machine /\ w.raised = TRUE
      BY <3>2, <3>3 DEF Machine
    <3>5. QED
      BY <1>5, <3>4
  <2>2. CASE u.raised = FALSE
    <3>1. u.loaded = Held /\ HeldOK(u, F, top)
      BY <1>9, <2>2 DEF MachineOK, Bare
    <3>2. w = swapped
      BY <1>9, <3>1 DEF Swapped, new, bare
    <3>3. F[top] \in {"plain", "nested", "strict"}
      <4>1. F[top] # "empty"
        <5> SUFFICES ASSUME F[top] = "empty" PROVE FALSE
          OBVIOUS
        <5>1. new = [bare EXCEPT !.loaded = LoadedTrue]
          BY DEF new, Required, Failing
        <5>2. new.loaded = LoadedTrue
          BY <1>2, <5>1 DEF Machine
        <5>3. QED
          BY <1>9, <5>2
      <4>2. QED
        BY <1>1, <1>9, <4>1 DEF Kind, Failing
    <3>4. MachineOK(swapped, F, top) /\ swapped.tables[Held].fns["work"] = top
      <4>1. InUse(u, F, top)
        BY <1>1, <2>2, <3>1, <3>3 DEF InUse
      <4>2. QED
        BY <4>1, SwapOK
    <3> HIDE DEF swapped
    <3>5. QED
      BY <3>2, <3>4 DEF Loaded
  <2>3. QED
    BY <1>1, <2>1, <2>2
<1>10. QED
  <2>1. w \in Results(u, top, F[top], u)
    BY DEF Hotfix
  <2>2. F[top] \notin Failing =>
          \/ w = raise
          \/ \E S \in SUBSET Fn : w = Updated(raise, u.loaded, S, FALSE)
          \/ /\ u.loaded # LoadedTrue /\ new.loaded # LoadedTrue
             /\ w = [Reinvoked(Updated(new, u.loaded, Fn, TRUE), u.loaded, F[top])
                       EXCEPT !.loaded = u.loaded]
    BY <2>1 DEF Results, new, bare, raise
  <2>3. QED
    BY <1>6, <1>7, <1>8, <1>9, <2>2

\* A use of the class counts, and its instance is of it.
OfUse(w, u, F, top) ==
  /\ MachineOK(w, F, top) /\ w.loaded = u.loaded /\ w.raised = u.raised
  /\ w.tables = u.tables

LEMMA UsedOK ==
  ASSUME NEW F, NEW top \in Nat, NEW u, MachineOK(u, F, top),
         NEW t \in {Held, u.loaded} \cap DOMAIN u.tables
  PROVE  OfUse(Constructed(Worked(u, t), t), u, F, top)
<1> DEFINE x == Worked(u, t)
           w == Constructed(x, t)
           c == x.tables[t].class
           i == [class |-> c, fields |-> x.tables[c].fns["ctor"]]
<1>1. DOMAIN u = Machine /\ u.raised \in BOOLEAN
  BY DEF MachineOK
<1>2. /\ DOMAIN x = Machine /\ x.loaded = u.loaded /\ x.raised = u.raised
      /\ x.tables = u.tables /\ x.instances = u.instances /\ x.uses = u.uses + 1
      /\ x.cells = [u.cells EXCEPT ![u.tables[t].cell] = @ + 1]
  BY <1>1 DEF Worked, Machine
<1> HIDE DEF x
<1>3. /\ DOMAIN w = Machine /\ w.loaded = u.loaded /\ w.raised = u.raised
      /\ w.tables = u.tables /\ w.cells = x.cells /\ w.uses = u.uses + 1
      /\ w.instances = u.instances \cup {i}
  BY <1>2 DEF Constructed, Machine
<1> HIDE DEF w
<1>4. ASSUME u.raised PROVE MachineOK(w, F, top)
  <2>1. w.raised = TRUE
    BY <1>1, <1>3, <1>4
  <2>2. QED
    BY <1>3, <2>1 DEF MachineOK
<1>5. ASSUME ~u.raised PROVE MachineOK(w, F, top)
  <2>1. u.loaded = Held /\ HeldOK(u, F, top)
    <3> SUFFICES ASSUME Bare(u) PROVE FALSE
      BY <1>5 DEF MachineOK
    <3>1. u.tables = <<>>
      BY DEF Bare
    <3>2. DOMAIN u.tables = {}
      BY <3>1
    <3>3. QED
      BY <3>2
  <2>2. t = Held
    BY <2>1
  <2> DEFINE T == u.tables[Held]
             v == T.fns["work"]
  <2>3. /\ T.class = Held /\ T.cell \in 1..Len(u.cells) /\ u.cells[T.cell] = u.uses
        /\ u.cells \in Seq(Nat) /\ Len(u.tables) = Len(u.cells)
        /\ v \in 1..top /\ \A f \in Fn : T.fns[f] = v
        /\ u.instances \subseteq [class : {Held}, fields : 1..v]
        /\ F[v] # "strict" => \A j \in u.instances : j.fields = v
    BY <2>1 DEF HeldOK
  <2> HIDE DEF T, v, x
  <2>4. u.uses \in Nat
    BY <2>3
  <2>5. /\ x.cells \in Seq(Nat) /\ Len(x.cells) = Len(u.cells)
        /\ x.cells[T.cell] = u.uses + 1
    <3> DEFINE k == T.cell
    <3>1. x.cells = [u.cells EXCEPT ![k] = u.cells[k] + 1]
      BY <1>2, <2>2 DEF T
    <3>2. k \in 1..Len(u.cells) /\ u.cells \in Seq(Nat) /\ u.cells[k] + 1 \in Nat
      BY <2>3, <2>4
    <3> HIDE DEF k
    <3>3. [u.cells EXCEPT ![k] = u.cells[k] + 1] \in Seq(Nat)
      BY <3>2, ExceptSeq
    <3>4. Len(x.cells) = Len(u.cells) /\ x.cells[k] = u.cells[k] + 1
      BY <3>1, <3>2, ExceptSeq
    <3>5. QED
      BY <2>3, <3>1, <3>3, <3>4 DEF k
  <2>6. i \in [class : {Held}, fields : 1..v] /\ i.fields = v
    <3>1. c = Held
      BY <1>2, <2>2, <2>3 DEF T
    <3>2. x.tables[c].fns["ctor"] = v
      BY <1>2, <2>3, <3>1 DEF Fn, T
    <3>3. v \in 1..v
      BY <2>3
    <3>4. QED
      BY <3>1, <3>2, <3>3
  <2> HIDE DEF i
  <2>7. HeldOK(w, F, top)
    <3>1. /\ w.tables[Held] = T /\ w.tables = u.tables
          /\ w.cells \in Seq(Nat) /\ Len(w.tables) = Len(w.cells)
          /\ T.cell \in 1..Len(w.cells) /\ w.cells[T.cell] = w.uses
      BY <1>3, <2>3, <2>5 DEF T
    <3>2. /\ w.instances \subseteq [class : {Held}, fields : 1..v]
          /\ F[v] # "strict" => \A j \in w.instances : j.fields = v
      BY <1>3, <2>3, <2>6
    <3>3. QED
      BY <2>1, <2>3, <3>1, <3>2 DEF HeldOK, T, v
  <2>8. QED
    BY <1>1, <1>3, <2>1, <2>7 DEF MachineOK
<1>6. MachineOK(w, F, top)
  BY <1>1, <1>4, <1>5
<1>7. QED
  BY <1>3, <1>6 DEF w, x, OfUse

-----------------------------------------------------------------------------
(* Hot reload: the steps. *)

LEMMA SharedIs ==
  ASSUME ReloadTypes
  PROVE  /\ Newest \in Nat /\ Newest \in 1..Newest /\ Shared \in 1..Newest
         /\ ~changed => Shared = Newest
         /\ protos # 0 => Shared = protos
BY DEF ReloadTypes, Shared, Newest

\* The version that a load gets never goes back, nor does the file.
NoneOlder ==
  /\ file' \in Seq(Kind) /\ Newest <= Newest'
  /\ \A v \in 1..Newest : file'[v] = file[v]
  /\ Shared' \in 1..Newest' /\ Shared <= Shared'

LEMMA MachinesStay ==
  ASSUME ReloadTypes, MachinesOK, NoneOlder,
         \A s \in Service : vm'[s] = vm[s] \/ MachineOK(vm'[s], file', Shared')
  PROVE  MachinesOK'
<1>1. /\ Newest \in Nat /\ Shared \in 1..Newest /\ Shared' \in 1..Newest' /\ Newest' \in Nat
      /\ Shared <= Shared' /\ \A v \in 1..Newest : file'[v] = file[v]
  BY SharedIs DEF NoneOlder, Newest
<1>2. Shared \in Nat /\ Shared' \in Nat /\ \A v \in 1..Shared : file'[v] = file[v]
  BY <1>1
<1>3. ASSUME NEW s \in Service PROVE MachineOK(vm'[s], file', Shared')
  <2>1. CASE vm'[s] = vm[s]
    <3>1. MachineOK(vm[s], file, Shared)
      BY DEF MachinesOK
    <3>2. MachineOK(vm[s], file', Shared')
      BY <1>1, <1>2, <3>1, Younger
    <3>3. QED
      BY <2>1, <3>2
  <2>2. QED
    BY <2>1
<1>4. QED
  BY <1>3 DEF MachinesOK

\* Steps that leave the file, the cache and the machines alone.
Settled == UNCHANGED <<file, changed, protos, vm>>

LEMMA MachinesSettled ==
  ASSUME MachinesOK, Settled
  PROVE  MachinesOK'
BY DEF MachinesOK, Settled, Shared, Newest

\* Nobody is forgotten if a service that is still owed a reload is still sent it.
LEMMA ForgottenStays ==
  ASSUME NoneForgotten, Settled, missed \subseteq missed', gone \subseteq gone',
         \A s \in Service : closing'[s] = "no" => closing[s] = "no",
         \A s \in Service : Stale(s)' /\ ToReload(s) => ToReload(s)'
  PROVE  NoneForgotten'
<1>1. \A s \in Service : Stale(s)' => Stale(s)
  BY DEF Stale, Version, Newest, Settled
<1>2. Newest' = Newest
  BY DEF Settled, Newest
<1>3. QED
  BY <1>1, <1>2 DEF NoneForgotten, Settled

LEMMA EditKeeps ==
  ASSUME ReloadInv, Edit
  PROVE  ReloadInv'
<1>1. ReloadTypes /\ MapsAgree /\ MachinesOK
  BY DEF ReloadInv
<1> PICK k \in Kind : file' = Append(file, k)
  BY DEF Edit
<1>2. /\ changed' = TRUE /\ UNCHANGED <<protos, vm>>
      /\ UNCHANGED <<watch, todo, list, stage, closing, ids, names, queue>>
  BY DEF Edit, watchVars, stageVars, mapVars
<1>3. /\ file \in Seq(Kind) /\ Newest \in Nat /\ Newest >= 1
      /\ file' \in Seq(Kind) /\ Newest' = Newest + 1
      /\ \A v \in 1..Newest : file'[v] = file[v]
  BY <1>1 DEF ReloadTypes, Newest
<1>4. protos \in 0..Newest
  BY <1>1 DEF ReloadTypes
<1>5. ReloadTypes'
  <2>1. protos' \in 0..Newest' /\ Newest' >= 1
    BY <1>2, <1>3, <1>4
  <2>2. QED
    BY <1>1, <1>2, <1>3, <2>1 DEF ReloadTypes
<1>6. NoneOlder
  <2>1. Shared' \in 1..Newest' /\ Shared <= Shared' /\ Newest <= Newest'
    BY <1>2, <1>3, <1>4 DEF Shared
  <2>2. QED
    BY <1>3, <2>1 DEF NoneOlder
<1>7. MachinesOK'
  BY <1>1, <1>2, <1>6, MachinesStay
<1>8. MapsAgree'
  BY <1>1, <1>2 DEF MapsAgree
<1>9. NoneForgotten'
  BY <1>2 DEF NoneForgotten
<1>10. QED
  BY <1>5, <1>7, <1>8, <1>9 DEF ReloadInv

LEMMA EvictKeeps ==
  ASSUME ReloadInv, Evict
  PROVE  ReloadInv'
<1>1. ReloadTypes /\ MapsAgree /\ MachinesOK
  BY DEF ReloadInv
<1>2. /\ changed' = FALSE /\ protos' = 0 /\ watch' = "values"
      /\ todo' = ServiceName /\ list' = {}
      /\ had' = {s \in Service : vm[s].loaded # NotLoaded}
      /\ UNCHANGED <<file, vm, stage, closing, ids, names, queue>>
  BY DEF Evict, stageVars, mapVars
<1>3. Newest' = Newest /\ Newest \in Nat /\ Newest >= 1 /\ Shared \in 1..Newest
  BY <1>1, <1>2, SharedIs DEF ReloadTypes, Newest
<1>4. ReloadTypes'
  BY <1>1, <1>2, <1>3 DEF ReloadTypes
<1>5. Shared' = Newest
  BY <1>2, <1>3 DEF Shared
<1>6. NoneOlder
  BY <1>1, <1>2, <1>3, <1>5 DEF NoneOlder, ReloadTypes
<1>7. MachinesOK'
  BY <1>1, <1>2, <1>6, MachinesStay
<1>8. MapsAgree'
  BY <1>1, <1>2 DEF MapsAgree
<1>9. ASSUME NEW s \in Service, Stale(s)' PROVE ToReload(s)'
  <2>1. vm[s].loaded = Held
    BY <1>2, <1>9 DEF Stale
  <2>2. s \in had'
    BY <1>2, <2>1 DEF NotLoaded, Held
  <2>3. QED
    BY <1>2, <2>2 DEF ToReload
<1>10. QED
  BY <1>4, <1>7, <1>8, <1>9 DEF ReloadInv, NoneForgotten

LEMMA ValuesKeeps ==
  ASSUME ReloadInv, Values
  PROVE  ReloadInv'
<1>1. ReloadTypes /\ MapsAgree /\ MachinesOK /\ NoneForgotten
  BY DEF ReloadInv
<1> PICK n \in todo : /\ todo' = todo \ {n}
                      /\ list' = list \cup ({names[n]} \ {NoService})
  BY DEF Values
<1>2. /\ watch = "values" /\ Settled
      /\ UNCHANGED <<watch, had, missed, gone, stage, closing, ids, names, queue>>
  BY DEF Values, fileVars, stageVars, mapVars, Settled
<1>3. n \in ServiceName
  BY <1>1, <1>2 DEF ReloadTypes
<1>4. ReloadTypes'
  BY <1>1, <1>2 DEF ReloadTypes, Settled, Newest
<1>5. MachinesOK'
  BY <1>1, <1>2, MachinesSettled
<1>6. MapsAgree'
  <2>1. names[n] # NoService => stage[names[n]] = "named"
    BY <1>1, <1>3 DEF MapsAgree
  <2>2. \A s \in Service : s \in list' => stage[s] = "named"
    BY <1>1, <2>1 DEF MapsAgree
  <2>3. QED
    BY <1>1, <1>2, <2>2 DEF MapsAgree
<1>7. NoneForgotten'
  <2>1. \A s \in Service : ToReload(s) => ToReload(s)'
    BY <1>2 DEF ToReload
  <2>2. QED
    BY <1>1, <1>2, <2>1, ForgottenStays
<1>8. QED
  BY <1>4, <1>5, <1>6, <1>7 DEF ReloadInv

LEMMA ValuesDoneKeeps ==
  ASSUME ReloadInv, ValuesDone
  PROVE  ReloadInv'
<1>1. ReloadTypes /\ MapsAgree /\ MachinesOK /\ NoneForgotten
  BY DEF ReloadInv
<1>2. /\ watch = "values" /\ watch' = "send" /\ todo' = list /\ list' = {}
      /\ missed' = (missed \cup had) \ list /\ Settled
      /\ UNCHANGED <<gone, stage, closing, ids, names, queue>>
  BY DEF ValuesDone, fileVars, stageVars, mapVars, Settled
<1>3. ReloadTypes'
  BY <1>1, <1>2 DEF ReloadTypes, Settled, Newest
<1>4. MachinesOK'
  BY <1>1, <1>2, MachinesSettled
<1>5. MapsAgree'
  BY <1>1, <1>2 DEF MapsAgree
<1>6. NoneForgotten'
  <2> SUFFICES ASSUME ~changed, file[Newest] \notin Failing, NEW s \in Service, Stale(s)'
               PROVE  ToReload(s)'
    BY <1>2 DEF NoneForgotten, Settled, Newest
  <2>1. CASE s \in list
    BY <1>2, <2>1 DEF ToReload
  <2>2. CASE s \notin list
    <3>1. s \notin missed /\ s \notin had
      BY <1>2, <2>2 DEF Stale
    <3>2. Stale(s)
      BY <1>2, <3>1 DEF Stale, Version, Newest, Settled
    <3>3. ToReload(s)
      BY <1>1, <3>2 DEF NoneForgotten
    <3>4. QED
      BY <1>2, <3>1, <3>3 DEF ToReload
  <2>3. QED
    BY <2>1, <2>2
<1>7. QED
  BY <1>3, <1>4, <1>5, <1>6 DEF ReloadInv

\* A message that is queued does not go away by another one.
LEMMA Queued ==
  ASSUME NEW Q \in Seq({"reload", "close"}), NEW m \in {"reload", "close"}
  PROVE  /\ Append(Q, m) \in Seq({"reload", "close"})
         /\ (\E i \in 1..Len(Q) : Q[i] = "reload")
              => \E i \in 1..Len(Append(Q, m)) : Append(Q, m)[i] = "reload"
         /\ m = "reload" => \E i \in 1..Len(Append(Q, m)) : Append(Q, m)[i] = "reload"
<1>1. /\ Append(Q, m) \in Seq({"reload", "close"})
      /\ Len(Q) \in Nat /\ Len(Append(Q, m)) = Len(Q) + 1
      /\ \A i \in 1..Len(Q) : Append(Q, m)[i] = Q[i]
      /\ Append(Q, m)[Len(Q) + 1] = m
  OBVIOUS
<1> DEFINE A == Append(Q, m)
           n == Len(Q)
<1> HIDE DEF A, n
<1>2. /\ n \in Nat /\ Len(A) = n + 1 /\ \A i \in 1..n : A[i] = Q[i]
      /\ A[n + 1] = m
  BY <1>1 DEF A, n
<1>3. \A i \in 1..n : i \in 1..Len(A)
  BY <1>2
<1>4. n + 1 \in 1..Len(A)
  BY <1>2
<1>5. QED
  BY <1>1, <1>2, <1>3, <1>4 DEF A, n

LEMMA SendKeeps ==
  ASSUME ReloadInv, Send
  PROVE  ReloadInv'
<1>1. ReloadTypes /\ MapsAgree /\ MachinesOK /\ NoneForgotten
  BY DEF ReloadInv
<1> PICK t \in todo : /\ todo' = todo \ {t}
                      /\ queue' = IF t \in ids THEN [queue EXCEPT ![t] = Append(@, "reload")]
                                               ELSE queue
  BY DEF Send
<1>2. /\ watch = "send" /\ Settled
      /\ UNCHANGED <<watch, list, had, missed, gone, stage, closing, ids, names>>
  BY DEF Send, fileVars, stageVars, mapVars, Settled
<1>3. /\ \A s \in Service : queue[s] \in Seq({"reload", "close"}) /\ ids \subseteq Service
      /\ queue \in [Service -> Seq({"reload", "close"})]
  BY <1>1 DEF ReloadTypes
<1>4. \A s \in Service : queue'[s] = IF s = t /\ t \in ids THEN Append(queue[s], "reload")
                                                           ELSE queue[s]
  BY <1>3
<1>5. queue' \in [Service -> Seq({"reload", "close"})]
  BY <1>3, Queued
<1>6. ReloadTypes'
  BY <1>1, <1>2, <1>5 DEF ReloadTypes, Settled, Newest
<1>7. MachinesOK'
  BY <1>1, <1>2, MachinesSettled
<1>8. MapsAgree'
  BY <1>1, <1>2 DEF MapsAgree
<1>9. ASSUME NEW s \in Service, Stale(s)', ToReload(s) PROVE ToReload(s)'
  <2>1. CASE \E i \in 1..Len(queue[s]) : queue[s][i] = "reload"
    <3>1. \E i \in 1..Len(queue'[s]) : queue'[s][i] = "reload"
      BY <1>3, <1>4, <2>1, Queued
    <3>2. QED
      BY <3>1 DEF ToReload
  <2>2. CASE s \in todo /\ s # t
    BY <1>2, <2>2 DEF ToReload
  <2>3. CASE s \in todo /\ s = t
    <3>1. closing[s] = "no" /\ stage[s] = "named"
      BY <1>1, <1>2, <1>9, <2>3 DEF Stale, MapsAgree
    <3>2. s \in ids
      BY <1>1, <3>1 DEF MapsAgree
    <3>3. \E i \in 1..Len(queue'[s]) : queue'[s][i] = "reload"
      BY <1>3, <1>4, <2>3, <3>2, Queued
    <3>4. QED
      BY <3>3 DEF ToReload
  <2>4. QED
    BY <1>2, <1>9, <2>1, <2>2, <2>3 DEF ToReload
<1>10. NoneForgotten'
  BY <1>1, <1>2, <1>9, ForgottenStays
<1>11. QED
  BY <1>6, <1>7, <1>8, <1>10 DEF ReloadInv

LEMMA SendDoneKeeps ==
  ASSUME ReloadInv, SendDone
  PROVE  ReloadInv'
<1>1. ReloadTypes /\ MapsAgree /\ MachinesOK /\ NoneForgotten
  BY DEF ReloadInv
<1>2. /\ watch = "send" /\ todo = {} /\ watch' = "idle" /\ Settled
      /\ UNCHANGED <<todo, list, had, missed, gone, stage, closing, ids, names, queue>>
  BY DEF SendDone, fileVars, stageVars, mapVars, Settled
<1>3. ReloadTypes'
  BY <1>1, <1>2 DEF ReloadTypes, Settled, Newest
<1>4. MachinesOK'
  BY <1>1, <1>2, MachinesSettled
<1>5. MapsAgree'
  BY <1>1, <1>2 DEF MapsAgree
<1>6. \A s \in Service : ToReload(s) => ToReload(s)'
  BY <1>2 DEF ToReload
<1>7. NoneForgotten'
  BY <1>1, <1>2, <1>6, ForgottenStays
<1>8. QED
  BY <1>3, <1>4, <1>5, <1>7 DEF ReloadInv

\* Steps of a service that starts or is closed, but for its messages.
LEMMA MappingKeeps ==
  ASSUME ReloadInv, NEW s \in Service,
         Start(s) \/ InsertId(s) \/ InsertName(s) \/ EraseId(s) \/ EraseName(s)
  PROVE  ReloadInv'
<1>1. ReloadTypes /\ MapsAgree /\ MachinesOK /\ NoneForgotten
  BY DEF ReloadInv
<1>2. Settled /\ UNCHANGED <<watch, todo, list, had, missed, gone, queue>>
  BY DEF Start, InsertId, InsertName, EraseId, EraseName, fileVars, watchVars, Settled
<1>3. /\ stage \in [Service -> {"none", "init", "mapped", "named"}]
      /\ closing \in [Service -> {"no", "pushed", "unmapped", "done"}]
      /\ names \in [ServiceName -> Service \cup {NoService}] /\ ids \subseteq Service
  BY <1>1 DEF ReloadTypes
<1>4. /\ stage' \in [Service -> {"none", "init", "mapped", "named"}]
      /\ closing' \in [Service -> {"no", "pushed", "unmapped", "done"}]
      /\ names' \in [ServiceName -> Service \cup {NoService}] /\ ids' \subseteq Service
      /\ \A r \in Service : closing'[r] = "no" => closing[r] = "no"
  <2>1. CASE Start(s)
    BY <1>3, <2>1 DEF Start, mapVars
  <2>2. CASE InsertId(s)
    BY <1>3, <2>2 DEF InsertId
  <2>3. CASE InsertName(s)
    BY <1>3, <2>3 DEF InsertName
  <2>4. CASE EraseId(s)
    BY <1>3, <2>4 DEF EraseId
  <2>5. CASE EraseName(s)
    BY <1>3, <2>5 DEF EraseName
  <2>6. QED
    BY <2>1, <2>2, <2>3, <2>4, <2>5
<1>5. ReloadTypes'
  BY <1>1, <1>2, <1>4 DEF ReloadTypes, Settled, Newest
<1>6. MachinesOK'
  BY <1>1, <1>2, MachinesSettled
<1>7. MapsAgree'
  <2>1. /\ \A n \in ServiceName : names[n] # NoService => stage[names[n]] = "named"
        /\ \A r \in Service :
             /\ r \in list \/ (watch = "send" /\ r \in todo) => stage[r] = "named"
             /\ stage[r] \in {"mapped", "named"} /\ closing[r] = "no" => r \in ids
    BY <1>1 DEF MapsAgree
  <2>2. CASE Start(s)
    <3>1. /\ stage[s] = "none" /\ stage'[s] = "init"
          /\ \A r \in Service \ {s} : stage'[r] = stage[r]
          /\ UNCHANGED <<closing, ids, names>>
      BY <1>3, <2>2 DEF Start, mapVars
    <3>2. QED
      BY <1>2, <1>3, <2>1, <3>1 DEF MapsAgree
  <2>3. CASE InsertId(s)
    <3>1. /\ stage[s] = "init" /\ stage'[s] = "mapped" /\ ids' = ids \cup {s}
          /\ \A r \in Service \ {s} : stage'[r] = stage[r]
          /\ UNCHANGED <<closing, names>>
      BY <1>3, <2>3 DEF InsertId
    <3>2. QED
      BY <1>2, <1>3, <2>1, <3>1 DEF MapsAgree
  <2>4. CASE InsertName(s)
    <3>1. /\ stage[s] = "mapped" /\ stage'[s] = "named"
          /\ \A r \in Service \ {s} : stage'[r] = stage[r]
          /\ \A n \in ServiceName : names'[n] \in {names[n], s}
          /\ UNCHANGED <<closing, ids>>
      BY <1>3, <2>4 DEF InsertName
    <3>2. QED
      BY <1>2, <1>3, <2>1, <3>1 DEF MapsAgree
  <2>5. CASE EraseId(s)
    <3>1. /\ closing'[s] # "no" /\ ids' = ids \ {s} /\ UNCHANGED <<stage, names>>
      BY <1>3, <2>5 DEF EraseId
    <3>2. QED
      BY <1>2, <1>4, <2>1, <3>1 DEF MapsAgree
  <2>6. CASE EraseName(s)
    <3>1. /\ \A n \in ServiceName : names'[n] \in {names[n], NoService}
          /\ UNCHANGED <<stage, ids>>
      BY <1>3, <2>6 DEF EraseName
    <3>2. QED
      BY <1>2, <1>4, <2>1, <3>1 DEF MapsAgree
  <2>7. QED
    BY <2>2, <2>3, <2>4, <2>5, <2>6
<1>8. \A r \in Service : ToReload(r) => ToReload(r)'
  BY <1>2 DEF ToReload
<1>9. NoneForgotten'
  BY <1>1, <1>2, <1>4, <1>8, ForgottenStays
<1>10. QED
  BY <1>5, <1>6, <1>7, <1>9 DEF ReloadInv

LEMMA CloseKeeps ==
  ASSUME ReloadInv, NEW s \in Service, Close(s)
  PROVE  ReloadInv'
<1>1. ReloadTypes /\ MapsAgree /\ MachinesOK /\ NoneForgotten
  BY DEF ReloadInv
<1>2. /\ Settled /\ UNCHANGED <<watch, todo, list, had, missed, gone, stage, ids, names>>
      /\ queue' = [queue EXCEPT ![s] = Append(@, "close")]
      /\ closing' = [closing EXCEPT ![s] = "pushed"]
  BY DEF Close, fileVars, watchVars, mapVars, Settled
<1>3. /\ \A r \in Service : queue[r] \in Seq({"reload", "close"})
      /\ queue \in [Service -> Seq({"reload", "close"})]
      /\ closing \in [Service -> {"no", "pushed", "unmapped", "done"}]
  BY <1>1 DEF ReloadTypes
<1>4. /\ closing' \in [Service -> {"no", "pushed", "unmapped", "done"}]
      /\ closing'[s] = "pushed" /\ \A r \in Service \ {s} : closing'[r] = closing[r]
  BY <1>2, <1>3
<1>5. queue' \in [Service -> Seq({"reload", "close"})]
  BY <1>2, <1>3, Queued
<1>6. \A r \in Service \ {s} : queue'[r] = queue[r]
  BY <1>2, <1>3
<1>7. ReloadTypes'
  BY <1>1, <1>2, <1>4, <1>5 DEF ReloadTypes, Settled, Newest
<1>8. MachinesOK'
  BY <1>1, <1>2, MachinesSettled
<1>9. MapsAgree'
  BY <1>1, <1>2, <1>4 DEF MapsAgree
<1>10. ASSUME NEW r \in Service, Stale(r)', ToReload(r) PROVE ToReload(r)'
  <2>1. r # s
    BY <1>4, <1>10 DEF Stale
  <2>2. QED
    BY <1>2, <1>6, <1>10, <2>1 DEF ToReload
<1>11. NoneForgotten'
  BY <1>1, <1>2, <1>4, <1>10, ForgottenStays
<1>12. QED
  BY <1>7, <1>8, <1>9, <1>11 DEF ReloadInv

\* A step of one service that may load the module: what the others have and are
\* owed stays, and the service itself is no longer owed anything.
LEMMA MachineKeeps ==
  ASSUME ReloadInv, NEW s \in Service, NEW w, vm' = [vm EXCEPT ![s] = w],
         MachineOK(w, file, Shared), UNCHANGED <<file, changed>>,
         protos' = protos \/ (protos' = Shared),
         UNCHANGED <<watch, todo, list, had, missed, stage, closing, ids, names>>,
         queue' \in [Service -> Seq({"reload", "close"})],
         \A r \in Service \ {s} : queue'[r] = queue[r],
         gone \subseteq gone',
         Stale(s)' /\ ~changed /\ file[Newest] \notin Failing => ToReload(s)'
  PROVE  ReloadInv'
<1>1. ReloadTypes /\ MapsAgree /\ MachinesOK /\ NoneForgotten
  BY DEF ReloadInv
<1>2. /\ Newest \in Nat /\ Newest \in 1..Newest /\ Shared \in 1..Newest
      /\ ~changed => Shared = Newest
      /\ protos # 0 => Shared = protos
  BY <1>1, SharedIs
<1>3. Newest' = Newest
  BY DEF Newest
<1>4. Shared' = Shared
  BY <1>2, <1>3 DEF Shared
<1>5. /\ vm'[s] = w /\ \A r \in Service \ {s} : vm'[r] = vm[r]
      /\ vm' = [r \in Service |-> vm'[r]]
  BY <1>1 DEF ReloadTypes
<1>6. ReloadTypes'
  <2>1. protos' \in 0..Newest' /\ (~changed => protos' \in {0, Newest'})
    BY <1>1, <1>2, <1>3 DEF ReloadTypes
  <2>2. QED
    BY <1>1, <1>3, <1>5, <2>1 DEF ReloadTypes
<1>7. NoneOlder
  BY <1>1, <1>2, <1>3, <1>4 DEF NoneOlder, ReloadTypes
<1>8. MachinesOK'
  <2>1. MachineOK(w, file', Shared')
    BY <1>4
  <2>2. QED
    BY <1>1, <1>5, <1>7, <2>1, MachinesStay
<1>9. MapsAgree'
  BY <1>1 DEF MapsAgree
<1>10. ASSUME ~changed, file[Newest] \notin Failing, NEW r \in Service, r # s, Stale(r)'
       PROVE  ToReload(r)'
  <2>1. Stale(r)
    BY <1>3, <1>5, <1>10 DEF Stale, Version
  <2>2. ToReload(r)
    BY <1>1, <1>10, <2>1 DEF NoneForgotten
  <2>3. QED
    BY <1>10, <2>2 DEF ToReload
<1>11. NoneForgotten'
  BY <1>3, <1>10 DEF NoneForgotten
<1>12. QED
  BY <1>6, <1>8, <1>9, <1>11 DEF ReloadInv

LEMMA DeleteKeeps ==
  ASSUME ReloadInv, NEW s \in Service, Delete(s)
  PROVE  ReloadInv'
<1>1. /\ UNCHANGED <<file, changed, protos>>
      /\ UNCHANGED <<watch, todo, list, had, missed, stage, closing, ids, names>>
      /\ queue' = [queue EXCEPT ![s] = <<>>] /\ gone' = gone \cup {s}
      /\ vm' = [vm EXCEPT ![s] = NewVM]
  BY DEF Delete, fileVars, watchVars, stageVars, mapVars
<1>2. queue \in [Service -> Seq({"reload", "close"})]
  BY DEF ReloadInv, ReloadTypes
<1>3. /\ queue' \in [Service -> Seq({"reload", "close"})]
      /\ \A r \in Service \ {s} : queue'[r] = queue[r]
  BY <1>1, <1>2
<1>4. MachineOK(NewVM, file, Shared)
  BY DEF NewVM, MachineOK, Bare, Machine
<1>5. ~Stale(s)'
  BY <1>1 DEF Stale
<1>6. QED
  BY <1>1, <1>3, <1>4, <1>5, MachineKeeps

\* The newest version is what is loaded while no event waits for the watch.
LEMMA LoadedNewest ==
  ASSUME ReloadTypes, NEW s \in Service, NEW w, vm' = [vm EXCEPT ![s] = w],
         Loaded(w, file, Shared), UNCHANGED file
  PROVE  MachineOK(w, file, Shared) /\ (~changed /\ file[Newest] \notin Failing => ~Stale(s)')
<1>1. vm'[s] = w
  BY DEF ReloadTypes
<1>2. ~changed => Shared = Newest
  BY SharedIs
<1>3. Newest' = Newest
  BY DEF Newest
<1>4. QED
  BY <1>1, <1>2, <1>3 DEF Loaded, Stale, Version

LEMMA RequireKeeps ==
  ASSUME ReloadInv, NEW s \in Service, Require(s)
  PROVE  ReloadInv'
<1> DEFINE w == Required(vm[s], Shared, file[Shared])
<1>1. ReloadTypes /\ MachineOK(vm[s], file, Shared)
  BY DEF ReloadInv, MachinesOK
<1>2. /\ vm[s].loaded = NotLoaded /\ vm' = [vm EXCEPT ![s] = w]
      /\ UNCHANGED <<file, changed, queue, gone>>
      /\ UNCHANGED <<watch, todo, list, had, missed, stage, closing, ids, names>>
      /\ protos' = protos \/ protos' = Shared
  BY DEF Require, ShareProto, fileVars, watchVars, stageVars, mapVars
<1>3. file \in Seq(Kind) /\ Shared \in 1..Len(file)
  BY <1>1, SharedIs DEF ReloadTypes, Newest
<1>4. Loaded(w, file, Shared)
  BY <1>1, <1>2, <1>3, RequiredOK
<1> HIDE DEF w
<1>5. MachineOK(w, file, Shared) /\ (~changed /\ file[Newest] \notin Failing => ~Stale(s)')
  BY <1>1, <1>2, <1>4, LoadedNewest
<1>6. queue' \in [Service -> Seq({"reload", "close"})]
  BY <1>1, <1>2 DEF ReloadTypes
<1>7. QED
  BY <1>2, <1>5, <1>6, MachineKeeps

LEMMA ReloadKeeps ==
  ASSUME ReloadInv, NEW s \in Service, Reload(s)
  PROVE  ReloadInv'
<1>1. ReloadTypes /\ MachineOK(vm[s], file, Shared)
  BY DEF ReloadInv, MachinesOK
<1>2. /\ queue' = [queue EXCEPT ![s] = Tail(@)] /\ queue[s] # <<>>
      /\ UNCHANGED <<file, changed, gone>>
      /\ UNCHANGED <<watch, todo, list, had, missed, stage, closing, ids, names>>
  BY DEF Reload, fileVars, watchVars, stageVars, mapVars
<1>3. /\ queue' \in [Service -> Seq({"reload", "close"})]
      /\ \A r \in Service \ {s} : queue'[r] = queue[r]
  BY <1>1, <1>2 DEF ReloadTypes
<1>4. file \in Seq(Kind) /\ Shared \in 1..Len(file)
  BY <1>1, SharedIs DEF ReloadTypes, Newest
<1>5. CASE vm[s].loaded = NotLoaded
  <2> DEFINE w == vm[s]
  <2>1. UNCHANGED <<protos, vm>>
    BY <1>5 DEF Reload
  <2>2. vm' = [vm EXCEPT ![s] = w]
    BY <1>1, <2>1 DEF ReloadTypes
  <2>3. ~Stale(s)'
    BY <1>5, <2>1 DEF Stale, NotLoaded, Held
  <2>4. QED
    BY <1>1, <1>2, <1>3, <2>1, <2>2, <2>3, MachineKeeps
<1>6. CASE vm[s].loaded # NotLoaded
  <2> PICK w \in Hotfix(vm[s], Shared, file[Shared]) : vm' = [vm EXCEPT ![s] = w]
    BY <1>6 DEF Reload
  <2>1. protos' = protos \/ protos' = Shared
    BY <1>6 DEF Reload, ShareProto
  <2>2. Loaded(w, file, Shared)
    BY <1>1, <1>4, <1>6, HotfixOK
  <2>3. MachineOK(w, file, Shared) /\ (~changed /\ file[Newest] \notin Failing => ~Stale(s)')
    BY <1>1, <1>2, <2>2, LoadedNewest
  <2>4. QED
    BY <1>2, <1>3, <2>1, <2>3, MachineKeeps
<1>7. QED
  BY <1>5, <1>6

LEMMA UseKeeps ==
  ASSUME ReloadInv, NEW s \in Service, Use(s)
  PROVE  ReloadInv'
<1>1. ReloadTypes /\ MachineOK(vm[s], file, Shared) /\ NoneForgotten
  BY DEF ReloadInv, MachinesOK
<1> PICK t \in {Held, vm[s].loaded} \cap DOMAIN vm[s].tables :
           vm' = [vm EXCEPT ![s] = Constructed(Worked(@, t), t)]
  BY DEF Use
<1> DEFINE w == Constructed(Worked(vm[s], t), t)
<1>2. /\ vm' = [vm EXCEPT ![s] = w] /\ UNCHANGED <<file, changed, protos, queue, gone>>
      /\ UNCHANGED <<watch, todo, list, had, missed, stage, closing, ids, names>>
  BY DEF Use, fileVars, watchVars, stageVars, mapVars
<1>3. Shared \in Nat
  BY <1>1, SharedIs DEF Newest
<1>4. OfUse(w, vm[s], file, Shared)
  BY <1>1, <1>3, UsedOK
<1> HIDE DEF w
<1>5. vm'[s] = w /\ queue' \in [Service -> Seq({"reload", "close"})]
  BY <1>1, <1>2 DEF ReloadTypes
<1>6. Stale(s)' => Stale(s)
  BY <1>2, <1>4, <1>5 DEF Stale, Version, OfUse, Newest
<1>7. ToReload(s) => ToReload(s)'
  BY <1>2 DEF ToReload
<1>8. Stale(s)' /\ ~changed /\ file[Newest] \notin Failing => ToReload(s)'
  BY <1>1, <1>6, <1>7 DEF NoneForgotten
<1>9. QED
  BY <1>2, <1>4, <1>5, <1>8, MachineKeeps DEF OfUse

LEMMA ReloadStutters ==
  ASSUME ReloadInv, UNCHANGED reloadVars
  PROVE  ReloadInv'
<1>1. ReloadTypes /\ MapsAgree /\ MachinesOK /\ NoneForgotten
  BY DEF ReloadInv
<1>2. /\ Settled
      /\ UNCHANGED <<watch, todo, list, had, missed, gone, stage, closing, ids, names, queue>>
  BY DEF reloadVars, fileVars, watchVars, stageVars, mapVars, Settled
<1>3. ReloadTypes'
  BY <1>1, <1>2 DEF ReloadTypes, Settled, Newest
<1>4. MachinesOK'
  BY <1>1, <1>2, MachinesSettled
<1>5. MapsAgree'
  BY <1>1, <1>2 DEF MapsAgree
<1>6. \A s \in Service : ToReload(s) => ToReload(s)'
  BY <1>2 DEF ToReload
<1>7. NoneForgotten'
  BY <1>1, <1>2, <1>6, ForgottenStays
<1>8. QED
  BY <1>3, <1>4, <1>5, <1>7 DEF ReloadInv

\* The file as it is read first, and no service yet.
LEMMA ReloadBegins ==
  ASSUME ReloadInit
  PROVE  ReloadInv
<1>1. /\ file \in {<<k>> : k \in FirstKind} /\ changed = FALSE /\ protos = 0
      /\ watch = "idle" /\ todo = {} /\ list = {} /\ ids = {}
      /\ stage = [s \in Service |-> "none"] /\ closing = [s \in Service |-> "no"]
      /\ names = [n \in ServiceName |-> NoService]
      /\ queue = [s \in Service |-> <<>>] /\ vm = [s \in Service |-> NewVM]
  BY DEF ReloadInit
<1>2. file \in Seq(Kind) /\ Newest = 1
  <2>1. PICK k \in Kind : file = <<k>>
    BY <1>1, ReloadAssumption
  <2>2. <<k>> \in Seq(Kind) /\ Len(<<k>>) = 1
    OBVIOUS
  <2>3. QED
    BY <2>1, <2>2 DEF Newest
<1>3. ReloadTypes
  BY <1>1, <1>2 DEF ReloadTypes
<1>4. MapsAgree
  BY <1>1 DEF MapsAgree
<1>5. MachineOK(NewVM, file, Shared)
  BY DEF NewVM, MachineOK, Bare, Machine
<1>6. MachinesOK
  BY <1>1, <1>5 DEF MachinesOK
<1>7. \A s \in Service : ~Stale(s)
  BY <1>1 DEF Stale, NewVM, NotLoaded, Held
<1>8. QED
  BY <1>3, <1>4, <1>6, <1>7 DEF ReloadInv, NoneForgotten

\* What is found by name is found by id, no machine mixes versions or loses
\* state until a hotfix raises, and a reload is on its way to whoever has an old
\* version and was not missed.
THEOREM ReloadInvariant == ReloadSpec => []ReloadInv
<1>1. ReloadInit => ReloadInv
  BY ReloadBegins
<1>2. ReloadInv /\ [ReloadNext]_reloadVars => ReloadInv'
  BY EditKeeps, EvictKeeps, ValuesKeeps, ValuesDoneKeeps, SendKeeps, SendDoneKeeps,
     MappingKeeps, CloseKeeps, DeleteKeeps, RequireKeeps, ReloadKeeps, UseKeeps,
     ReloadStutters DEF ReloadNext
<1>3. QED
  BY <1>1, <1>2, PTL DEF ReloadSpec

\* Until a hotfix raises, the table that a service's code holds for the module
\* is the only one it uses, and all functions in it are of one version, however
\* often and in whatever order the file changes.
THEOREM ReloadWhole == ReloadSpec => []ReloadIsWhole
<1>1. ReloadInv => ReloadIsWhole
  <2> SUFFICES ASSUME ReloadInv, NEW s \in Service, ~vm[s].raised
               PROVE  IF vm[s].loaded = Held
                        THEN Whole(vm[s]) /\ (file[Version(s)] = "nested" =>
                                                 vm[s].tables[Held].sub = Version(s))
                        ELSE vm[s].tables = <<>>
    BY DEF ReloadIsWhole, Version
  <2>1. Bare(vm[s]) \/ (vm[s].loaded = Held /\ HeldOK(vm[s], file, Shared))
    BY DEF ReloadInv, MachinesOK, MachineOK
  <2>2. CASE vm[s].loaded = Held
    <3>1. HeldOK(vm[s], file, Shared)
      BY <2>1, <2>2 DEF Bare, Held, NotLoaded, LoadedTrue
    <3>2. QED
      BY <2>2, <3>1 DEF HeldOK, Whole, Version, Fn
  <2>3. CASE vm[s].loaded # Held
    BY <2>1, <2>3 DEF Bare
  <2>4. QED
    BY <2>2, <2>3
<1>2. QED
  BY <1>1, ReloadInvariant, PTL

\* Until a hotfix raises, updateFunc and reinvokeCtorAfterHotfix lose nothing:
\* the counter shows every call, and every instance is of the class the code
\* holds, with the fields of its current constructor if that runs.
THEOREM ReloadKeepsState == ReloadSpec => []StateSurvives
<1>1. ReloadInv => StateSurvives
  <2> SUFFICES ASSUME ReloadInv, NEW s \in Service, ~vm[s].raised, vm[s].loaded = Held
               PROVE  /\ Survived(vm[s])
                      /\ LET v == vm[s].tables[Held].fns["ctor"] IN
                         file[v] # "strict" => \A i \in vm[s].instances : i.fields = v
    BY DEF StateSurvives
  <2>1. HeldOK(vm[s], file, Shared)
    BY DEF ReloadInv, MachinesOK, MachineOK, Bare, Held, NotLoaded, LoadedTrue
  <2>2. QED
    BY <2>1 DEF HeldOK, Survived, Fn
<1>2. QED
  BY <1>1, ReloadInvariant, PTL

\* Whoever has the module ends up with the newest version of the file, whatever
\* is edited, started and closed meanwhile, unless values() missed the service
\* or a hotfix raised in it.
THEOREM ReloadReaches == ReloadSpec => []ReloadReachesAll
<1>1. ReloadInv => ReloadReachesAll
  <2> SUFFICES ASSUME ReloadInv, NEW s \in Service \ missed, Quiet(s),
                      vm[s].loaded = Held, ~vm[s].raised, file[Newest] \notin Failing,
                      Version(s) # Newest
               PROVE  FALSE
    BY DEF ReloadReachesAll, Version
  <2>1. ~changed /\ watch = "idle" /\ queue[s] = <<>> /\ s \notin gone /\ closing[s] = "no"
    BY DEF Quiet, Running
  <2>2. ToReload(s)
    BY <2>1 DEF ReloadInv, NoneForgotten, Stale
  <2>3. Len(queue[s]) = 0
    BY <2>1
  <2>4. QED
    BY <2>1, <2>2, <2>3 DEF ToReload
<1>2. QED
  BY <1>1, ReloadInvariant, PTL

=============================================================================
