------------------------- MODULE MFMessagePool_proofs -------------------------
(***************************************************************************)
(* Proofs about MFMessagePool, for every number of services, threads,      *)
(* objects and broadcasts and every length of a list.                      *)
(***************************************************************************)
EXTENDS MFMessagePool, FiniteSetTheorems, SequenceTheorems, TLAPS

\* What a thread and a service hold at each place.
ThreadPlace(t) ==
  /\ pc[t] \in ThreadPc \cup ResetPc
  /\ IF pc[t] = "idle" THEN entry[t] = Close /\ list[t] = <<>> ELSE entry[t] \in Entry
  /\ pc[t] = "push" => target[t] \in Service

ServicePlace(s) ==
  /\ pc[s] \in ServicePc \cup ResetPc
  /\ pc[s] \in {"handle"} \cup ResetPc => entry[s] \in Entry
  /\ pc[s] = "drop" => s \in gone

PlaceInv ==
  /\ \A t \in Thread : ThreadPlace(t)
  /\ \A s \in Service : ServicePlace(s)

\* A service is sent one close message, which it takes before it is destroyed.
CloseInv ==
  /\ gone \subseteq closing
  /\ \A s \in Service : \A i \in DOMAIN queue[s] :
       queue[s][i] = Close => /\ s \in closing \ gone
                              /\ \A j \in DOMAIN queue[s] : queue[s][j] = Close => j = i

\* RefCountExact, of finite sets.
CountOf(o) ==
  /\ IsFiniteSet(Queued(o)) /\ IsFiniteSet(Holders(o)) /\ IsFiniteSet(Unvisited(o))
  /\ refCount[o] = Cardinality(Queued(o)) + Cardinality(Holders(o))
                     + Cardinality(Unvisited(o)) + lost[o]

Counted == \A o \in Object : CountOf(o)

\* The process that has o to itself: it fills it, or has reset it last and has
\* still to push it.
Owners(o) ==
  {p \in Process : /\ entry[p].obj = o
                   /\ \/ pc[p] \in {"fill", "recycle"}
                      \/ pc[p] = "finish" /\ o \in Multi}

\* An object is in its pool or not made, or one process owns it, or it has
\* references, or it was leaked.
OwnerOf(o) ==
  /\ pool[o] \in {0, 1}
  /\ o \notin made => pool[o] = 0
  /\ pool[o] = 1 \/ o \notin made => refCount[o] = 0 /\ Owners(o) = {}
  /\ \A p \in Owners(o) : refCount[o] = 0 /\ Owners(o) = {p}
  /\ o \in made => pool[o] = 1 \/ Owners(o) # {} \/ refCount[o] > 0 \/ size[o] = 0

OwnerInv == \A o \in Object : OwnerOf(o)

\* Whoever has a reference to a multi message is of the broadcast whose data it
\* has; once it is wiped it stays so until it is filled.
DataOf(o) ==
  /\ \A s \in Service : \A i \in DOMAIN queue[s] :
       queue[s][i].obj = o => queue[s][i].call = payload[o]
  /\ \A p \in Holders(o) : entry[p].call = payload[o]
  /\ \A t \in Thread : entry[t].obj = o /\ pc[t] # "fill" /\ list[t] # <<>>
                         => entry[t].call = payload[o]
  /\ pool[o] = 1 => payload[o] = 0
  /\ \A p \in Process : pc[p] = "finish" /\ entry[p].obj = o => payload[o] = 0

DataInv == \A o \in Multi : DataOf(o)

PoolInv == TypeOK /\ PlaceInv /\ CloseInv /\ Counted /\ OwnerInv /\ DataInv

-----------------------------------------------------------------------------
(* Counting. *)

LEMMA OneMore ==
  ASSUME NEW S, IsFiniteSet(S), NEW x, x \notin S
  PROVE  /\ IsFiniteSet(S \cup {x}) /\ Cardinality(S) \in Nat
         /\ Cardinality(S \cup {x}) = Cardinality(S) + 1
  BY FS_AddElement, FS_CardinalityType

LEMMA Grown ==
  ASSUME NEW A, NEW B, NEW x, A \subseteq B, B \subseteq A \cup {x}
  PROVE  B = IF x \in B THEN A \cup {x} ELSE A
  OBVIOUS

LEMMA OneLess ==
  ASSUME NEW S, IsFiniteSet(S), NEW x, x \in S
  PROVE  /\ IsFiniteSet(S \ {x}) /\ Cardinality(S) \in Nat
         /\ Cardinality(S \ {x}) = Cardinality(S) - 1
  BY FS_RemoveElement, FS_CardinalityType

\* The entries of a queue that point to an object, by place.
LEMMA QueuedIs ==
  ASSUME NEW o
  PROVE  /\ \A s \in Service : \A i \in 1..Len(queue[s]) :
              <<s, i>> \in Queued(o) <=> queue[s][i].obj = o
         /\ \A x \in Queued(o) : \E s \in Service : \E i \in 1..Len(queue[s]) :
              x = <<s, i>> /\ queue[s][i].obj = o
  BY DEF Queued

LEMMA QueuedIsNext ==
  ASSUME NEW o
  PROVE  /\ \A s \in Service : \A i \in 1..Len(queue'[s]) :
              <<s, i>> \in Queued(o)' <=> queue'[s][i].obj = o
         /\ \A x \in Queued(o)' : \E s \in Service : \E i \in 1..Len(queue'[s]) :
              x = <<s, i>> /\ queue'[s][i].obj = o
  BY DEF Queued

\* pushMessage and closeService.
LEMMA AppendQueued ==
  ASSUME TypeOK, NEW s \in Service, NEW e \in Entry \cup {Close},
         queue' = [queue EXCEPT ![s] = Append(@, e)],
         NEW o \in Object, IsFiniteSet(Queued(o))
  PROVE  /\ IsFiniteSet(Queued(o)')
         /\ Cardinality(Queued(o)') =
              Cardinality(Queued(o)) + (IF e.obj = o THEN 1 ELSE 0)
<1> DEFINE n == Len(queue[s]) + 1
<1>1. /\ queue[s] \in Seq(Entry \cup {Close}) /\ queue'[s] = Append(queue[s], e)
      /\ \A t \in Service \ {s} : queue'[t] = queue[t]
  BY DEF TypeOK
<1>2. /\ n \in Nat /\ Len(queue'[s]) = n /\ n \in 1..Len(queue'[s])
      /\ n \notin 1..Len(queue[s])
      /\ 1..n = 1..Len(queue[s]) \cup {n}
      /\ \A i \in 1..Len(queue[s]) : queue'[s][i] = queue[s][i]
      /\ queue'[s][n] = e
  BY <1>1
<1> HIDE DEF n
<1>3. <<s, n>> \notin Queued(o)
  BY <1>2, QueuedIs
<1>4. Queued(o)' = IF e.obj = o THEN Queued(o) \cup {<<s, n>>} ELSE Queued(o)
  <2>1. ASSUME NEW x \in Queued(o)
        PROVE  x \in Queued(o)'
    <3>0. PICK t \in Service : \E i \in 1..Len(queue[t]) : x = <<t, i>> /\ queue[t][i].obj = o
      BY QueuedIs
    <3>1. PICK i \in 1..Len(queue[t]) : x = <<t, i>> /\ queue[t][i].obj = o
      BY <3>0
    <3>2. i \in 1..Len(queue'[t]) /\ queue'[t][i] = queue[t][i]
      BY <1>1, <1>2
    <3> QED
      BY <3>1, <3>2, QueuedIsNext
  <2>2. ASSUME NEW x \in Queued(o)', x # <<s, n>>
        PROVE  x \in Queued(o)
    <3>0. PICK t \in Service : \E i \in 1..Len(queue'[t]) : x = <<t, i>> /\ queue'[t][i].obj = o
      BY QueuedIsNext
    <3>1. PICK i \in 1..Len(queue'[t]) : x = <<t, i>> /\ queue'[t][i].obj = o
      BY <3>0
    <3>2. i \in 1..Len(queue[t]) /\ queue'[t][i] = queue[t][i]
      BY <1>1, <1>2, <2>2, <3>1
    <3> QED
      BY <3>1, <3>2, QueuedIs
  <2>3. <<s, n>> \in Queued(o)' <=> e.obj = o
    BY <1>2, QueuedIsNext
  <2>4. /\ Queued(o) \subseteq Queued(o)'
        /\ Queued(o)' \subseteq Queued(o) \cup {<<s, n>>}
    BY <2>1, <2>2
  <2>5. Queued(o)' = IF <<s, n>> \in Queued(o)' THEN Queued(o) \cup {<<s, n>>}
                                                ELSE Queued(o)
    BY <2>4, Grown
  <2> QED
    BY <2>3, <2>5
<1> QED
  BY <1>3, <1>4, OneMore, FS_CardinalityType

\* try_dequeue.
LEMMA TailQueued ==
  ASSUME TypeOK, NEW s \in Service, queue[s] # <<>>,
         queue' = [queue EXCEPT ![s] = Tail(@)],
         NEW o \in Object, IsFiniteSet(Queued(o))
  PROVE  /\ IsFiniteSet(Queued(o)')
         /\ Cardinality(Queued(o)') =
              Cardinality(Queued(o)) - (IF Head(queue[s]).obj = o THEN 1 ELSE 0)
<1> DEFINE q == queue[s]
           D == Queued(o) \ {<<s, 1>>}
           f == [x \in D |-> <<x[1], IF x[1] = s THEN x[2] - 1 ELSE x[2]>>]
<1>1. /\ q \in Seq(Entry \cup {Close}) /\ queue'[s] = Tail(q)
      /\ \A t \in Service \ {s} : queue'[t] = queue[t]
      /\ \A t \in Service : Len(queue[t]) \in Nat
  BY DEF TypeOK
<1>2. /\ Len(q) \in Nat /\ Len(q) >= 1 /\ Len(Tail(q)) = Len(q) - 1
      /\ \A i \in 1..Len(Tail(q)) : Tail(q)[i] = q[i + 1]
      /\ Head(q) = q[1]
  BY <1>1
<1> HIDE DEF q
<1>3. <<s, 1>> \in Queued(o) <=> Head(q).obj = o
  BY <1>2, QueuedIs DEF q
<1>4. f \in Bijection(D, Queued(o)')
  <2>1. ASSUME NEW x \in D
        PROVE  /\ f[x] \in Queued(o)'
               /\ \E t \in Service : \E i \in Nat : x = <<t, i>>
    <3>0. PICK t \in Service : \E i \in 1..Len(queue[t]) : x = <<t, i>> /\ queue[t][i].obj = o
      BY QueuedIs
    <3>1. PICK i \in 1..Len(queue[t]) : x = <<t, i>> /\ queue[t][i].obj = o
      BY <3>0
    <3>2. CASE t # s
      BY <1>1, <3>1, <3>2, QueuedIsNext
    <3>3. CASE t = s
      <4>1. i # 1 /\ i - 1 \in 1..Len(Tail(q)) /\ i \in Nat
        BY <1>1, <1>2, <3>1, <3>3 DEF q
      <4>2. Tail(q)[i - 1] = q[i]
        BY <1>2, <4>1
      <4>3. <<s, i - 1>> \in Queued(o)'
        <5>1. i - 1 \in 1..Len(queue'[s]) /\ queue'[s][i - 1] = queue[s][i]
          BY <1>1, <4>1, <4>2 DEF q
        <5> QED
          BY <3>1, <3>3, <5>1, QueuedIsNext
      <4> QED
        BY <3>1, <3>3, <4>1, <4>3
    <3> QED
      BY <3>2, <3>3
  <2>2. ASSUME NEW y \in Queued(o)'
        PROVE  \E x \in D : f[x] = y
    <3>0. PICK t \in Service : \E i \in 1..Len(queue'[t]) : y = <<t, i>> /\ queue'[t][i].obj = o
      BY QueuedIsNext
    <3>1. PICK i \in 1..Len(queue'[t]) : y = <<t, i>> /\ queue'[t][i].obj = o
      BY <3>0
    <3>2. CASE t # s
      <4>1. <<t, i>> \in D
        BY <1>1, <3>1, <3>2, QueuedIs
      <4> QED
        BY <3>1, <3>2, <4>1
    <3>3. CASE t = s
      <4>1. /\ i \in Nat /\ i + 1 \in 1..Len(q) /\ i + 1 # 1
            /\ queue'[s][i] = q[i + 1]
        <5>1. i \in 1..Len(Tail(q))
          BY <1>1, <3>3
        <5>2. Tail(q)[i] = q[i + 1]
          BY <1>2, <5>1
        <5>3. queue'[s][i] = q[i + 1]
          BY <1>1, <5>2
        <5>4. Len(q) \in Nat /\ i \in 1..(Len(q) - 1)
          BY <1>2, <5>1
        <5> HIDE DEF f, D
        <5>5. i \in Nat /\ i + 1 \in 1..Len(q) /\ i + 1 # 1
          BY <5>4
        <5> QED
          BY <5>3, <5>5
      <4>2. <<s, i + 1>> \in D
        BY <3>1, <3>3, <4>1, QueuedIs DEF q
      <4>3. f[<<s, i + 1>>] = <<s, i>>
        BY <4>1, <4>2
      <4> QED
        BY <3>1, <3>3, <4>2, <4>3
    <3> QED
      BY <3>2, <3>3
  <2>3. ASSUME NEW x \in D, NEW y \in D, f[x] = f[y]
        PROVE  x = y
    <3>1. PICK t \in Service : \E i \in Nat : x = <<t, i>>
      BY <2>1
    <3>2. PICK i \in Nat : x = <<t, i>>
      BY <3>1
    <3>4. PICK u \in Service : \E j \in Nat : y = <<u, j>>
      BY <2>1
    <3>5. PICK j \in Nat : y = <<u, j>>
      BY <3>4
    <3>6. f[x] = <<t, IF t = s THEN i - 1 ELSE i>> /\ f[y] = <<u, IF u = s THEN j - 1 ELSE j>>
      BY <3>2, <3>5
    <3>7. t = u /\ i = j
      BY <2>3, <3>6
    <3> QED
      BY <3>2, <3>5, <3>7
  <2>4. f \in [D -> Queued(o)']
    BY <2>1
  <2> HIDE DEF f, D
  <2> QED
    BY <2>2, <2>3, <2>4 DEF Bijection, Injection, Surjection, IsInjective
<1>5. /\ IsFiniteSet(D)
      /\ Cardinality(D) = Cardinality(Queued(o)) - (IF Head(q).obj = o THEN 1 ELSE 0)
  BY <1>3, FS_RemoveElement, FS_CardinalityType
<1>6. ExistsBijection(D, Queued(o)')
  BY <1>4 DEF ExistsBijection
<1> HIDE DEF D, f
<1> QED
  BY <1>5, <1>6, FS_Bijection DEF q

\* The destructor: what it cannot reach goes down with the queue.
LEMMA ClearQueued ==
  ASSUME TypeOK, NEW s \in Service, queue' = [queue EXCEPT ![s] = <<>>],
         NEW o \in Object, IsFiniteSet(Queued(o))
  PROVE  LET P == {i \in 1..Len(queue[s]) : queue[s][i].obj = o} IN
           /\ IsFiniteSet(Queued(o)') /\ Cardinality(P) \in Nat
           /\ Cardinality(Queued(o)') = Cardinality(Queued(o)) - Cardinality(P)
<1> DEFINE P == {i \in 1..Len(queue[s]) : queue[s][i].obj = o}
           T == {<<s, i>> : i \in P}
           f == [i \in P |-> <<s, i>>]
<1>1. /\ Len(queue[s]) \in Nat /\ queue'[s] = <<>>
      /\ \A t \in Service \ {s} : queue'[t] = queue[t]
  BY DEF TypeOK
<1>2. IsFiniteSet(P) /\ Cardinality(P) \in Nat
  <2>1. IsFiniteSet(1..Len(queue[s]))
    BY <1>1, FS_Interval
  <2> QED
    BY <2>1, FS_Subset, FS_CardinalityType
<1>3. IsFiniteSet(T) /\ Cardinality(T) = Cardinality(P)
  <2>1. f \in Bijection(P, T)
    BY DEF Bijection, Injection, Surjection, IsInjective
  <2>2. ExistsBijection(P, T)
    BY <2>1 DEF ExistsBijection
  <2> HIDE DEF P, T
  <2> QED
    BY <1>2, <2>2, FS_Bijection
<1>4. T \subseteq Queued(o)
  BY QueuedIs
<1>5. Queued(o)' = Queued(o) \ T
  <2>1. ASSUME NEW x \in Queued(o)' PROVE x \in Queued(o) \ T
    <3>1. PICK t \in Service : \E i \in 1..Len(queue'[t]) : x = <<t, i>> /\ queue'[t][i].obj = o
      BY QueuedIsNext
    <3>2. t # s
      BY <1>1, <3>1
    <3> QED
      BY <1>1, <3>1, <3>2, QueuedIs
  <2>2. ASSUME NEW x \in Queued(o) \ T PROVE x \in Queued(o)'
    <3>1. PICK t \in Service : \E i \in 1..Len(queue[t]) : x = <<t, i>> /\ queue[t][i].obj = o
      BY QueuedIs
    <3>2. t # s
      BY <2>2, <3>1
    <3> QED
      BY <1>1, <3>1, <3>2, QueuedIsNext
  <2> HIDE DEF T
  <2> QED
    BY <2>1, <2>2
<1> HIDE DEF P, T, f
<1>6. Queued(o) \cap T = T
  BY <1>4
<1>7. /\ IsFiniteSet(Queued(o) \ T)
      /\ Cardinality(Queued(o) \ T) = Cardinality(Queued(o)) - Cardinality(T)
  BY <1>6, FS_Difference
<1> QED
  BY <1>2, <1>3, <1>5, <1>7 DEF P

\* A step of one process.
LEMMA HoldersStep ==
  ASSUME NEW p \in Process,
         \A q \in Process \ {p} : pc'[q] = pc[q] /\ entry'[q] = entry[q],
         NEW o, IsFiniteSet(Holders(o))
  PROVE  /\ IsFiniteSet(Holders(o)')
         /\ (p \in Holders(o) <=> p \in Holders(o)') => Holders(o)' = Holders(o)
         /\ p \notin Holders(o) /\ p \in Holders(o)' =>
              Cardinality(Holders(o)') = Cardinality(Holders(o)) + 1
         /\ p \in Holders(o) /\ p \notin Holders(o)' =>
              Cardinality(Holders(o)') = Cardinality(Holders(o)) - 1
<1>1. \A q \in Process \ {p} : q \in Holders(o) <=> q \in Holders(o)'
  BY DEF Holders
<1>2. Holders(o) \subseteq Process /\ Holders(o)' \subseteq Process
  BY DEF Holders
<1>3. CASE p \in Holders(o) <=> p \in Holders(o)'
  <2>1. Holders(o)' = Holders(o)
    BY <1>1, <1>2, <1>3
  <2> QED
    BY <1>3, <2>1
<1>4. CASE p \notin Holders(o) /\ p \in Holders(o)'
  <2>1. Holders(o)' = Holders(o) \cup {p}
    BY <1>1, <1>2, <1>4
  <2> QED
    BY <1>4, <2>1, OneMore
<1>5. CASE p \in Holders(o) /\ p \notin Holders(o)'
  <2>1. Holders(o)' = Holders(o) \ {p}
    BY <1>1, <1>2, <1>5
  <2> QED
    BY <1>5, <2>1, OneLess
<1> QED
  BY <1>3, <1>4, <1>5

LEMMA UnvisitedIs ==
  ASSUME NEW o
  PROVE  /\ \A t \in Thread : \A i \in DOMAIN list[t] :
              <<t, i>> \in Unvisited(o) <=> entry[t].obj = o /\ pc[t] # "fill"
         /\ \A x \in Unvisited(o) : \E t \in Thread : \E i \in DOMAIN list[t] :
              x = <<t, i>> /\ entry[t].obj = o /\ pc[t] # "fill"
  BY DEF Unvisited

LEMMA UnvisitedIsNext ==
  ASSUME NEW o
  PROVE  /\ \A t \in Thread : \A i \in DOMAIN list'[t] :
              <<t, i>> \in Unvisited(o)' <=> entry'[t].obj = o /\ pc'[t] # "fill"
         /\ \A x \in Unvisited(o)' : \E t \in Thread : \E i \in DOMAIN list'[t] :
              x = <<t, i>> /\ entry'[t].obj = o /\ pc'[t] # "fill"
  BY DEF Unvisited

\* Whatever does not touch a list that counts.
LEMMA UnvisitedFrame ==
  ASSUME NEW o,
         \A t \in Thread :
           \/ list'[t] = list[t] /\ (entry[t].obj = o /\ pc[t] # "fill"
                                      <=> entry'[t].obj = o /\ pc'[t] # "fill")
           \/ /\ list[t] = <<>> \/ entry[t].obj # o \/ pc[t] = "fill"
              /\ list'[t] = <<>> \/ entry'[t].obj # o \/ pc'[t] = "fill"
  PROVE  Unvisited(o)' = Unvisited(o)
<1>1. ASSUME NEW x \in Unvisited(o) PROVE x \in Unvisited(o)'
  <2>1. PICK t \in Thread : \E i \in DOMAIN list[t] :
              x = <<t, i>> /\ entry[t].obj = o /\ pc[t] # "fill"
    BY UnvisitedIs
  <2> QED
    BY <2>1, UnvisitedIsNext
<1>2. ASSUME NEW x \in Unvisited(o)' PROVE x \in Unvisited(o)
  <2>1. PICK t \in Thread : \E i \in DOMAIN list'[t] :
              x = <<t, i>> /\ entry'[t].obj = o /\ pc'[t] # "fill"
    BY UnvisitedIsNext
  <2> QED
    BY <2>1, UnvisitedIs
<1> QED
  BY <1>1, <1>2

\* The lists of receivers, as sequences.
LEMMA ListFacts ==
  ASSUME NEW l \in UNION {[1..n -> Service] : n \in 0..MaxList}
  PROVE  /\ l \in Seq(Service) /\ Len(l) \in 0..MaxList /\ DOMAIN l = 1..Len(l)
         /\ l # <<>> => /\ Head(l) \in Service
                        /\ Tail(l) \in UNION {[1..n -> Service] : n \in 0..MaxList}
                        /\ Len(l) \in DOMAIN l
                        /\ DOMAIN Tail(l) = DOMAIN l \ {Len(l)}
<1>1. PICK n \in 0..MaxList : l \in [1..n -> Service]
  OBVIOUS
<1>2. n \in Nat /\ l \in Seq(Service) /\ Len(l) = n
  BY <1>1, PoolAssumption
<1>3. ASSUME l # <<>>
      PROVE  /\ Head(l) \in Service
             /\ Tail(l) \in UNION {[1..k -> Service] : k \in 0..MaxList}
             /\ Len(l) \in DOMAIN l
             /\ DOMAIN Tail(l) = DOMAIN l \ {Len(l)}
  <2>1. /\ n >= 1 /\ Tail(l) \in Seq(Service) /\ Len(Tail(l)) = n - 1
        /\ Head(l) \in Service
    BY <1>2, <1>3
  <2>2. Tail(l) \in [1..(n - 1) -> Service] /\ n - 1 \in 0..MaxList
    <3>1. Tail(l) \in [1..Len(Tail(l)) -> Service]
      BY <2>1, LenProperties
    <3> QED
      BY <1>1, <2>1, <3>1, PoolAssumption
  <2>3. 1..(n - 1) = (1..n) \ {n} /\ n \in 1..n
    BY <1>2, <2>1
  <2>4. DOMAIN l = 1..n /\ DOMAIN Tail(l) = 1..(n - 1)
    BY <1>1, <2>2
  <2>5. Tail(l) \in UNION {[1..k -> Service] : k \in 0..MaxList}
    BY <2>2
  <2> QED
    BY <1>2, <2>1, <2>3, <2>4, <2>5
<1> QED
  BY <1>1, <1>2, <1>3

-----------------------------------------------------------------------------
(* The types and the places. *)

\* What a reset is of.
Resets(p) == Release(p) \/ Recycle(p) \/ Finish(p)

LEMMA Referred ==
  ASSUME TypeOK, Counted, NEW o \in Object
  PROVE  /\ lost[o] \in Nat /\ refCount[o] \in Nat
         /\ Cardinality(Queued(o)) \in Nat /\ Cardinality(Holders(o)) \in Nat
         /\ Cardinality(Unvisited(o)) \in Nat
         /\ refCount[o] = 0 => /\ Queued(o) = {} /\ Holders(o) = {}
                               /\ Unvisited(o) = {} /\ lost[o] = 0
<1>1. lost[o] \in Nat /\ refCount[o] \in Nat
  BY PoolAssumption DEF TypeOK
<1>2. /\ IsFiniteSet(Queued(o)) /\ IsFiniteSet(Holders(o)) /\ IsFiniteSet(Unvisited(o))
      /\ refCount[o] = Cardinality(Queued(o)) + Cardinality(Holders(o))
                         + Cardinality(Unvisited(o)) + lost[o]
  BY DEF Counted, CountOf
<1>3. /\ Cardinality(Queued(o)) \in Nat /\ Cardinality(Holders(o)) \in Nat
      /\ Cardinality(Unvisited(o)) \in Nat
  BY <1>2, FS_CardinalityType
<1>4. ASSUME refCount[o] = 0
      PROVE  /\ Cardinality(Queued(o)) = 0 /\ Cardinality(Holders(o)) = 0
             /\ Cardinality(Unvisited(o)) = 0 /\ lost[o] = 0
  <2>1. \A a, b, c, d \in Nat : a + b + c + d = 0 => a = 0 /\ b = 0 /\ c = 0 /\ d = 0
    OBVIOUS
  <2>2. Cardinality(Queued(o)) + Cardinality(Holders(o))
          + Cardinality(Unvisited(o)) + lost[o] = 0
    BY <1>2, <1>4
  <2> QED
    BY <1>1, <1>3, <2>1, <2>2
<1> QED
  BY <1>1, <1>2, <1>3, <1>4, FS_EmptySet

\* The references of an object that is being reset.
LEMMA ResetEntry ==
  ASSUME TypeOK, PlaceInv, NEW p \in Process, pc[p] \in ResetPc
  PROVE  /\ entry[p] \in Entry /\ entry[p].obj \in Object
         /\ Resume(p) \in {"visit", "drop", "idle"}
         /\ p \in Thread => Resume(p) = "visit"
         /\ p \in Service => Resume(p) \in {"drop", "idle"}
  BY PoolAssumption DEF PlaceInv, ThreadPlace, ServicePlace, Process, Entry, Resume, ResetPc

LEMMA StepTyped ==
  ASSUME TypeOK, PlaceInv, Counted, [Next]_vars
  PROVE  TypeOK'
<1> USE DEF threadVars, objectVars, serviceVars
<1>0. /\ Thread \subseteq Process /\ Service \subseteq Process
      /\ pc \in [Process -> ThreadPc \cup ServicePc \cup ResetPc]
      /\ \A p \in Process, place \in ThreadPc \cup ServicePc \cup ResetPc :
           Goto(p, place) => pc' \in [Process -> ThreadPc \cup ServicePc \cup ResetPc]
  BY DEF TypeOK, Process, Goto
<1>1. ASSUME NEW t \in Thread, NEW o \in Object, Pop(t, o) PROVE TypeOK'
  <2>1. pc' \in [Process -> ThreadPc \cup ServicePc \cup ResetPc]
    BY <1>0, <1>1 DEF Pop, ThreadPc
  <2>2. calls' \in 1..MaxCalls /\ calls' \in 0..MaxCalls /\ calls' = calls + 1
    BY <1>1, PoolAssumption DEF Pop, TypeOK
  <2>3. entry' \in [Process -> Entry \cup {Close}]
    BY <1>0, <1>1, <2>2 DEF Pop, TypeOK, Entry
  <2>4. list' \in [Thread -> UNION {[1..n -> Service] : n \in 0..MaxList}]
    <3>1. PICK l \in Lists(t) : list' = [list EXCEPT ![t] = l]
      BY <1>1 DEF Pop
    <3>2. l \in UNION {[1..n -> Service] : n \in 0..MaxList}
      BY <3>1 DEF Lists
    <3>3. list \in [Thread -> UNION {[1..n -> Service] : n \in 0..MaxList}]
      BY DEF TypeOK
    <3> QED
      BY <3>1, <3>2, <3>3
  <2>5. pool' \in [Object -> Nat] /\ made' \in SUBSET Object
    <3>1. pool[o] > 0 => pool[o] - 1 \in Nat
      BY DEF TypeOK
    <3> QED
      BY <1>1, <3>1 DEF Pop, TypeOK
  <2> QED
    BY <1>1, <2>1, <2>2, <2>3, <2>4, <2>5 DEF Pop, TypeOK
<1>2. ASSUME NEW t \in Thread, Fill(t) PROVE TypeOK'
  <2>1. Len(list[t]) \in 0..MaxList
    BY ListFacts DEF TypeOK
  <2>2. entry[t] \in Entry
    BY <1>2 DEF Fill, PlaceInv, ThreadPlace
  <2>3. entry[t].call \in 0..MaxCalls
    BY <2>2, PoolAssumption DEF Entry
  <2>4. pc' \in [Process -> ThreadPc \cup ServicePc \cup ResetPc]
    BY <1>0, <1>2 DEF Fill, ThreadPc
  <2> QED
    BY <1>2, <2>1, <2>3, <2>4 DEF Fill, TypeOK
<1>3. ASSUME NEW t \in Thread, Visit(t) PROVE TypeOK'
  <2>1. /\ Head(list[t]) \in Service
        /\ Tail(list[t]) \in UNION {[1..n -> Service] : n \in 0..MaxList}
    BY <1>3, ListFacts DEF Visit, TypeOK
  <2>2. pc' \in [Process -> ThreadPc \cup ServicePc \cup ResetPc]
    BY <1>0, <1>3 DEF Visit, ThreadPc, ResetPc
  <2> QED
    BY <1>3, <2>1, <2>2 DEF Visit, TypeOK
<1>4. ASSUME NEW t \in Thread, Push(t) PROVE TypeOK'
  <2>1. target[t] \in Service /\ entry[t] \in Entry /\ entry[t].obj \in Object
    BY <1>4 DEF Push, PlaceInv, ThreadPlace, Entry
  <2>2. pc' \in [Process -> ThreadPc \cup ServicePc \cup ResetPc]
    BY <1>0, <1>4 DEF Push, ThreadPc
  <2>3. Append(queue[target[t]], entry[t]) \in Seq(Entry \cup {Close})
    BY <2>1, AppendProperties DEF TypeOK
  <2>4. queue' \in [Service -> Seq(Entry \cup {Close})]
    BY <1>4, <2>1, <2>3 DEF Push, TypeOK
  <2>5. lost' \in [Object -> Nat]
    <3>1. lost[entry[t].obj] + 1 \in Nat
      BY <2>1 DEF TypeOK
    <3> QED
      BY <1>4, <3>1 DEF Push, TypeOK
  <2> QED
    BY <1>4, <2>2, <2>4, <2>5 DEF Push, TypeOK
<1>5. ASSUME NEW t \in Thread, Link(t) \/ Return(t) PROVE TypeOK'
  <2>1. pc' \in [Process -> ThreadPc \cup ServicePc \cup ResetPc]
    BY <1>0, <1>5 DEF Link, Return, ThreadPc
  <2> QED
    BY <1>0, <1>5, <2>1 DEF Link, Return, TypeOK
<1>6. ASSUME NEW p \in Process, Release(p) PROVE TypeOK'
  <2> DEFINE o == entry[p].obj
  <2>1. o \in Object /\ Resume(p) \in ThreadPc \cup ServicePc
    BY <1>6, ResetEntry DEF Release, ResetPc, ThreadPc, ServicePc
  <2>2. p \in Holders(o)
    BY <1>6 DEF Release, Holders
  <2>3. refCount[o] # 0 /\ refCount[o] \in 0..MaxList
    BY <2>1, <2>2, Referred DEF TypeOK
  <2>4. refCount[o] - 1 \in 0..MaxList
    BY <2>3, PoolAssumption
  <2>5. refCount' = [refCount EXCEPT ![o] = refCount[o] - 1]
    BY <1>6, <2>3 DEF Release
  <2>6. pc' \in [Process -> ThreadPc \cup ServicePc \cup ResetPc]
    BY <1>0, <1>6, <2>1 DEF Release, ResetPc
  <2>7. refCount' \in [Object -> 0..MaxList]
    BY <2>1, <2>4, <2>5 DEF TypeOK
  <2>8. UNCHANGED <<made, pool, payload, size, entry, list, target, calls, queue,
                    serviceMap, closing, gone, lost>>
    BY <1>6 DEF Release
  <2> HIDE DEF o
  <2> QED
    BY <2>6, <2>7, <2>8 DEF TypeOK
<1>7. ASSUME NEW p \in Process, Recycle(p) \/ Finish(p) PROVE TypeOK'
  <2> DEFINE o == entry[p].obj
  <2>1. o \in Object /\ Resume(p) \in ThreadPc \cup ServicePc
    BY <1>7, ResetEntry DEF Recycle, Finish, ResetPc, ThreadPc, ServicePc
  <2>2. pc' \in [Process -> ThreadPc \cup ServicePc \cup ResetPc]
    BY <1>0, <1>7, <2>1 DEF Recycle, Finish, ResetPc
  <2>3. pool' \in [Object -> Nat] /\ payload' \in [Object -> 0..MaxCalls]
    <3>1. pool[o] + 1 \in Nat /\ 0 \in 0..MaxCalls
      BY <2>1, PoolAssumption DEF TypeOK
    <3>2. Wipe(o) \/ PushBack(o)
      BY <1>7 DEF Recycle, Finish
    <3> HIDE DEF o
    <3> QED
      BY <3>1, <3>2 DEF Wipe, PushBack, TypeOK
  <2> QED
    BY <1>7, <2>2, <2>3 DEF Recycle, Finish, TypeOK
<1>8. ASSUME NEW s \in Service, Dequeue(s) \/ Drop(s) \/ DequeueClose(s) PROVE TypeOK'
  <2>1. queue[s] \in Seq(Entry \cup {Close}) /\ queue[s] # <<>>
    BY <1>8 DEF Dequeue, Drop, DequeueClose, HeadVisible, TypeOK
  <2>2. Tail(queue[s]) \in Seq(Entry \cup {Close}) /\ Head(queue[s]) \in Entry \cup {Close}
    BY <2>1, HeadTailProperties
  <2>3. pc' \in [Process -> ThreadPc \cup ServicePc \cup ResetPc]
    BY <1>0, <1>8 DEF Dequeue, Drop, DequeueClose, ServicePc, ResetPc
  <2>4. /\ queue' = [queue EXCEPT ![s] = Tail(queue[s])]
        /\ entry' = [entry EXCEPT ![s] = Head(queue[s])] \/ UNCHANGED entry
        /\ gone' \in {gone, gone \cup {s}}
        /\ UNCHANGED <<serviceMap, closing, lost, list, target, calls, made, pool,
                       refCount, payload, size>>
    BY <1>8 DEF Dequeue, Drop, DequeueClose
  <2>5. queue' \in [Service -> Seq(Entry \cup {Close})]
    BY <2>2, <2>4 DEF TypeOK
  <2>6. entry' \in [Process -> Entry \cup {Close}]
    BY <1>0, <2>2, <2>4 DEF TypeOK
  <2> QED
    BY <2>3, <2>4, <2>5, <2>6 DEF TypeOK
<1>9. ASSUME NEW s \in Service, EndHandle(s) \/ EraseService(s) PROVE TypeOK'
  <2>1. pc' \in [Process -> ThreadPc \cup ServicePc \cup ResetPc]
    BY <1>0, <1>9 DEF EndHandle, EraseService, ResetPc
  <2> QED
    BY <1>9, <2>1 DEF EndHandle, EraseService, TypeOK
<1>10. ASSUME NEW s \in Service, CloseService(s) PROVE TypeOK'
  <2>1. Append(queue[s], Close) \in Seq(Entry \cup {Close})
    BY AppendProperties DEF TypeOK
  <2> QED
    BY <1>10, <2>1 DEF CloseService, TypeOK
<1>11. ASSUME NEW s \in Service, Free(s) PROVE TypeOK'
  <2>1. lost' \in [Object -> Nat]
    <3>1. \A o \in Object : IsFiniteSet(Queued(o)) /\ lost[o] \in Nat
      BY DEF Counted, CountOf, TypeOK
    <3>2. queue' = [queue EXCEPT ![s] = <<>>]
      BY <1>11 DEF Free
    <3>3. \A o \in Object :
            Cardinality({i \in 1..Len(queue[s]) : queue[s][i].obj = o}) \in Nat
      BY <3>1, <3>2, ClearQueued
    <3>4. lost' = [o \in Object |-> lost[o] +
                     Cardinality({i \in 1..Len(queue[s]) : queue[s][i].obj = o})]
      BY <1>11 DEF Free
    <3> QED
      BY <3>1, <3>3, <3>4
  <2>2. pc' \in [Process -> ThreadPc \cup ServicePc \cup ResetPc]
    BY <1>0, <1>11 DEF Free, ServicePc
  <2> QED
    BY <1>11, <2>1, <2>2 DEF Free, TypeOK
<1>12. CASE UNCHANGED vars
  BY <1>12 DEF vars, TypeOK
<1> QED
  BY <1>1, <1>2, <1>3, <1>4, <1>5, <1>6, <1>7, <1>8, <1>9, <1>10, <1>11, <1>12 DEF Next

LEMMA PlaceStep ==
  ASSUME PlaceInv, NEW p \in Process,
         \A q \in Process \ {p} : pc'[q] = pc[q] /\ entry'[q] = entry[q],
         \A t \in Thread \ {p} : list'[t] = list[t] /\ target'[t] = target[t],
         gone \subseteq gone',
         p \in Thread => ThreadPlace(p)', p \in Service => ServicePlace(p)'
  PROVE  PlaceInv'
<1>1. ASSUME NEW t \in Thread PROVE ThreadPlace(t)'
  BY DEF PlaceInv, ThreadPlace, Process
<1>2. ASSUME NEW s \in Service PROVE ServicePlace(s)'
  BY DEF PlaceInv, ServicePlace, Process
<1> QED
  BY <1>1, <1>2 DEF PlaceInv

LEMMA StepPlace ==
  ASSUME TypeOK, PlaceInv, CloseInv, [Next]_vars
  PROVE  PlaceInv'
<1> USE DEF threadVars, objectVars, serviceVars
<1>0. /\ Thread \subseteq Process /\ Service \subseteq Process
      /\ \A t \in Thread : t \notin Service
      /\ pc \in [Process -> ThreadPc \cup ServicePc \cup ResetPc]
      /\ entry \in [Process -> Entry \cup {Close}]
      /\ \A t \in Thread : ThreadPlace(t)
      /\ \A s \in Service : ServicePlace(s)
  BY PoolAssumption DEF TypeOK, Process, PlaceInv
<1>1. ASSUME NEW t \in Thread, NEW o \in Object, Pop(t, o) PROVE PlaceInv'
  <2>1. calls + 1 \in 1..MaxCalls
    BY <1>1, PoolAssumption DEF Pop, TypeOK
  <2>2. ThreadPlace(t)'
    BY <1>0, <1>1, <2>1 DEF Pop, Goto, ThreadPlace, Entry, ThreadPc
  <2>3. /\ \A q \in Process \ {t} : pc'[q] = pc[q] /\ entry'[q] = entry[q]
        /\ \A u \in Thread \ {t} : list'[u] = list[u] /\ target'[u] = target[u]
    BY <1>0, <1>1 DEF Pop, Goto, TypeOK
  <2>4. gone' = gone
    BY <1>1 DEF Pop
  <2> QED
    BY <1>0, <2>2, <2>3, <2>4, PlaceStep
<1>2. ASSUME NEW t \in Thread, Fill(t) \/ Visit(t) \/ Push(t) \/ Link(t) \/ Return(t)
      PROVE  PlaceInv'
  <2>1. list[t] # <<>> => Head(list[t]) \in Service
    BY ListFacts DEF TypeOK
  <2>2. ThreadPlace(t)'
    BY <1>0, <1>2, <2>1
       DEF Fill, Visit, Push, Link, Return, Goto, ThreadPlace, ThreadPc, ResetPc, TypeOK
  <2>3. /\ \A q \in Process \ {t} : pc'[q] = pc[q] /\ entry'[q] = entry[q]
        /\ \A u \in Thread \ {t} : list'[u] = list[u] /\ target'[u] = target[u]
    BY <1>0, <1>2 DEF Fill, Visit, Push, Link, Return, Goto, TypeOK
  <2>4. gone' = gone
    BY <1>2 DEF Fill, Visit, Push, Link, Return
  <2> QED
    BY <1>0, <2>2, <2>3, <2>4, PlaceStep
<1>3. ASSUME NEW p \in Process, Resets(p) PROVE PlaceInv'
  <2>1. /\ pc[p] \in ResetPc /\ UNCHANGED <<entry, list, target, gone>>
        /\ \E place \in {"recycle", "finish", Resume(p)} : Goto(p, place)
    BY <1>3 DEF Resets, Release, Recycle, Finish, ResetPc
  <2>2. /\ entry[p] \in Entry
        /\ p \in Thread => Resume(p) = "visit"
        /\ p \in Service => Resume(p) = IF p \in gone THEN "drop" ELSE "idle"
    BY <1>0, <2>1, ResetEntry DEF Resume
  <2>3. p \in Thread => ThreadPlace(p)'
    BY <1>0, <2>1, <2>2 DEF Goto, ThreadPlace, ThreadPc, ResetPc
  <2>4. p \in Service => ServicePlace(p)'
    BY <1>0, <2>1, <2>2 DEF Goto, ServicePlace, ServicePc, ResetPc
  <2>5. \A q \in Process \ {p} : pc'[q] = pc[q]
    BY <1>0, <2>1 DEF Goto
  <2> QED
    BY <2>1, <2>3, <2>4, <2>5, PlaceStep
<1>4. ASSUME NEW s \in Service,
             Dequeue(s) \/ EndHandle(s) \/ DequeueClose(s) \/ Drop(s) \/ Free(s)
      PROVE  PlaceInv'
  <2>1. /\ \A q \in Process \ {s} : pc'[q] = pc[q] /\ entry'[q] = entry[q]
        /\ UNCHANGED <<list, target>> /\ gone \subseteq gone'
    BY <1>0, <1>4 DEF Dequeue, EndHandle, DequeueClose, Drop, Free, Goto
  <2>2. Dequeue(s) \/ Drop(s) => Head(queue[s]) \in Entry
    <3> SUFFICES ASSUME Dequeue(s) \/ Drop(s) PROVE Head(queue[s]) \in Entry
      OBVIOUS
    <3>1. queue[s] \in Seq(Entry \cup {Close}) /\ queue[s] # <<>>
      BY DEF Dequeue, Drop, HeadVisible, TypeOK
    <3>2. /\ Head(queue[s]) \in Entry \cup {Close}
          /\ 1 \in DOMAIN queue[s] /\ Head(queue[s]) = queue[s][1]
      BY <3>1
    <3>3. CASE Drop(s)
      BY <1>0, <3>2, <3>3 DEF Drop, ServicePlace, CloseInv
    <3>4. CASE Dequeue(s)
      BY <3>2, <3>4 DEF Dequeue
    <3> QED
      BY <3>3, <3>4
  <2>3. ServicePlace(s)'
    BY <1>0, <1>4, <2>2
       DEF Dequeue, EndHandle, DequeueClose, Drop, Free, Goto, ServicePlace, ServicePc, ResetPc
  <2> QED
    BY <1>0, <2>1, <2>3, PlaceStep
<1>5. ASSUME NEW s \in Service, CloseService(s) \/ EraseService(s) PROVE PlaceInv'
  BY <1>5 DEF CloseService, EraseService, PlaceInv, ThreadPlace, ServicePlace
<1>6. CASE UNCHANGED vars
  BY <1>6 DEF vars, PlaceInv, ThreadPlace, ServicePlace
<1> QED
  BY <1>1, <1>2, <1>3, <1>4, <1>5, <1>6 DEF Next, Resets

LEMMA StepClose ==
  ASSUME TypeOK, PlaceInv, CloseInv, [Next]_vars
  PROVE  CloseInv'
<1> USE DEF threadVars, objectVars, serviceVars
<1>0. Close \notin Entry
  BY PoolAssumption DEF Close, Entry
<1>1. ASSUME NEW s \in Service, NEW e \in Entry \cup {Close},
             queue' = [queue EXCEPT ![s] = Append(@, e)], gone' = gone,
             closing' = closing \/ closing' = closing \cup {s},
             e = Close => s \in closing' /\ s \notin closing
      PROVE  CloseInv'
  <2>1. /\ queue[s] \in Seq(Entry \cup {Close}) /\ queue'[s] = Append(queue[s], e)
        /\ \A t \in Service \ {s} : queue'[t] = queue[t]
    BY <1>1 DEF TypeOK
  <2>2. /\ DOMAIN queue[s] = 1..Len(queue[s]) /\ Len(queue[s]) \in Nat
        /\ DOMAIN queue'[s] = 1..(Len(queue[s]) + 1)
        /\ \A i \in DOMAIN queue[s] : queue'[s][i] = queue[s][i]
        /\ queue'[s][Len(queue[s]) + 1] = e
    BY <2>1
  <2>3. ASSUME NEW t \in Service, NEW i \in DOMAIN queue'[t], queue'[t][i] = Close
        PROVE  /\ t \in closing' \ gone'
               /\ \A j \in DOMAIN queue'[t] : queue'[t][j] = Close => j = i
    <3>1. CASE t # s
      BY <1>1, <2>1, <2>3, <3>1 DEF CloseInv
    <3>2. CASE t = s /\ e # Close
      <4>1. \A j \in DOMAIN queue'[s] : queue'[s][j] = Close => j \in DOMAIN queue[s]
        BY <2>2, <3>2
      <4> QED
        BY <1>1, <2>2, <2>3, <3>2, <4>1 DEF CloseInv
    <3>3. CASE t = s /\ e = Close
      <4>1. \A j \in DOMAIN queue[s] : queue[s][j] # Close
        BY <1>1, <3>3 DEF CloseInv
      <4>2. \A j \in DOMAIN queue'[s] : queue'[s][j] = Close => j = Len(queue[s]) + 1
        BY <2>2, <4>1
      <4>3. s \notin gone
        BY <1>1, <3>3 DEF CloseInv
      <4> QED
        BY <1>1, <2>3, <3>3, <4>2, <4>3
    <3> QED
      BY <3>1, <3>2, <3>3
  <2> QED
    BY <1>1, <2>3 DEF CloseInv
<1>2. ASSUME NEW t \in Thread, Push(t) PROVE CloseInv'
  <2>1. target[t] \in Service /\ entry[t] \in Entry /\ UNCHANGED <<closing, gone>>
    BY <1>2 DEF Push, PlaceInv, ThreadPlace
  <2>2. CASE UNCHANGED queue
    BY <2>1, <2>2 DEF CloseInv
  <2>3. CASE queue' = [queue EXCEPT ![target[t]] = Append(@, entry[t])]
    BY <1>0, <1>1, <2>1, <2>3
  <2> QED
    BY <1>2, <2>2, <2>3 DEF Push
<1>3. ASSUME NEW s \in Service, CloseService(s) PROVE CloseInv'
  BY <1>1, <1>3 DEF CloseService
<1>4. ASSUME NEW s \in Service, Dequeue(s) \/ DequeueClose(s) \/ Drop(s) PROVE CloseInv'
  <2>1. /\ queue[s] \in Seq(Entry \cup {Close}) /\ queue[s] # <<>>
        /\ queue'[s] = Tail(queue[s]) /\ UNCHANGED closing
        /\ \A t \in Service \ {s} : queue'[t] = queue[t]
    BY <1>4 DEF Dequeue, DequeueClose, Drop, HeadVisible, TypeOK
  <2>2. /\ \A i \in DOMAIN queue'[s] : i \in Nat /\ i + 1 \in DOMAIN queue[s]
                                         /\ i + 1 # 1 /\ queue'[s][i] = queue[s][i + 1]
        /\ 1 \in DOMAIN queue[s] /\ Head(queue[s]) = queue[s][1]
    BY <2>1
  <2>3. \/ gone' = gone
        \/ /\ gone' = gone \cup {s} /\ s \in closing
           /\ \A i \in DOMAIN queue'[s] : queue'[s][i] # Close
    <3>1. CASE DequeueClose(s)
      <4>1. queue[s][1] = Close /\ gone' = gone \cup {s}
        BY <2>2, <3>1 DEF DequeueClose
      <4>2. s \in closing
        BY <2>2, <4>1 DEF CloseInv
      <4>3. \A i \in DOMAIN queue'[s] : queue'[s][i] # Close
        BY <2>2, <4>1 DEF CloseInv
      <4> QED
        BY <4>1, <4>2, <4>3
    <3> QED
      BY <1>4, <3>1 DEF Dequeue, Drop
  <2>4. ASSUME NEW t \in Service, NEW i \in DOMAIN queue'[t], queue'[t][i] = Close
        PROVE  /\ t \in closing' \ gone'
               /\ \A j \in DOMAIN queue'[t] : queue'[t][j] = Close => j = i
    <3>1. CASE t # s
      BY <2>1, <2>3, <2>4, <3>1 DEF CloseInv
    <3>2. CASE t = s
      <4>1. s \in closing \ gone /\ gone' = gone
        BY <2>2, <2>3, <2>4, <3>2 DEF CloseInv
      <4>2. \A j \in DOMAIN queue'[s] : queue'[s][j] = Close => j + 1 = i + 1
        BY <2>2, <2>4, <3>2 DEF CloseInv
      <4>3. i \in Nat /\ \A j \in DOMAIN queue'[s] : j \in Nat
        BY <2>2, <2>4, <3>2
      <4>4. \A j \in DOMAIN queue'[s] : queue'[s][j] = Close => j = i
        BY <4>2, <4>3
      <4> QED
        BY <2>1, <3>2, <4>1, <4>4
    <3> QED
      BY <3>1, <3>2
  <2> QED
    BY <2>1, <2>3, <2>4 DEF CloseInv
<1>5. ASSUME NEW s \in Service, Free(s) PROVE CloseInv'
  BY <1>5 DEF Free, CloseInv, TypeOK
<1>6. CASE UNCHANGED <<queue, closing, gone>>
  BY <1>6 DEF CloseInv
<1> QED
  BY <1>2, <1>3, <1>4, <1>5, <1>6
     DEF Next, Pop, Fill, Visit, Link, Return, Release, Recycle, Finish, EndHandle,
         EraseService, vars

-----------------------------------------------------------------------------
(* The references. *)

LEMMA CountFacts ==
  ASSUME TypeOK, Counted, NEW o \in Object
  PROVE  /\ CountOf(o) /\ lost[o] \in Nat /\ Cardinality(Queued(o)) \in Nat
         /\ Cardinality(Holders(o)) \in Nat /\ Cardinality(Unvisited(o)) \in Nat
  BY Referred DEF Counted, CountOf

\* The lists when a service takes a step.
LEMMA ServiceLists ==
  ASSUME NEW s \in Service, UNCHANGED list, NEW o,
         \A q \in Process \ {s} : pc'[q] = pc[q] /\ entry'[q] = entry[q]
  PROVE  Unvisited(o)' = Unvisited(o)
<1>1. \A t \in Thread : pc'[t] = pc[t] /\ entry'[t] = entry[t]
  BY PoolAssumption DEF Process
<1> QED
  BY <1>1, UnvisitedFrame

\* A fill gives out a reference for each receiver in the list.
LEMMA FillCounted ==
  ASSUME TypeOK, PlaceInv, Counted, OwnerInv, NEW t \in Thread, Fill(t)
  PROVE  Counted'
<1> DEFINE n == Len(list[t])
<1> PICK o \in Object : o = entry[t].obj
  BY DEF Fill, PlaceInv, ThreadPlace, Entry
<1>0. /\ t \in Process /\ o \in Object /\ pc[t] = "fill"
      /\ pc' = [pc EXCEPT ![t] = "visit"] /\ refCount' = [refCount EXCEPT ![o] = n]
      /\ UNCHANGED <<entry, list, queue, lost>>
  BY DEF Fill, PlaceInv, ThreadPlace, Entry, Process, Goto, threadVars, serviceVars
<1>1. t \in Owners(o)
  BY <1>0 DEF Owners
<1>2. /\ Queued(o) = {} /\ Holders(o) = {} /\ Unvisited(o) = {} /\ lost[o] = 0
  BY <1>0, <1>1, Referred DEF OwnerInv, OwnerOf
<1>3. \A q \in Process : pc'[q] = (IF q = t THEN "visit" ELSE pc[q]) /\ entry'[q] = entry[q]
  BY <1>0 DEF TypeOK
<1>4. \A x \in Object : Queued(x)' = Queued(x)
  BY <1>0 DEF Queued
<1>5. \A x \in Object : Holders(x)' = Holders(x)
  BY <1>0, <1>3 DEF Holders
<1>6. \A x \in Object \ {o} : Unvisited(x)' = Unvisited(x)
  <2> TAKE x \in Object \ {o}
  <2>1. \A u \in Thread : list'[u] = list[u] /\ (entry[u].obj = x /\ pc[u] # "fill"
                                      <=> entry'[u].obj = x /\ pc'[u] # "fill")
    BY <1>0, <1>3 DEF Process
  <2> QED
    BY <2>1, UnvisitedFrame
<1>7. IsFiniteSet(Unvisited(o)') /\ Cardinality(Unvisited(o)') = n
  <2> DEFINE f == [i \in 1..n |-> <<t, i>>]
  <2>1. n \in Nat /\ DOMAIN list[t] = 1..n
    BY ListFacts, PoolAssumption DEF TypeOK
  <2>2. \A u \in Thread \ {t} : entry[u].obj = o /\ pc[u] # "fill" => DOMAIN list[u] = {}
    BY <1>2, UnvisitedIs
  <2>3. \A x : x \in Unvisited(o)' <=> \E i \in 1..n : x = <<t, i>>
    <3>1. ASSUME NEW x \in Unvisited(o)' PROVE \E i \in 1..n : x = <<t, i>>
      <4>1. PICK u \in Thread : \E i \in DOMAIN list'[u] :
              x = <<u, i>> /\ entry'[u].obj = o /\ pc'[u] # "fill"
        BY UnvisitedIsNext
      <4>2. u = t
        BY <1>0, <1>3, <2>2, <4>1 DEF Process
      <4> QED
        BY <1>0, <2>1, <4>1, <4>2
    <3>2. ASSUME NEW i \in 1..n PROVE <<t, i>> \in Unvisited(o)'
      BY <1>0, <1>3, <2>1, <3>2, UnvisitedIsNext
    <3> QED
      BY <3>1, <3>2
  <2>4. f \in Bijection(1..n, Unvisited(o)')
    <3>1. f \in [1..n -> Unvisited(o)']
      BY <2>3
    <3>2. \A y \in Unvisited(o)' : \E i \in 1..n : f[i] = y
      BY <2>3
    <3>3. \A i, j \in 1..n : f[i] = f[j] => i = j
      OBVIOUS
    <3> HIDE DEF f
    <3> QED
      BY <3>1, <3>2, <3>3 DEF Bijection, Injection, Surjection, IsInjective
  <2>5. IsFiniteSet(1..n) /\ Cardinality(1..n) = n
    BY <2>1, FS_Interval
  <2>6. ExistsBijection(1..n, Unvisited(o)')
    BY <2>4 DEF ExistsBijection
  <2> QED
    BY <2>5, <2>6, FS_Bijection
<1>8. n \in Nat /\ Cardinality({}) = 0
  BY ListFacts, PoolAssumption, FS_EmptySet DEF TypeOK
<1>9. ASSUME NEW x \in Object PROVE CountOf(x)'
  <2>1. CASE x = o
    <3>1. refCount'[o] = n
      BY <1>0 DEF TypeOK
    <3>2. IsFiniteSet(Queued(o)) /\ IsFiniteSet(Holders(o))
      BY <1>0 DEF Counted, CountOf
    <3> HIDE DEF n
    <3>3. Cardinality(Queued(o)') = 0 /\ Cardinality(Holders(o)') = 0 /\ lost'[o] = 0
      BY <1>0, <1>2, <1>4, <1>5, <1>8
    <3> QED
      BY <1>0, <1>4, <1>5, <1>7, <1>8, <2>1, <3>1, <3>2, <3>3 DEF CountOf
  <2>2. CASE x # o
    BY <1>0, <1>4, <1>5, <1>6, <2>2 DEF Counted, CountOf
  <2> QED
    BY <2>1, <2>2
<1> QED
  BY <1>9 DEF Counted, CountOf

\* A visit turns the reference of a receiver in the list into one in hand.
LEMMA VisitCounted ==
  ASSUME TypeOK, PlaceInv, Counted, NEW t \in Thread, Visit(t)
  PROVE  Counted'
<1> DEFINE n == Len(list[t])
<1> PICK o \in Object : o = entry[t].obj
  BY DEF Visit, PlaceInv, ThreadPlace, Entry
<1>0. /\ t \in Process /\ o \in Object /\ pc[t] = "visit" /\ list[t] # <<>>
      /\ list' = [list EXCEPT ![t] = Tail(@)]
      /\ UNCHANGED <<entry, queue, lost, refCount>>
      /\ \E place \in {"push", "release"} : pc' = [pc EXCEPT ![t] = place]
  BY DEF Visit, PlaceInv, ThreadPlace, Entry, Process, Goto, objectVars, serviceVars
<1>1. /\ \A q \in Process \ {t} : pc'[q] = pc[q] /\ entry'[q] = entry[q]
      /\ pc'[t] \in {"push", "release"} /\ entry'[t].obj = o
      /\ list'[t] = Tail(list[t]) /\ \A u \in Thread \ {t} : list'[u] = list[u]
  BY <1>0 DEF TypeOK
<1>2. \A x \in Object : Queued(x)' = Queued(x)
  BY <1>0 DEF Queued
<1>3. /\ \A x \in Object : t \notin Holders(x)
      /\ \A x \in Object : t \in Holders(x)' <=> x = o
  BY <1>0, <1>1 DEF Holders
<1>4. /\ n \in DOMAIN list[t] /\ DOMAIN list'[t] = DOMAIN list[t] \ {n}
  BY <1>0, <1>1, ListFacts DEF TypeOK
<1> HIDE DEF n
<1>5. /\ <<t, n>> \in Unvisited(o) /\ Unvisited(o)' = Unvisited(o) \ {<<t, n>>}
  <2>1. <<t, n>> \in Unvisited(o)
    BY <1>0, <1>4, UnvisitedIs
  <2>2. ASSUME NEW x \in Unvisited(o)' PROVE x \in Unvisited(o) \ {<<t, n>>}
    <3>1. PICK u \in Thread : \E i \in DOMAIN list'[u] :
            x = <<u, i>> /\ entry'[u].obj = o /\ pc'[u] # "fill"
      BY UnvisitedIsNext
    <3> QED
      BY <1>0, <1>1, <1>4, <3>1, UnvisitedIs DEF Process
  <2>3. ASSUME NEW x \in Unvisited(o) \ {<<t, n>>} PROVE x \in Unvisited(o)'
    <3>1. PICK u \in Thread : \E i \in DOMAIN list[u] :
            x = <<u, i>> /\ entry[u].obj = o /\ pc[u] # "fill"
      BY UnvisitedIs
    <3> QED
      BY <1>0, <1>1, <1>4, <2>3, <3>1, UnvisitedIsNext DEF Process
  <2> QED
    BY <2>1, <2>2, <2>3
<1>6. \A x \in Object \ {o} : Unvisited(x)' = Unvisited(x)
  <2> TAKE x \in Object \ {o}
  <2>1. \A u \in Thread \ {t} : list'[u] = list[u] /\ entry'[u] = entry[u] /\ pc'[u] = pc[u]
    BY <1>0, <1>1 DEF Process
  <2>2. entry[t].obj # x /\ entry'[t].obj # x
    BY <1>1
  <2> QED
    BY <2>1, <2>2, UnvisitedFrame
<1>7. ASSUME NEW x \in Object PROVE CountOf(x)'
  <2>0. /\ IsFiniteSet(Queued(x)) /\ IsFiniteSet(Holders(x)) /\ IsFiniteSet(Unvisited(x))
        /\ refCount[x] = Cardinality(Queued(x)) + Cardinality(Holders(x))
                           + Cardinality(Unvisited(x)) + lost[x]
        /\ lost[x] \in Nat /\ Cardinality(Queued(x)) \in Nat
        /\ Cardinality(Holders(x)) \in Nat /\ Cardinality(Unvisited(x)) \in Nat
    BY Referred DEF Counted, CountOf
  <2>1. CASE x = o
    <3>1. /\ IsFiniteSet(Holders(o)')
          /\ Cardinality(Holders(o)') = Cardinality(Holders(o)) + 1
      BY <1>0, <1>1, <1>3, <2>0, <2>1, HoldersStep
    <3>2. /\ IsFiniteSet(Unvisited(o)')
          /\ Cardinality(Unvisited(o)') = Cardinality(Unvisited(o)) - 1
      BY <1>5, <2>0, <2>1, OneLess
    <3> QED
      BY <1>0, <1>2, <2>0, <2>1, <3>1, <3>2 DEF CountOf
  <2>2. CASE x # o
    <3>1. Holders(x)' = Holders(x)
      BY <1>0, <1>1, <1>3, <2>0, <2>2, HoldersStep
    <3> QED
      BY <1>0, <1>2, <1>6, <2>0, <2>2, <3>1 DEF CountOf
  <2> QED
    BY <2>1, <2>2
<1> QED
  BY <1>7 DEF Counted, CountOf

\* A step that leaves the queues and the counts alone.
LEMMA QuietStep ==
  ASSUME TypeOK, Counted, UNCHANGED <<queue, lost, refCount>>, NEW p \in Process,
         \A q \in Process \ {p} : pc'[q] = pc[q] /\ entry'[q] = entry[q],
         \A o \in Object : /\ Unvisited(o)' = Unvisited(o)
                           /\ p \in Holders(o)' <=> p \in Holders(o)
  PROVE  Counted'
<1>1. ASSUME NEW o \in Object PROVE CountOf(o)'
  <2>1. Queued(o)' = Queued(o)
    BY DEF Queued
  <2>2. IsFiniteSet(Holders(o))
    BY DEF Counted, CountOf
  <2>3. Holders(o)' = Holders(o)
    BY <2>2, HoldersStep
  <2> QED
    BY <2>1, <2>3 DEF CountOf, Counted
<1> QED
  BY <1>1 DEF Counted, CountOf

\* A step of a service that takes the front of its queue.
LEMMA TakeStep ==
  ASSUME TypeOK, Counted, NEW s \in Service, queue[s] # <<>>,
         queue' = [queue EXCEPT ![s] = Tail(@)], UNCHANGED <<lost, refCount, list>>,
         \A q \in Process \ {s} : pc'[q] = pc[q] /\ entry'[q] = entry[q],
         \A o \in Object : /\ s \notin Holders(o)
                           /\ s \in Holders(o)' <=> Head(queue[s]).obj = o
  PROVE  Counted'
<1>1. ASSUME NEW o \in Object PROVE CountOf(o)'
  <2>1. CountOf(o) /\ s \in Process
        /\ Cardinality(Queued(o)) \in Nat /\ Cardinality(Holders(o)) \in Nat
        /\ Cardinality(Unvisited(o)) \in Nat /\ lost[o] \in Nat
    BY CountFacts DEF Process
  <2>2. Unvisited(o)' = Unvisited(o)
    BY ServiceLists
  <2>3. CASE Head(queue[s]).obj = o
    <3>1. IsFiniteSet(Queued(o)') /\ Cardinality(Queued(o)') = Cardinality(Queued(o)) - 1
      BY <2>1, <2>3, TailQueued DEF CountOf
    <3>2. IsFiniteSet(Holders(o)') /\ Cardinality(Holders(o)') = Cardinality(Holders(o)) + 1
      BY <2>1, <2>3, HoldersStep DEF CountOf
    <3> QED
      BY <2>1, <2>2, <3>1, <3>2 DEF CountOf
  <2>4. CASE Head(queue[s]).obj # o
    <3>1. IsFiniteSet(Queued(o)') /\ Cardinality(Queued(o)') = Cardinality(Queued(o)) - 0
      BY <2>1, <2>4, TailQueued DEF CountOf
    <3>2. Holders(o)' = Holders(o)
      BY <2>1, <2>4, HoldersStep DEF CountOf
    <3> QED
      BY <2>1, <2>2, <3>1, <3>2 DEF CountOf
  <2> QED
    BY <2>3, <2>4
<1> QED
  BY <1>1 DEF Counted, CountOf

LEMMA PushCounted ==
  ASSUME TypeOK, PlaceInv, Counted, NEW t \in Thread, Push(t)
  PROVE  Counted'
<1> PICK e \in Entry : e = entry[t]
  BY DEF Push, PlaceInv, ThreadPlace
<1>0. /\ t \in Process /\ e.obj \in Object /\ pc[t] = "push" /\ target[t] \in Service
      /\ pc' = [pc EXCEPT ![t] = "link"] /\ UNCHANGED <<entry, list, refCount>>
  BY DEF Push, PlaceInv, ThreadPlace, Entry, Process, Goto, threadVars, objectVars
<1>1. /\ \A q \in Process \ {t} : pc'[q] = pc[q] /\ entry'[q] = entry[q]
      /\ pc'[t] = "link"
  BY <1>0 DEF TypeOK
<1>2. ASSUME NEW o \in Object PROVE CountOf(o)'
  <2>1. Unvisited(o)' = Unvisited(o)
    <3>1. \A u \in Thread : list'[u] = list[u] /\ (entry[u].obj = o /\ pc[u] # "fill"
                                      <=> entry'[u].obj = o /\ pc'[u] # "fill")
      BY <1>0, <1>1 DEF Process
    <3> QED
      BY <3>1, UnvisitedFrame
  <2>2. t \notin Holders(o)' /\ (t \in Holders(o) <=> e.obj = o)
    BY <1>0, <1>1 DEF Holders
  <2>3. CountOf(o) /\ lost[o] \in Nat /\ Cardinality(Queued(o)) \in Nat
        /\ Cardinality(Holders(o)) \in Nat /\ Cardinality(Unvisited(o)) \in Nat
    BY CountFacts
  <2>4. /\ IsFiniteSet(Holders(o)')
        /\ e.obj = o => Cardinality(Holders(o)') = Cardinality(Holders(o)) - 1
        /\ e.obj # o => Cardinality(Holders(o)') = Cardinality(Holders(o))
    BY <1>0, <1>1, <2>2, <2>3, HoldersStep DEF CountOf
  <2>5. CASE lost' = [lost EXCEPT ![e.obj] = @ + 1] /\ UNCHANGED queue
    <3>1. Queued(o)' = Queued(o)
      BY <2>5 DEF Queued
    <3>2. lost'[o] = IF e.obj = o THEN lost[o] + 1 ELSE lost[o]
      BY <2>5 DEF TypeOK
    <3> QED
      BY <1>0, <2>1, <2>3, <2>4, <3>1, <3>2 DEF CountOf
  <2>6. CASE queue' = [queue EXCEPT ![target[t]] = Append(@, e)] /\ UNCHANGED lost
    <3>1. /\ IsFiniteSet(Queued(o)')
          /\ e.obj = o => Cardinality(Queued(o)') = Cardinality(Queued(o)) + 1
          /\ e.obj # o => Cardinality(Queued(o)') = Cardinality(Queued(o)) + 0
      BY <1>0, <2>3, <2>6, AppendQueued DEF CountOf
    <3> QED
      BY <1>0, <2>1, <2>3, <2>4, <2>6, <3>1 DEF CountOf
  <2> QED
    BY <2>5, <2>6 DEF Push
<1> QED
  BY <1>2 DEF Counted, CountOf

LEMMA FreeCounted ==
  ASSUME TypeOK, Counted, NEW s \in Service, Free(s)
  PROVE  Counted'
<1>0. /\ s \in Process /\ pc[s] = "drop" /\ pc' = [pc EXCEPT ![s] = "freed"]
      /\ queue' = [queue EXCEPT ![s] = <<>>] /\ UNCHANGED <<entry, list, refCount>>
  BY DEF Free, Process, Goto, threadVars, objectVars
<1>1. /\ \A q \in Process \ {s} : pc'[q] = pc[q] /\ entry'[q] = entry[q]
      /\ pc'[s] = "freed"
  BY <1>0 DEF TypeOK
<1>2. ASSUME NEW o \in Object PROVE CountOf(o)'
  <2> DEFINE d == Cardinality({i \in 1..Len(queue[s]) : queue[s][i].obj = o})
  <2>1. /\ IsFiniteSet(Queued(o)') /\ d \in Nat
        /\ Cardinality(Queued(o)') = Cardinality(Queued(o)) - d
    BY <1>0, ClearQueued DEF Counted, CountOf
  <2>2. lost'[o] = lost[o] + d
    BY DEF Free
  <2>3. Unvisited(o)' = Unvisited(o)
    BY <1>0, <1>1, ServiceLists
  <2>4. CountOf(o) /\ lost[o] \in Nat /\ Cardinality(Queued(o)) \in Nat
        /\ Cardinality(Holders(o)) \in Nat /\ Cardinality(Unvisited(o)) \in Nat
    BY CountFacts
  <2>5. s \notin Holders(o) /\ s \notin Holders(o)'
    BY <1>0, <1>1 DEF Holders
  <2>6. Holders(o)' = Holders(o)
    BY <1>0, <1>1, <2>4, <2>5, HoldersStep DEF CountOf
  <2> HIDE DEF d
  <2> QED
    BY <1>0, <2>1, <2>2, <2>3, <2>4, <2>6 DEF CountOf
<1> QED
  BY <1>2 DEF Counted, CountOf

LEMMA ReleaseCounted ==
  ASSUME TypeOK, PlaceInv, Counted, NEW p \in Process, Release(p)
  PROVE  Counted'
<1> PICK o \in Object : o = entry[p].obj
  BY ResetEntry DEF Release, ResetPc
<1>0. /\ pc[p] = "release" /\ UNCHANGED <<entry, list, queue, lost>>
      /\ \E place \in {"recycle", "visit", "drop", "idle"} : pc' = [pc EXCEPT ![p] = place]
  BY ResetEntry DEF Release, Goto, ResetPc, threadVars, serviceVars
<1>1. /\ \A q \in Process \ {p} : pc'[q] = pc[q] /\ entry'[q] = entry[q]
      /\ pc'[p] \in {"recycle", "visit", "drop", "idle"}
  BY <1>0 DEF TypeOK
<1>2. /\ \A x \in Object : p \notin Holders(x)'
      /\ \A x \in Object : p \in Holders(x) <=> x = o
  BY <1>0, <1>1 DEF Holders
<1>3. refCount[o] \in Nat /\ refCount[o] # 0
  BY <1>2, Referred
<1>4. /\ refCount'[o] = refCount[o] - 1
      /\ \A x \in Object \ {o} : refCount'[x] = refCount[x]
  BY <1>3 DEF Release, TypeOK
<1>5. ASSUME NEW x \in Object PROVE CountOf(x)'
  <2>1. /\ CountOf(x) /\ lost[x] \in Nat /\ Cardinality(Queued(x)) \in Nat
        /\ Cardinality(Holders(x)) \in Nat /\ Cardinality(Unvisited(x)) \in Nat
    BY CountFacts
  <2>2. Queued(x)' = Queued(x)
    BY <1>0 DEF Queued
  <2>3. Unvisited(x)' = Unvisited(x)
    <3>1. \A u \in Thread : list'[u] = list[u] /\ (entry[u].obj = x /\ pc[u] # "fill"
                                      <=> entry'[u].obj = x /\ pc'[u] # "fill")
      BY <1>0, <1>1 DEF Process
    <3> QED
      BY <3>1, UnvisitedFrame
  <2>4. /\ IsFiniteSet(Holders(x)')
        /\ x = o => Cardinality(Holders(x)') = Cardinality(Holders(x)) - 1
        /\ x # o => Cardinality(Holders(x)') = Cardinality(Holders(x))
    BY <1>1, <1>2, <2>1, HoldersStep DEF CountOf
  <2> QED
    BY <1>0, <1>4, <2>1, <2>2, <2>3, <2>4 DEF CountOf
<1> QED
  BY <1>5 DEF Counted

LEMMA StepCounted ==
  ASSUME TypeOK, PlaceInv, CloseInv, Counted, OwnerInv, [Next]_vars
  PROVE  Counted'
<1> USE DEF threadVars, objectVars, serviceVars
<1>0. /\ \A t \in Thread : t \in Process /\ t \notin Service
      /\ \A s \in Service : s \in Process
      /\ pc \in [Process -> ThreadPc \cup ServicePc \cup ResetPc]
      /\ entry \in [Process -> Entry \cup {Close}]
      /\ Close.obj \notin Object
  BY PoolAssumption DEF TypeOK, Process, Close
<1>1. ASSUME NEW t \in Thread, NEW o \in Object, Pop(t, o) PROVE Counted'
  <2>1. /\ \A q \in Process \ {t} : pc'[q] = pc[q] /\ entry'[q] = entry[q]
        /\ pc[t] = "idle" /\ pc'[t] = "fill" /\ list[t] = <<>>
        /\ \A u \in Thread \ {t} : list'[u] = list[u]
        /\ UNCHANGED <<queue, lost, refCount>>
    BY <1>0, <1>1 DEF Pop, Goto, PlaceInv, ThreadPlace, TypeOK
  <2>2. \A x \in Object : t \notin Holders(x) /\ t \notin Holders(x)'
    BY <2>1 DEF Holders
  <2>3. \A x \in Object : Unvisited(x)' = Unvisited(x)
    BY <1>0, <2>1, UnvisitedFrame
  <2> QED
    BY <1>0, <2>1, <2>2, <2>3, QuietStep
<1>2. ASSUME NEW t \in Thread, Link(t) \/ Return(t) PROVE Counted'
  <2>1. /\ \A q \in Process \ {t} : pc'[q] = pc[q] /\ entry'[q] = entry[q]
        /\ pc[t] \in {"link", "visit"} /\ pc'[t] \in {"visit", "idle"}
        /\ UNCHANGED <<list, queue, lost, refCount>>
        /\ entry'[t] = entry[t] \/ list[t] = <<>>
    BY <1>0, <1>2 DEF Link, Return, Goto
  <2>2. \A x \in Object : t \notin Holders(x) /\ t \notin Holders(x)'
    BY <2>1 DEF Holders
  <2>3. \A x \in Object : Unvisited(x)' = Unvisited(x)
    BY <1>0, <2>1, UnvisitedFrame
  <2> QED
    BY <1>0, <2>1, <2>2, <2>3, QuietStep
<1>3. ASSUME NEW p \in Process, Recycle(p) \/ Finish(p) PROVE Counted'
  <2>1. /\ \A q \in Process \ {p} : pc'[q] = pc[q]
        /\ pc[p] \in {"recycle", "finish"} /\ pc'[p] \in {"finish", "visit", "drop", "idle"}
        /\ UNCHANGED <<entry, list, queue, lost, refCount>>
    BY <1>0, <1>3, ResetEntry DEF Recycle, Finish, Goto, ResetPc
  <2>2. \A x \in Object : p \notin Holders(x) /\ p \notin Holders(x)'
    BY <2>1 DEF Holders
  <2>3. \A x \in Object : Unvisited(x)' = Unvisited(x)
    BY <1>0, <2>1, UnvisitedFrame
  <2> QED
    BY <1>0, <2>1, <2>2, <2>3, QuietStep
<1>4. ASSUME NEW s \in Service, EndHandle(s) PROVE Counted'
  <2>1. /\ \A q \in Process \ {s} : pc'[q] = pc[q]
        /\ pc[s] = "handle" /\ pc'[s] = "release"
        /\ UNCHANGED <<entry, list, queue, lost, refCount>>
    BY <1>0, <1>4 DEF EndHandle, Goto
  <2>2. \A x \in Object : s \in Holders(x)' <=> s \in Holders(x)
    BY <2>1 DEF Holders
  <2>3. \A x \in Object : Unvisited(x)' = Unvisited(x)
    BY <2>1, ServiceLists
  <2> QED
    BY <1>0, <2>1, <2>2, <2>3, QuietStep
<1>5. ASSUME NEW s \in Service, Dequeue(s) \/ Drop(s) PROVE Counted'
  <2>1. /\ \A q \in Process \ {s} : pc'[q] = pc[q] /\ entry'[q] = entry[q]
        /\ pc[s] \in {"idle", "drop"} /\ pc'[s] \in {"handle", "release"}
        /\ entry'[s] = Head(queue[s]) /\ queue[s] # <<>>
        /\ queue' = [queue EXCEPT ![s] = Tail(@)]
        /\ UNCHANGED <<list, lost, refCount>>
    BY <1>0, <1>5 DEF Dequeue, Drop, HeadVisible, Goto
  <2>2. \A x \in Object : s \notin Holders(x) /\ (s \in Holders(x)' <=> Head(queue[s]).obj = x)
    BY <1>0, <2>1 DEF Holders
  <2> QED
    BY <2>1, <2>2, TakeStep
<1>6. ASSUME NEW s \in Service, DequeueClose(s) PROVE Counted'
  <2>1. /\ \A q \in Process \ {s} : pc'[q] = pc[q] /\ entry'[q] = entry[q]
        /\ pc[s] = "idle" /\ pc'[s] = "drop"
        /\ Head(queue[s]) = Close /\ queue[s] # <<>>
        /\ queue' = [queue EXCEPT ![s] = Tail(@)]
        /\ UNCHANGED <<list, lost, refCount>>
    BY <1>0, <1>6 DEF DequeueClose, HeadVisible, Goto
  <2>2. \A x \in Object : s \notin Holders(x) /\ s \notin Holders(x)' /\ Head(queue[s]).obj # x
    BY <1>0, <2>1 DEF Holders
  <2> QED
    BY <2>1, <2>2, TakeStep
<1>7. ASSUME NEW s \in Service, CloseService(s) PROVE Counted'
  <2>1. /\ queue' = [queue EXCEPT ![s] = Append(@, Close)]
        /\ UNCHANGED <<pc, entry, list, lost, refCount>>
    BY <1>7 DEF CloseService
  <2>2. ASSUME NEW o \in Object PROVE CountOf(o)'
    <3>1. /\ CountOf(o) /\ Cardinality(Queued(o)) \in Nat
      BY CountFacts
    <3>2. /\ IsFiniteSet(Queued(o)') /\ Cardinality(Queued(o)') = Cardinality(Queued(o)) + 0
      BY <1>0, <2>1, <3>1, AppendQueued DEF CountOf
    <3>3. Holders(o)' = Holders(o) /\ Unvisited(o)' = Unvisited(o)
      BY <2>1 DEF Holders, Unvisited
    <3> QED
      BY <2>1, <3>1, <3>2, <3>3 DEF CountOf
  <2> QED
    BY <2>2 DEF Counted
<1>8. CASE UNCHANGED <<pc, entry, list, queue, lost, refCount>>
  <2>1. ASSUME NEW o \in Object PROVE CountOf(o)'
    <3>1. Queued(o)' = Queued(o) /\ Holders(o)' = Holders(o) /\ Unvisited(o)' = Unvisited(o)
      BY <1>8 DEF Queued, Holders, Unvisited
    <3> QED
      BY <1>8, <3>1 DEF Counted, CountOf
  <2> QED
    BY <2>1 DEF Counted
<1> QED
  BY <1>1, <1>2, <1>3, <1>4, <1>5, <1>6, <1>7, <1>8, FillCounted, VisitCounted,
     PushCounted, ReleaseCounted, FreeCounted DEF Next, EraseService, vars

-----------------------------------------------------------------------------
(* The owners. *)

LEMMA OwnersStep ==
  ASSUME NEW p \in Process,
         \A q \in Process \ {p} : pc'[q] = pc[q] /\ entry'[q] = entry[q], NEW o
  PROVE  /\ (p \in Owners(o) <=> p \in Owners(o)') => Owners(o)' = Owners(o)
         /\ Owners(o) = {} /\ p \in Owners(o)' => Owners(o)' = {p}
         /\ Owners(o) = {p} /\ p \notin Owners(o)' => Owners(o)' = {}
<1>1. \A q \in Process \ {p} : q \in Owners(o) <=> q \in Owners(o)'
  BY DEF Owners
<1>2. Owners(o) \subseteq Process /\ Owners(o)' \subseteq Process
  BY DEF Owners
<1> QED
  BY <1>1, <1>2

\* Steps that nobody can own an object before or after.
LEMMA OwnerFrame ==
  ASSUME OwnerInv, UNCHANGED <<made, pool, refCount, size>>, NEW p \in Process,
         \A q \in Process \ {p} : pc'[q] = pc[q] /\ entry'[q] = entry[q],
         \/ UNCHANGED <<pc, entry>>
         \/ pc[p] \notin {"fill", "recycle", "finish"}
            /\ pc'[p] \notin {"fill", "recycle", "finish"}
  PROVE  OwnerInv'
<1>1. ASSUME NEW o \in Object PROVE Owners(o)' = Owners(o)
  BY OwnersStep DEF Owners
<1> QED
  BY <1>1 DEF OwnerInv, OwnerOf

LEMMA StepOwner ==
  ASSUME TypeOK, PlaceInv, CloseInv, Counted, OwnerInv, [Next]_vars
  PROVE  OwnerInv'
<1> USE DEF threadVars, objectVars, serviceVars
<1>0. /\ \A t \in Thread : t \in Process
      /\ \A s \in Service : s \in Process
      /\ pc \in [Process -> ThreadPc \cup ServicePc \cup ResetPc]
      /\ entry \in [Process -> Entry \cup {Close}]
      /\ pool \in [Object -> Nat] /\ refCount \in [Object -> 0..MaxList]
      /\ \A o \in Object : refCount[o] \in Nat
      /\ MaxList \in Nat
  BY PoolAssumption DEF TypeOK, Process
<1>1. ASSUME NEW t \in Thread, NEW o \in Object, Pop(t, o) PROVE OwnerInv'
  <2>1. /\ \A q \in Process \ {t} : pc'[q] = pc[q] /\ entry'[q] = entry[q]
        /\ pc[t] = "idle" /\ pc'[t] = "fill" /\ entry'[t].obj = o
        /\ UNCHANGED <<refCount, size>>
    BY <1>0, <1>1 DEF Pop, Goto
  <2>2. /\ pool[o] = 1 \/ o \notin made
        /\ pool'[o] = 0 /\ o \in made'
        /\ \A x \in Object \ {o} : pool'[x] = pool[x] /\ (x \in made' <=> x \in made)
    <3>1. pool[o] \in {0, 1} /\ (o \notin made => pool[o] = 0)
      BY DEF OwnerInv, OwnerOf
    <3>2. pool[o] = 1 => o \in made
      BY <3>1
    <3> QED
      BY <1>0, <1>1, <3>1, <3>2 DEF Pop
  <2>3. Owners(o) = {} /\ refCount[o] = 0
    BY <2>2 DEF OwnerInv, OwnerOf
  <2>4. t \in Owners(o)' /\ \A x \in Object \ {o} : t \notin Owners(x) /\ t \notin Owners(x)'
    BY <1>0, <2>1 DEF Owners
  <2>5. Owners(o)' = {t} /\ \A x \in Object \ {o} : Owners(x)' = Owners(x)
    BY <1>0, <2>1, <2>3, <2>4, OwnersStep
  <2>6. ASSUME NEW x \in Object PROVE OwnerOf(x)'
    <3>1. CASE x = o
      BY <2>1, <2>2, <2>3, <2>5, <3>1 DEF OwnerOf
    <3>2. CASE x # o
      BY <2>1, <2>2, <2>5, <3>2 DEF OwnerInv, OwnerOf
    <3> QED
      BY <3>1, <3>2
  <2> QED
    BY <2>6 DEF OwnerInv
<1>2. ASSUME NEW t \in Thread, Fill(t) PROVE OwnerInv'
  <2> PICK o \in Object : o = entry[t].obj
    BY <1>2 DEF Fill, PlaceInv, ThreadPlace, Entry
  <2>0. Len(list[t]) \in 0..MaxList
    BY ListFacts DEF TypeOK
  <2>1. /\ \A q \in Process \ {t} : pc'[q] = pc[q] /\ entry'[q] = entry[q]
        /\ pc[t] = "fill" /\ pc'[t] = "visit"
        /\ UNCHANGED <<made, pool>>
        /\ refCount'[o] = Len(list[t]) /\ size'[o] = Len(list[t])
        /\ \A x \in Object \ {o} : refCount'[x] = refCount[x] /\ size'[x] = size[x]
    <3>1. /\ pc[t] = "fill" /\ pc' = [pc EXCEPT ![t] = "visit"]
          /\ UNCHANGED <<made, pool, entry>>
          /\ refCount' = [refCount EXCEPT ![o] = Len(list[t])]
          /\ size' = [size EXCEPT ![o] = Len(list[t])]
      BY <1>2 DEF Fill, Goto
    <3>2. /\ DOMAIN pc = Process /\ DOMAIN refCount = Object /\ DOMAIN size = Object
          /\ t \in Process
      BY <1>0 DEF TypeOK
    <3> QED
      BY <3>1, <3>2
  <2>2. t \in Owners(o) /\ \A x \in Object : t \notin Owners(x)'
    BY <1>0, <2>1 DEF Owners
  <2>3. \A x \in Object \ {o} : t \notin Owners(x)
    BY DEF Owners
  <2>4. Owners(o)' = {} /\ \A x \in Object \ {o} : Owners(x)' = Owners(x)
    <3>1. t \in Process /\ \A q \in Process \ {t} : pc'[q] = pc[q] /\ entry'[q] = entry[q]
      BY <1>0, <2>1
    <3>2. Owners(o) = {t}
      BY <2>2 DEF OwnerInv, OwnerOf
    <3>3. Owners(o)' = {}
      BY <2>2, <3>1, <3>2, OwnersStep
    <3>4. ASSUME NEW x \in Object \ {o} PROVE Owners(x)' = Owners(x)
      BY <2>2, <2>3, <3>1, OwnersStep
    <3> QED
      BY <3>3, <3>4
  <2>5. pool[o] = 0 /\ o \in made
    BY <2>2 DEF OwnerInv, OwnerOf
  <2>6. ASSUME NEW x \in Object PROVE OwnerOf(x)'
    <3>1. CASE x = o
      BY <1>0, <2>0, <2>1, <2>4, <2>5, <3>1 DEF OwnerOf
    <3>2. CASE x # o
      BY <2>1, <2>4, <3>2 DEF OwnerInv, OwnerOf
    <3> QED
      BY <3>1, <3>2
  <2> QED
    BY <2>6 DEF OwnerInv
<1>3. ASSUME NEW t \in Thread, Visit(t) \/ Push(t) \/ Link(t) \/ Return(t) PROVE OwnerInv'
  <2>1. /\ \A q \in Process \ {t} : pc'[q] = pc[q] /\ entry'[q] = entry[q]
        /\ pc[t] \notin {"fill", "recycle", "finish"}
        /\ pc'[t] \notin {"fill", "recycle", "finish"}
        /\ UNCHANGED <<made, pool, refCount, size>>
    BY <1>0, <1>3 DEF Visit, Push, Link, Return, Goto
  <2> QED
    BY <1>0, <2>1, OwnerFrame
<1>4. ASSUME NEW s \in Service,
             Dequeue(s) \/ EndHandle(s) \/ DequeueClose(s) \/ Drop(s) \/ Free(s)
      PROVE  OwnerInv'
  <2>1. /\ \A q \in Process \ {s} : pc'[q] = pc[q] /\ entry'[q] = entry[q]
        /\ pc[s] \notin {"fill", "recycle", "finish"}
        /\ pc'[s] \notin {"fill", "recycle", "finish"}
        /\ UNCHANGED <<made, pool, refCount, size>>
    BY <1>0, <1>4 DEF Dequeue, EndHandle, DequeueClose, Drop, Free, Goto
  <2> QED
    BY <1>0, <2>1, OwnerFrame
<1>5. CASE UNCHANGED <<made, pool, refCount, size, pc, entry>>
  <2>1. \A o \in Object : Owners(o)' = Owners(o)
    BY <1>5 DEF Owners
  <2> QED
    BY <1>5, <2>1 DEF OwnerInv, OwnerOf
<1>6. ASSUME NEW p \in Process, Release(p) PROVE OwnerInv'
  <2> PICK o \in Object : o = entry[p].obj
    BY <1>6, ResetEntry DEF Release, ResetPc
  <2>1. p \in Holders(o)
    BY <1>6 DEF Release, Holders
  <2>2. refCount[o] # 0 /\ refCount[o] \in Nat
    BY <1>0, <2>1, Referred
  <2>3. Owners(o) = {} /\ pool[o] = 0 /\ o \in made
    BY <2>2 DEF OwnerInv, OwnerOf
  <2>4. /\ \A q \in Process \ {p} : pc'[q] = pc[q] /\ entry'[q] = entry[q]
        /\ entry'[p].obj = o
        /\ pc[p] = "release"
        /\ refCount[o] = 1 => pc'[p] = "recycle"
        /\ refCount[o] # 1 => pc'[p] \notin {"fill", "recycle", "finish"}
        /\ refCount'[o] = refCount[o] - 1
        /\ \A x \in Object \ {o} : refCount'[x] = refCount[x]
        /\ UNCHANGED <<made, pool, size>>
    BY <1>0, <1>6, <2>2, ResetEntry DEF Release, Goto, ResetPc
  <2>5. /\ refCount[o] = 1 => p \in Owners(o)'
        /\ refCount[o] # 1 => p \notin Owners(o)' /\ p \notin Owners(o)
        /\ \A x \in Object \ {o} : p \notin Owners(x) /\ p \notin Owners(x)'
    BY <2>3, <2>4 DEF Owners
  <2>6. /\ refCount[o] = 1 => Owners(o)' = {p}
        /\ refCount[o] # 1 => Owners(o)' = {}
        /\ \A x \in Object \ {o} : Owners(x)' = Owners(x)
    BY <2>3, <2>4, <2>5, OwnersStep
  <2>7. ASSUME NEW x \in Object PROVE OwnerOf(x)'
    <3>1. CASE x = o
      BY <2>2, <2>3, <2>4, <2>6, <3>1 DEF OwnerOf
    <3>2. CASE x # o
      BY <2>4, <2>6, <3>2 DEF OwnerInv, OwnerOf
    <3> QED
      BY <3>1, <3>2
  <2> QED
    BY <2>7 DEF OwnerInv
<1>7. ASSUME NEW p \in Process, Recycle(p) \/ Finish(p) PROVE OwnerInv'
  <2> PICK o \in Object : o = entry[p].obj
    BY <1>7, ResetEntry DEF Recycle, Finish, ResetPc
  <2>1. /\ \A q \in Process \ {p} : pc'[q] = pc[q] /\ entry'[q] = entry[q]
        /\ entry'[p].obj = o
        /\ \/ pc[p] = "recycle" /\ pc'[p] = "finish"
           \/ pc[p] = "finish" /\ pc'[p] \in {"visit", "drop", "idle"}
        /\ UNCHANGED <<made, refCount, size>>
    BY <1>0, <1>7, ResetEntry DEF Recycle, Finish, Goto, ResetPc
  <2>2. \A x \in Object \ {o} : p \notin Owners(x) /\ p \notin Owners(x)'
    BY <2>1 DEF Owners
  <2>3. \A x \in Object \ {o} : Owners(x)' = Owners(x)
    BY <2>1, <2>2, OwnersStep
  <2>4. CASE PushBack(o)
    <3>1. p \in Owners(o) /\ p \notin Owners(o)'
      BY <1>0, <1>7, <2>1, <2>4 DEF Recycle, Finish, PushBack, Wipe, Owners
    <3>2. Owners(o) = {p} /\ refCount[o] = 0 /\ pool[o] = 0 /\ o \in made
      BY <3>1 DEF OwnerInv, OwnerOf
    <3>3. Owners(o)' = {}
      BY <2>1, <3>1, <3>2, OwnersStep
    <3>4. pool'[o] = 1 /\ \A x \in Object \ {o} : pool'[x] = pool[x]
      BY <1>0, <2>4, <3>2 DEF PushBack
    <3>5. ASSUME NEW x \in Object PROVE OwnerOf(x)'
      <4>1. CASE x = o
        BY <2>1, <3>2, <3>3, <3>4, <4>1 DEF OwnerOf
      <4>2. CASE x # o
        BY <2>1, <2>3, <3>4, <4>2 DEF OwnerInv, OwnerOf
      <4> QED
        BY <4>1, <4>2
    <3> QED
      BY <3>5 DEF OwnerInv
  <2>5. CASE Wipe(o)
    <3>1. p \in Owners(o) <=> p \in Owners(o)'
      BY <1>0, <1>7, <2>1, <2>5 DEF Recycle, Finish, PushBack, Wipe, Owners
    <3>2. \A x \in Object : Owners(x)' = Owners(x)
      BY <2>1, <2>3, <3>1, OwnersStep
    <3> QED
      BY <2>1, <2>5, <3>2 DEF OwnerInv, OwnerOf, Wipe
  <2> QED
    BY <1>7, <2>4, <2>5 DEF Recycle, Finish
<1> QED
  BY <1>1, <1>2, <1>3, <1>4, <1>5, <1>6, <1>7 DEF Next, CloseService, EraseService, vars

-----------------------------------------------------------------------------
(* The data. *)

\* What a step of p may not disturb.
Alone(p) ==
  /\ \A q \in Process \ {p} : pc'[q] = pc[q] /\ entry'[q] = entry[q]
  /\ \A t \in Thread \ {p} : list'[t] = list[t]

\* The clauses of DataOf that are about p.
DataAt(p, o) ==
  /\ p \in Holders(o) => entry[p].call = payload[o]
  /\ p \in Thread /\ entry[p].obj = o /\ pc[p] # "fill" /\ list[p] # <<>>
       => entry[p].call = payload[o]
  /\ pc[p] = "finish" /\ entry[p].obj = o => payload[o] = 0

\* Without a reference in a queue no entry points to o, and without one to visit
\* every broadcast of o has come to the end of its list.
LEMMA NoneQueued ==
  ASSUME NEW o, Queued(o) = {}
  PROVE  \A s \in Service : \A i \in 1..Len(queue[s]) : queue[s][i].obj # o
<1> SUFFICES ASSUME NEW s \in Service, NEW i \in 1..Len(queue[s]), queue[s][i].obj = o
             PROVE  FALSE
  OBVIOUS
<1>1. <<s, i>> \in Queued(o)
  BY QueuedIs
<1> QED
  BY <1>1

LEMMA NoneUnvisited ==
  ASSUME TypeOK, NEW o, Unvisited(o) = {}
  PROVE  \A t \in Thread : entry[t].obj = o /\ pc[t] # "fill" => list[t] = <<>>
<1> SUFFICES ASSUME NEW t \in Thread, entry[t].obj = o, pc[t] # "fill", list[t] # <<>>
             PROVE  FALSE
  OBVIOUS
<1>1. list[t] \in UNION {[1..n -> Service] : n \in 0..MaxList}
  BY DEF TypeOK
<1>2. Len(list[t]) \in DOMAIN list[t]
  BY <1>1, ListFacts
<1>3. <<t, Len(list[t])>> \in Unvisited(o)
  BY <1>2, UnvisitedIs
<1> QED
  BY <1>3

QueueData(o) ==
  \A s \in Service : \A i \in DOMAIN queue[s] :
    queue[s][i].obj = o => queue[s][i].call = payload[o]

\* A step of p that leaves the payload of o.
LEMMA DataKept ==
  ASSUME NEW p \in Process, Alone(p), NEW o, DataOf(o), payload'[o] = payload[o],
         QueueData(o)', DataAt(p, o)', pool'[o] = 1 => payload[o] = 0
  PROVE  DataOf(o)'
<1>1. ASSUME NEW q \in Process \ {p} PROVE DataAt(q, o)'
  <2>1. DataAt(q, o)
    BY DEF DataOf, DataAt
  <2>2. pc'[q] = pc[q] /\ entry'[q] = entry[q] /\ (q \in Thread => list'[q] = list[q])
    BY DEF Alone
  <2>3. q \in Holders(o)' <=> q \in Holders(o)
    BY <2>2 DEF Holders
  <2> QED
    BY <2>1, <2>2, <2>3 DEF DataAt
<1>2. \A q \in Process : DataAt(q, o)'
  BY <1>1
<1> QED
  BY <1>2 DEF DataOf, DataAt, QueueData, Holders, Process

\* A step of p that writes the payload of o while nobody else refers to it.
LEMMA DataWritten ==
  ASSUME TypeOK, NEW p \in Process, Alone(p), UNCHANGED <<queue, list>>, NEW o,
         Queued(o) = {}, Holders(o) = {}, Unvisited(o) = {},
         \A q \in Process \ {p} : ~(pc[q] = "finish" /\ entry[q].obj = o),
         DataAt(p, o)', pool'[o] = 1 => payload'[o] = 0
  PROVE  DataOf(o)'
<1>1. ASSUME NEW q \in Process \ {p} PROVE DataAt(q, o)'
  <2>1. pc'[q] = pc[q] /\ entry'[q] = entry[q]
    BY DEF Alone
  <2>2. q \notin Holders(o)'
    BY <2>1 DEF Holders
  <2>3. q \in Thread /\ entry'[q].obj = o /\ pc'[q] # "fill" => list'[q] = <<>>
    BY <2>1, NoneUnvisited
  <2> QED
    BY <2>1, <2>2, <2>3 DEF DataAt
<1>2. \A q \in Process : DataAt(q, o)'
  BY <1>1
<1>3. QueueData(o)'
  <2>1. \A s \in Service : DOMAIN queue[s] = 1..Len(queue[s])
    BY DEF TypeOK
  <2>2. \A s \in Service : \A i \in DOMAIN queue[s] : queue[s][i].obj # o
    BY <2>1, NoneQueued
  <2> QED
    BY <2>2 DEF QueueData
<1> QED
  BY <1>2, <1>3 DEF DataOf, DataAt, QueueData, Holders, Process

\* What an object that a process owns looks like.
LEMMA Owned ==
  ASSUME TypeOK, Counted, OwnerInv, NEW o \in Object, NEW p \in Owners(o)
  PROVE  /\ Queued(o) = {} /\ Holders(o) = {} /\ Unvisited(o) = {}
         /\ pool[o] = 0 /\ Owners(o) = {p}
<1>1. refCount[o] = 0 /\ Owners(o) = {p} /\ Owners(o) # {} /\ pool[o] \in {0, 1}
  BY DEF OwnerInv, OwnerOf
<1>2. pool[o] = 0
  BY <1>1 DEF OwnerInv, OwnerOf
<1> QED
  BY <1>1, <1>2, Referred

LEMMA FillData ==
  ASSUME TypeOK, PlaceInv, Counted, OwnerInv, DataInv, NEW t \in Thread, Fill(t)
  PROVE  DataInv'
<1> USE DEF threadVars, objectVars, serviceVars
<1> PICK x \in Object : x = entry[t].obj
  BY DEF Fill, PlaceInv, ThreadPlace, Entry
<1>1. /\ t \in Process /\ Alone(t) /\ UNCHANGED <<queue, list, pool, entry>>
      /\ pc[t] = "fill" /\ pc'[t] = "visit"
      /\ payload'[x] = entry[t].call
      /\ \A o \in Object \ {x} : payload'[o] = payload[o]
  BY DEF Fill, Goto, TypeOK, Process, Alone
<1>2. t \in Owners(x)
  BY <1>1 DEF Owners
<1>3. /\ Queued(x) = {} /\ Holders(x) = {} /\ Unvisited(x) = {}
      /\ pool[x] = 0 /\ Owners(x) = {t}
  BY <1>2, Owned
<1>4. ASSUME NEW o \in Multi PROVE DataOf(o)'
  <2>1. o \in Object /\ DataOf(o)
    BY DEF Object, DataInv
  <2>2. t \notin Holders(o)'
    BY <1>1 DEF Holders
  <2>3. CASE o = x
    <3>1. DataAt(t, x)'
      BY <1>1, <2>2, <2>3 DEF DataAt
    <3>2. \A q \in Process \ {t} : ~(pc[q] = "finish" /\ entry[q].obj = x)
      BY <1>3, <2>3 DEF Owners
    <3> QED
      BY <1>1, <1>3, <2>3, <3>1, <3>2, DataWritten
  <2>4. CASE o # x
    <3>1. DataAt(t, o)'
      BY <1>1, <2>2, <2>4 DEF DataAt
    <3>2. QueueData(o)' /\ payload'[o] = payload[o] /\ (pool'[o] = 1 => payload[o] = 0)
      BY <1>1, <2>1, <2>4 DEF DataOf, QueueData
    <3> QED
      BY <1>1, <2>1, <3>1, <3>2, DataKept
  <2> QED
    BY <2>3, <2>4
<1> QED
  BY <1>4 DEF DataInv

LEMMA RecycleData ==
  ASSUME TypeOK, PlaceInv, Counted, OwnerInv, DataInv,
         NEW p \in Process, Recycle(p) \/ Finish(p)
  PROVE  DataInv'
<1> USE DEF threadVars, objectVars, serviceVars
<1> PICK x \in Object : x = entry[p].obj
  BY ResetEntry DEF Recycle, Finish, ResetPc
<1>1. /\ Alone(p) /\ UNCHANGED <<queue, list, entry>>
      /\ \/ pc[p] = "recycle" /\ pc'[p] = "finish"
         \/ pc[p] = "finish" /\ pc'[p] \in {"visit", "drop", "idle"}
  BY ResetEntry DEF Recycle, Finish, Goto, TypeOK, Alone, ResetPc
<1>2. Wipe(x) \/ PushBack(x)
  BY DEF Recycle, Finish
<1>3. /\ \A o \in Object \ {x} : payload'[o] = payload[o] /\ pool'[o] = pool[o]
      /\ x \in Multi /\ pc[p] = "recycle" => Wipe(x)
      /\ x \in Multi /\ pc[p] = "finish" => PushBack(x)
  BY <1>2 DEF Recycle, Finish, Wipe, PushBack, TypeOK
<1>4. \A o : p \notin Holders(o) /\ p \notin Holders(o)'
  BY <1>1 DEF Holders
<1>5. ASSUME NEW o \in Multi PROVE DataOf(o)'
  <2>1. o \in Object /\ DataOf(o)
    BY DEF Object, DataInv
  <2>2. DataAt(p, o)
    BY <2>1, <1>4 DEF DataOf, DataAt
  <2>3. CASE o # x
    <3>1. DataAt(p, o)' /\ QueueData(o)' /\ (pool'[o] = 1 => payload[o] = 0)
      BY <1>1, <1>3, <1>4, <2>1, <2>2, <2>3 DEF DataAt, DataOf, QueueData
    <3> QED
      BY <1>1, <1>3, <2>1, <2>3, <3>1, DataKept
  <2>4. CASE o = x
    <3>1. p \in Owners(x)
      BY <1>1, <2>4 DEF Owners
    <3>2. /\ Queued(x) = {} /\ Holders(x) = {} /\ Unvisited(x) = {} /\ Owners(x) = {p}
      BY <3>1, Owned
    <3>3. payload'[x] = 0
      <4>1. CASE pc[p] = "recycle"
        BY <1>3, <2>4, <4>1 DEF Wipe, TypeOK
      <4>2. CASE pc[p] = "finish"
        BY <1>3, <2>1, <2>4, <4>2 DEF PushBack, DataOf
      <4> QED
        BY <1>1, <4>1, <4>2
    <3>4. p \in Thread /\ pc[p] # "fill" => list[p] = <<>>
      <4> SUFFICES ASSUME p \in Thread, pc[p] # "fill" PROVE list[p] = <<>>
        OBVIOUS
      <4>1. DOMAIN list[p] = {}
        BY <3>2, UnvisitedIs
      <4>2. list[p] # <<>> => Len(list[p]) \in DOMAIN list[p]
        BY ListFacts DEF TypeOK
      <4> QED
        BY <4>1, <4>2
    <3>5. DataAt(p, x)'
      BY <1>1, <1>4, <3>3, <3>4 DEF DataAt
    <3>6. \A q \in Process \ {p} : ~(pc[q] = "finish" /\ entry[q].obj = x)
      BY <2>4, <3>2 DEF Owners
    <3> QED
      BY <1>1, <2>4, <3>2, <3>3, <3>5, <3>6, DataWritten
  <2> QED
    BY <2>3, <2>4
<1> QED
  BY <1>5 DEF DataInv

\* A step of p that takes over references, and writes no object.
LEMMA DataStep ==
  ASSUME DataInv, NEW p \in Process, Alone(p), UNCHANGED payload,
         \A o \in Multi : /\ QueueData(o) => QueueData(o)'
                          /\ DataAt(p, o)'
                          /\ pool'[o] = 1 => pool[o] = 1
  PROVE  DataInv'
<1>1. ASSUME NEW o \in Multi PROVE DataOf(o)'
  <2>1. DataOf(o) /\ payload'[o] = payload[o]
    BY DEF DataInv
  <2>2. QueueData(o)' /\ DataAt(p, o)' /\ (pool'[o] = 1 => payload[o] = 0)
    BY <2>1 DEF DataOf, QueueData
  <2> QED
    BY <2>1, <2>2, DataKept
<1> QED
  BY <1>1 DEF DataInv

LEMMA ThreadData ==
  ASSUME TypeOK, PlaceInv, OwnerInv, DataInv, NEW t \in Thread,
         \/ \E o \in Object : Pop(t, o)
         \/ Visit(t) \/ Push(t) \/ Link(t) \/ Return(t)
  PROVE  DataInv'
<1> USE DEF threadVars, objectVars, serviceVars
<1>0. t \in Process /\ ThreadPlace(t) /\ UNCHANGED payload
  BY DEF Process, PlaceInv, Pop, Visit, Push, Link, Return
<1>1. Alone(t)
  BY DEF Pop, Visit, Push, Link, Return, Goto, TypeOK, Alone
<1>2. ASSUME NEW o \in Multi PROVE DataOf(o) /\ DataAt(t, o)
  BY <1>0, <1>2 DEF DataInv, DataOf, DataAt
<1>3. ASSUME NEW o \in Object, Pop(t, o) PROVE DataInv'
  <2>1. pc'[t] = "fill" /\ UNCHANGED queue
    BY <1>0, <1>3 DEF Pop, Goto, TypeOK
  <2>2. ASSUME NEW x \in Multi PROVE DataAt(t, x)' /\ (QueueData(x) => QueueData(x)')
    <3>1. t \notin Holders(x)'
      BY <2>1 DEF Holders
    <3>2. UNCHANGED payload
      BY <1>0
    <3> QED
      BY <2>1, <3>1, <3>2 DEF DataAt, QueueData
  <2>3. \A x \in Multi : pool'[x] = 1 => pool[x] = 1
    <3>1. \A x \in Object : pool[x] \in {0, 1}
      BY DEF OwnerInv, OwnerOf
    <3>2. pool' = pool \/ (pool' = [pool EXCEPT ![o] = @ - 1] /\ pool[o] > 0)
      BY <1>3 DEF Pop
    <3> QED
      BY <3>1, <3>2 DEF TypeOK, Object
  <2> QED
    BY <1>0, <1>1, <2>2, <2>3, DataStep
<1>4. CASE Visit(t)
  <2>1. /\ pc[t] = "visit" /\ list[t] # <<>> /\ pc'[t] \in {"push", "release"}
        /\ UNCHANGED <<entry, queue, pool>>
    BY <1>0, <1>4 DEF Visit, Goto, TypeOK
  <2>2. ASSUME NEW x \in Multi PROVE DataAt(t, x)'
    <3>1. entry[t].obj = x => entry[t].call = payload[x]
      BY <1>2, <2>1 DEF DataAt
    <3> QED
      BY <1>0, <2>1, <3>1 DEF DataAt, Holders
  <2> QED
    BY <1>0, <1>1, <2>1, <2>2, DataStep DEF QueueData
<1>5. CASE Push(t)
  <2>1. /\ pc[t] = "push" /\ pc'[t] = "link" /\ UNCHANGED <<entry, list, pool>>
        /\ target[t] \in Service
    BY <1>0, <1>5 DEF Push, Goto, TypeOK, ThreadPlace
  <2>2. ASSUME NEW x \in Multi PROVE DataAt(t, x)'
    BY <1>0, <1>2, <2>1 DEF DataAt, Holders
  <2>3. ASSUME NEW x \in Multi, QueueData(x) PROVE QueueData(x)'
    <3>1. entry[t].obj = x => entry[t].call = payload[x]
      BY <1>0, <1>2, <2>1 DEF DataAt, Holders
    <3>2. CASE UNCHANGED queue
      BY <1>0, <2>3, <3>2 DEF QueueData
    <3>3. CASE queue' = [queue EXCEPT ![target[t]] = Append(@, entry[t])]
      <4>1. ASSUME NEW s \in Service, NEW i \in DOMAIN queue'[s]
            PROVE  \/ i \in DOMAIN queue[s] /\ queue'[s][i] = queue[s][i]
                   \/ queue'[s][i] = entry[t]
        <5>1. CASE s # target[t]
          BY <2>1, <3>3, <5>1 DEF TypeOK
        <5>2. CASE s = target[t]
          <6>1. queue[s] \in Seq(Entry \cup {Close}) /\ queue'[s] = Append(queue[s], entry[t])
            BY <2>1, <3>3, <5>2 DEF TypeOK
          <6> QED
            BY <6>1, <4>1
        <5> QED
          BY <5>1, <5>2
      <4> QED
        BY <1>0, <2>3, <3>1, <4>1 DEF QueueData
    <3> QED
      BY <1>5, <3>2, <3>3 DEF Push
  <2> QED
    BY <1>0, <1>1, <2>1, <2>2, <2>3, DataStep
<1>6. CASE Link(t) \/ Return(t)
  <2>1. /\ pc[t] \in {"link", "visit"} /\ pc'[t] \in {"visit", "idle"}
        /\ UNCHANGED <<list, queue, pool>>
        /\ entry'[t] = entry[t] \/ list[t] = <<>>
    BY <1>0, <1>6 DEF Link, Return, Goto, TypeOK
  <2>2. ASSUME NEW x \in Multi PROVE DataAt(t, x)'
    BY <1>0, <1>2, <2>1 DEF DataAt, Holders
  <2> QED
    BY <1>0, <1>1, <2>1, <2>2, DataStep DEF QueueData
<1> QED
  BY <1>3, <1>4, <1>5, <1>6

LEMMA ReleaseData ==
  ASSUME TypeOK, PlaceInv, DataInv, NEW p \in Process, Release(p)
  PROVE  DataInv'
<1>1. /\ Alone(p) /\ UNCHANGED <<queue, list, entry, pool, payload>>
      /\ pc[p] = "release" /\ pc'[p] \in {"recycle", "visit", "drop", "idle"}
  BY ResetEntry DEF Release, Goto, TypeOK, Alone, ResetPc, threadVars, serviceVars
<1>2. ASSUME NEW x \in Multi PROVE DataAt(p, x)'
  <2>1. entry[p].obj = x => entry[p].call = payload[x]
    BY <1>1 DEF DataInv, DataOf, Holders
  <2> QED
    BY <1>1, <2>1 DEF DataAt, Holders
<1> QED
  BY <1>1, <1>2, DataStep DEF QueueData

LEMMA ServiceData ==
  ASSUME TypeOK, PlaceInv, CloseInv, DataInv, NEW s \in Service,
         \/ Dequeue(s) \/ EndHandle(s) \/ CloseService(s) \/ EraseService(s)
         \/ DequeueClose(s) \/ Drop(s) \/ Free(s)
  PROVE  DataInv'
<1> USE DEF threadVars, objectVars, serviceVars
<1>0. /\ s \in Process /\ s \notin Thread /\ ServicePlace(s)
      /\ UNCHANGED <<payload, pool, list>>
      /\ queue[s] \in Seq(Entry \cup {Close})
  BY PoolAssumption
     DEF Process, PlaceInv, Dequeue, EndHandle, CloseService, EraseService,
         DequeueClose, Drop, Free, TypeOK
<1>1. Alone(s)
  BY DEF Dequeue, EndHandle, CloseService, EraseService, DequeueClose, Drop, Free,
         Goto, TypeOK, Alone
<1>2. ASSUME NEW o \in Multi PROVE o \in Object /\ DataOf(o) /\ DataAt(s, o) /\ QueueData(o)
  BY <1>0, <1>2 DEF DataInv, DataOf, DataAt, QueueData, Object
<1>3. ASSUME queue[s] # <<>>, queue' = [queue EXCEPT ![s] = Tail(@)],
             NEW o \in Multi, QueueData(o)
      PROVE  /\ QueueData(o)'
             /\ Head(queue[s]).obj = o => Head(queue[s]).call = payload[o]
  <2>1. /\ queue[s] \in Seq(Entry \cup {Close}) /\ queue[s] # <<>>
        /\ queue'[s] = Tail(queue[s])
        /\ \A u \in Service \ {s} : queue'[u] = queue[u]
    BY <1>3 DEF TypeOK
  <2>2. /\ \A i \in DOMAIN queue'[s] : i + 1 \in DOMAIN queue[s] /\ queue'[s][i] = queue[s][i + 1]
        /\ 1 \in DOMAIN queue[s] /\ Head(queue[s]) = queue[s][1]
    BY <2>1
  <2>3. Head(queue[s]).obj = o => Head(queue[s]).call = payload[o]
    BY <1>3, <2>2 DEF QueueData
  <2>4. ASSUME NEW u \in Service, NEW i \in DOMAIN queue'[u], queue'[u][i].obj = o
        PROVE  queue'[u][i].call = payload'[o]
    <3>1. CASE u = s
      BY <1>0, <1>3, <2>2, <2>4, <3>1 DEF QueueData
    <3>2. CASE u # s
      BY <1>0, <1>3, <2>1, <2>4, <3>2 DEF QueueData
    <3> QED
      BY <3>1, <3>2
  <2> QED
    BY <2>3, <2>4 DEF QueueData
<1>4. CASE Dequeue(s) \/ Drop(s)
  <2>1. /\ queue[s] # <<>> /\ queue' = [queue EXCEPT ![s] = Tail(@)]
        /\ entry'[s] = Head(queue[s]) /\ pc'[s] \in {"handle", "release"}
    BY <1>0, <1>4 DEF Dequeue, Drop, HeadVisible, Goto, TypeOK
  <2>2. ASSUME NEW x \in Multi PROVE DataAt(s, x)' /\ QueueData(x)'
    <3>1. QueueData(x)' /\ (Head(queue[s]).obj = x => Head(queue[s]).call = payload[x])
      BY <1>2, <1>3, <2>1
    <3> QED
      BY <1>0, <2>1, <3>1 DEF DataAt, Holders
  <2> QED
    BY <1>0, <1>1, <2>2, DataStep
<1>5. CASE DequeueClose(s)
  <2>1. /\ queue[s] # <<>> /\ queue' = [queue EXCEPT ![s] = Tail(@)]
        /\ pc'[s] = "drop"
    BY <1>0, <1>5 DEF DequeueClose, HeadVisible, Goto, TypeOK
  <2>2. ASSUME NEW x \in Multi PROVE DataAt(s, x)' /\ QueueData(x)'
    <3>1. QueueData(x)'
      BY <1>2, <1>3, <2>1
    <3> QED
      BY <1>0, <2>1, <3>1 DEF DataAt, Holders
  <2> QED
    BY <1>0, <1>1, <2>2, DataStep
<1>6. CASE EndHandle(s)
  <2>1. /\ UNCHANGED <<queue, entry>> /\ pc[s] = "handle" /\ pc'[s] = "release"
    BY <1>0, <1>6 DEF EndHandle, Goto, TypeOK
  <2>2. ASSUME NEW x \in Multi PROVE DataAt(s, x)' /\ QueueData(x)'
    BY <1>0, <1>2, <2>1 DEF DataAt, Holders, QueueData
  <2> QED
    BY <1>0, <1>1, <2>2, DataStep
<1>7. CASE CloseService(s) \/ EraseService(s)
  <2>1. UNCHANGED <<pc, entry>> /\ queue' \in {queue, [queue EXCEPT ![s] = Append(@, Close)]}
    BY <1>7 DEF CloseService, EraseService
  <2>2. ASSUME NEW x \in Multi PROVE DataAt(s, x)' /\ QueueData(x)'
    <3>1. ASSUME NEW u \in Service, NEW i \in DOMAIN queue'[u]
          PROVE  \/ i \in DOMAIN queue[u] /\ queue'[u][i] = queue[u][i]
                 \/ queue'[u][i] = Close
      <4>1. CASE queue'[u] = queue[u]
        BY <4>1
      <4>2. CASE u = s /\ queue'[s] = Append(queue[s], Close)
        <5>1. queue[s] \in Seq(Entry \cup {Close}) /\ i \in DOMAIN Append(queue[s], Close)
          BY <1>0, <4>2
        <5>2. \/ i \in DOMAIN queue[s] /\ Append(queue[s], Close)[i] = queue[s][i]
              \/ Append(queue[s], Close)[i] = Close
          BY <5>1
        <5> QED
          BY <4>2, <5>2
      <4>3. queue'[u] = queue[u] \/ (u = s /\ queue'[s] = Append(queue[s], Close))
        BY <2>1 DEF TypeOK
      <4> QED
        BY <4>1, <4>2, <4>3
    <3>2. Close.obj # x
      BY <1>2, PoolAssumption DEF Close
    <3>3. QueueData(x)'
      BY <1>0, <1>2, <3>1, <3>2 DEF QueueData
    <3> QED
      BY <1>0, <1>2, <2>1, <3>3 DEF DataAt, Holders
  <2> QED
    BY <1>0, <1>1, <2>2, DataStep
<1>8. CASE Free(s)
  <2>1. queue' = [queue EXCEPT ![s] = <<>>] /\ pc'[s] = "freed"
    BY <1>0, <1>8 DEF Free, Goto, TypeOK
  <2>2. ASSUME NEW x \in Multi PROVE DataAt(s, x)' /\ QueueData(x)'
    <3>1. QueueData(x)'
      BY <1>0, <1>2, <2>1 DEF QueueData, TypeOK
    <3> QED
      BY <1>0, <2>1, <3>1 DEF DataAt, Holders
  <2> QED
    BY <1>0, <1>1, <2>2, DataStep
<1> QED
  BY <1>4, <1>5, <1>6, <1>7, <1>8

LEMMA StepData ==
  ASSUME PoolInv, [Next]_vars
  PROVE  DataInv'
<1>1. CASE UNCHANGED vars
  <2>1. ASSUME NEW o \in Multi PROVE DataOf(o)'
    <3>1. DataOf(o)
      BY DEF PoolInv, DataInv
    <3> QED
      BY <1>1, <3>1 DEF DataOf, Holders, vars
  <2> QED
    BY <2>1 DEF DataInv
<1> QED
  BY <1>1, FillData, RecycleData, ThreadData, ReleaseData, ServiceData DEF Next, PoolInv

-----------------------------------------------------------------------------
(* The theorems. *)

LEMMA InitInv == Init => PoolInv
<1> SUFFICES ASSUME Init PROVE PoolInv
  OBVIOUS
<1>0. /\ \A t \in Thread : t \in Process
      /\ \A s \in Service : s \in Process
      /\ Close.obj \notin Object
  BY PoolAssumption DEF Process, Close
<1>1. TypeOK
  <2>1. <<>> \in UNION {[1..n -> Service] : n \in 0..MaxList}
    BY PoolAssumption
  <2>2. <<>> \in Seq(Entry \cup {Close})
    OBVIOUS
  <2>3. 0 \in 0..MaxList /\ 0 \in 0..MaxCalls /\ 0 \in Nat
    BY PoolAssumption
  <2> QED
    BY <2>1, <2>2, <2>3 DEF Init, TypeOK, ThreadPc
<1>2. PlaceInv
  BY <1>0 DEF Init, PlaceInv, ThreadPlace, ServicePlace, ThreadPc, ServicePc, ResetPc
<1>3. CloseInv
  BY DEF Init, CloseInv
<1>4. ASSUME NEW o \in Object
      PROVE  /\ Queued(o) = {} /\ Holders(o) = {} /\ Unvisited(o) = {} /\ Owners(o) = {}
  BY <1>0 DEF Init, Queued, Holders, Unvisited, Owners
<1>5. ASSUME NEW o \in Object PROVE CountOf(o) /\ OwnerOf(o)
  <2>1. /\ IsFiniteSet({}) /\ Cardinality({}) = 0
    BY FS_EmptySet
  <2>2. refCount[o] = 0 /\ lost[o] = 0 /\ pool[o] = 0 /\ o \notin made
    BY DEF Init
  <2>3. CountOf(o)
    BY <1>4, <2>1, <2>2 DEF CountOf
  <2>4. OwnerOf(o)
    BY <1>4, <2>2 DEF OwnerOf
  <2> QED
    BY <2>3, <2>4
<1>6. ASSUME NEW o \in Multi PROVE DataOf(o)
  BY <1>0, <1>4 DEF Init, DataOf, Object
<1> QED
  BY <1>1, <1>2, <1>3, <1>5, <1>6 DEF PoolInv, Counted, OwnerInv, DataInv

\* The inductive invariant holds for every number of services, of threads that
\* post, of objects and of receivers of a broadcast.
THEOREM PoolInvariant == Spec => []PoolInv
<1>1. PoolInv /\ [Next]_vars => PoolInv'
  BY StepTyped, StepPlace, StepClose, StepCounted, StepOwner, StepData DEF PoolInv
<1> QED
  BY InitInv, <1>1, PTL DEF Spec

\* The unsigned m_refCount of --m_refCount == 0 (MFLuaMessage.hpp) never wraps
\* below zero, and every other variable keeps its type.
THEOREM PoolTypes == Spec => []TypeOK
<1>1. PoolInv => TypeOK
  BY DEF PoolInv
<1> QED
  BY PoolInvariant, <1>1, PTL

\* m_refCount counts the references that sendMulti and nativeDispatchHotReload
\* gave out and nobody has reset yet, wherever they are.
THEOREM RefCountAlways == Spec => []RefCountExact
<1>1. PoolInv => RefCountExact
  BY DEF PoolInv, Counted, CountOf, RefCountExact
<1> QED
  BY PoolInvariant, <1>1, PTL

\* No object is pushed to its MFObjectPool twice, and whoever pops one finds
\* that no queue, handler or broadcast can reach it any more.
THEOREM PooledUnusedAlways == Spec => []PooledIsUnused
<1>1. ASSUME PoolInv, NEW o \in Object, pool[o] > 0
      PROVE  /\ pool[o] = 1
             /\ Queued(o) = {}
             /\ \A p \in Process : Uses(p, o) => o \in Reload /\ pc[p] = "finish"
             /\ o \in Multi => payload[o] = 0
  <2>1. pool[o] = 1 /\ refCount[o] = 0 /\ Owners(o) = {}
    BY <1>1 DEF PoolInv, OwnerInv, OwnerOf
  <2>2. Queued(o) = {} /\ Holders(o) = {} /\ Unvisited(o) = {}
    BY <1>1, <2>1, Referred DEF PoolInv
  <2>3. ASSUME NEW p \in Process, Uses(p, o) PROVE o \in Reload /\ pc[p] = "finish"
    <3>1. entry[p].obj = o
      BY <2>3 DEF Uses
    <3>2. /\ pc[p] \notin {"fill", "recycle", "push", "handle", "release"}
          /\ pc[p] = "finish" => o \notin Multi
      BY <2>1, <2>2, <3>1 DEF Owners, Holders
    <3>3. p \in Thread => list[p] = <<>>
      BY <1>1, <2>2, <3>1, <3>2, NoneUnvisited DEF PoolInv
    <3> QED
      BY <2>3, <3>2, <3>3 DEF Uses, ResetPc, Object
  <2>4. o \in Multi => payload[o] = 0
    BY <1>1, <2>1 DEF PoolInv, DataInv, DataOf
  <2> QED
    BY <2>1, <2>2, <2>3, <2>4
<1>2. PoolInv => PooledIsUnused
  BY <1>1 DEF PooledIsUnused
<1> QED
  BY PoolInvariant, <1>2, PTL

\* Whatever service handles a multi message, and however late, it reads the
\* data of the sendMulti that posted it.
THEOREM HandlersSee == Spec => []HandlerSeesItsBroadcast
<1>1. ASSUME PoolInv, NEW s \in Service, NEW o \in Multi, Handling(s, o)
      PROVE  payload[o] = entry[s].call
  <2>1. s \in Holders(o)
    BY <1>1 DEF Handling, Holders, Process
  <2> QED
    BY <1>1, <2>1 DEF PoolInv, DataInv, DataOf
<1>2. PoolInv => HandlerSeesItsBroadcast
  BY <1>1 DEF HandlerSeesItsBroadcast
<1> QED
  BY PoolInvariant, <1>2, PTL

\* Only the references pushed to deleted services, and broadcasts to nobody,
\* keep an object out of its pool when all is quiet.
THEOREM NothingLeaksAlways == Spec => []NothingLeaks
<1>1. ASSUME PoolInv, Quiet, NEW o \in made
      PROVE  pool[o] = 1 \/ lost[o] > 0 \/ size[o] = 0
  <2>0. /\ o \in Object /\ refCount[o] \in Nat /\ lost[o] \in Nat
        /\ \A s \in Service : queue[s] = <<>>
        /\ \A p \in Process : pc[p] \in {"idle", "freed"}
    BY <1>1, PoolAssumption DEF PoolInv, TypeOK, Quiet, Process
  <2>1. Queued(o) = {} /\ Holders(o) = {} /\ Owners(o) = {}
    BY <2>0 DEF Queued, Holders, Owners
  <2>2. Unvisited(o) = {}
    BY <1>1 DEF Unvisited, Quiet, PoolInv, PlaceInv, ThreadPlace
  <2>3. refCount[o] = lost[o]
    BY <1>1, <2>0, <2>1, <2>2, FS_EmptySet DEF PoolInv, Counted, CountOf
  <2> QED
    BY <1>1, <2>0, <2>1, <2>3 DEF PoolInv, OwnerInv, OwnerOf
<1>2. PoolInv => NothingLeaks
  BY <1>1 DEF NothingLeaks
<1> QED
  BY PoolInvariant, <1>2, PTL
=============================================================================
