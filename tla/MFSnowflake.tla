----------------------------- MODULE MFSnowflake -----------------------------
(***************************************************************************)
(* MFSnowflake::nextId: threads draw 64-bit ids from one generator.  An id *)
(* is datacenter | worker | sequence | timestamp; the first two fields are *)
(* fixed for a generator, so an id is modelled by the last two.  The       *)
(* generator is guarded by MFSpinLock, reads the wall clock, counts within *)
(* a millisecond and, when the count wraps, spins for the next one.        *)
(***************************************************************************)
EXTENDS Integers

CONSTANTS
  Thread,
  SeqSize,   \* 2^SEQUENCE_BITS
  TimeSize,  \* 2^TIMESTAMP_BITS
  Epoch,     \* m_twepoch
  MaxClock,  \* bound: the clock runs over 0..MaxClock
  StepBack,  \* may the wall clock be set back?
  NoThread

ASSUME SnowflakeAssumption ==
  /\ SeqSize \in Nat \ {0}
  /\ TimeSize \in Nat \ {0}
  /\ Epoch \in Int
  /\ MaxClock \in Nat
  /\ StepBack \in BOOLEAN
  /\ NoThread \notin Thread

\* The timestamp field: the difference to the epoch, cut to its bits.
Field(time) == (time - Epoch) % TimeSize

\* The server does not outlive the 41 bits of the field.
ASSUME SpanAssumption ==
  \A a, b \in 0..MaxClock : Field(a) = Field(b) => a = b

VARIABLES
  clock,     \* system_clock, in milliseconds
  last,      \* m_lastTimestamp
  sequence,  \* m_sequence
  lock,      \* m_spineLock: who holds it
  pc,        \* where a thread is in nextId
  time,      \* its local timestamp
  issued     \* the ids returned so far: sequence and clock reading

idVars == <<clock, last, sequence, lock, pc, time, issued>>

IdInit ==
  /\ clock \in 0..MaxClock
  /\ last = -1
  /\ sequence = 0
  /\ lock = NoThread
  /\ pc = [t \in Thread |-> "idle"]
  /\ time = [t \in Thread |-> 0]
  /\ issued = {}

Tick ==
  /\ \E now \in 0..MaxClock :
       /\ now > clock \/ (StepBack /\ now < clock)
       /\ clock' = now
  /\ UNCHANGED <<last, sequence, lock, pc, time, issued>>

Lock(t) ==
  /\ pc[t] = "idle"
  /\ lock = NoThread
  /\ lock' = t
  /\ pc' = [pc EXCEPT ![t] = "read"]
  /\ UNCHANGED <<clock, last, sequence, time, issued>>

MilSecond(t) ==
  /\ pc[t] = "read"
  /\ time' = [time EXCEPT ![t] = clock]
  /\ pc' = [pc EXCEPT ![t] = "count"]
  /\ UNCHANGED <<clock, last, sequence, lock, issued>>

Count(t) ==
  /\ pc[t] = "count"
  /\ sequence' = IF last = time[t] THEN (sequence + 1) % SeqSize ELSE 0
  /\ pc' = [pc EXCEPT ![t] =
              IF last = time[t] /\ sequence' = 0 THEN "spin" ELSE "return"]
  /\ UNCHANGED <<clock, last, lock, time, issued>>

\* Mutant: the wait ends at the millisecond that is already used up.
WaitTooShort(t) ==
  /\ pc[t] = "spin"
  /\ clock >= last
  /\ time' = [time EXCEPT ![t] = clock]
  /\ pc' = [pc EXCEPT ![t] = "return"]
  /\ UNCHANGED <<clock, last, sequence, lock, issued>>

\* wait_next_millis leaves its loop, the lock still held.
WaitNextMillis(t) ==
  /\ pc[t] = "spin"
  /\ clock > last
  /\ time' = [time EXCEPT ![t] = clock]
  /\ pc' = [pc EXCEPT ![t] = "return"]
  /\ UNCHANGED <<clock, last, sequence, lock, issued>>

Return(t) ==
  /\ pc[t] = "return"
  /\ last' = time[t]
  /\ issued' = issued \cup {[seq |-> sequence, time |-> time[t]]}
  /\ lock' = NoThread
  /\ pc' = [pc EXCEPT ![t] = "idle"]
  /\ UNCHANGED <<clock, sequence, time>>

\* A new process makes a new generator with the same worker id.  It takes it
\* more than a millisecond to get there.
Restart ==
  /\ \A e \in issued : clock > e.time
  /\ last' = -1
  /\ sequence' = 0
  /\ lock' = NoThread
  /\ pc' = [t \in Thread |-> "idle"]
  /\ UNCHANGED <<clock, time, issued>>

IdNext ==
  \/ Tick
  \/ Restart
  \/ \E t \in Thread :
       Lock(t) \/ MilSecond(t) \/ Count(t) \/ WaitNextMillis(t) \/ Return(t)

IdSpec == IdInit /\ [][IdNext]_idVars

-----------------------------------------------------------------------------
\* Every variable keeps its range: the sequence its bits, the times the clock's.
IdTypeOK ==
  /\ clock \in 0..MaxClock
  /\ last \in -1..MaxClock
  /\ sequence \in 0..SeqSize - 1
  /\ lock \in Thread \cup {NoThread}
  /\ pc \in [Thread -> {"idle", "read", "count", "spin", "return"}]
  /\ time \in [Thread -> 0..MaxClock]
  /\ issued \in SUBSET [seq : 0..SeqSize - 1, time : 0..MaxClock]

\* nextId never returns an id twice, over all threads and restarts, as long as
\* the clock is not set back: the sequence may wrap within a millisecond, and
\* several threads may read the same one.
UniqueIds ==
  [][\A t \in Thread :
       pc[t] = "return" /\ pc'[t] = "idle" /\ last' = time[t] =>
         ~\E e \in issued : e.seq = sequence /\ Field(e.time) = Field(time[t])]_idVars

\* The lock covers everything from the reading of the clock to the return.
OneInside ==
  \A t \in Thread : pc[t] # "idle" <=> lock = t
=============================================================================
