------------------------------ MODULE MFSqlCall ------------------------------
(***************************************************************************)
(* What MFLuaSql promises to the Lua code of a service: what a call asks   *)
(* for is done at most once, the caller is told at most once, and it is    *)
(* told of success only when all of it is done.  After a failure nobody    *)
(* knows: the database may still commit what it had received.              *)
(***************************************************************************)
CONSTANT Call

VARIABLES
  asked,    \* calls made
  done,     \* calls whose statements have all taken effect
  outcome   \* what the caller was told: "none", "ok" or "failed"

callVars == <<asked, done, outcome>>

Init ==
  /\ asked = {}
  /\ done = {}
  /\ outcome = [c \in Call |-> "none"]

Ask(c) ==
  /\ c \notin asked
  /\ asked' = asked \cup {c}
  /\ UNCHANGED <<done, outcome>>

Do(c) ==
  /\ c \in asked \ done
  /\ done' = done \cup {c}
  /\ UNCHANGED <<asked, outcome>>

Tell(c) ==
  /\ c \in asked /\ outcome[c] = "none"
  /\ \/ c \in done /\ outcome' = [outcome EXCEPT ![c] = "ok"]
     \/ outcome' = [outcome EXCEPT ![c] = "failed"]
  /\ UNCHANGED <<asked, done>>

Next == \E c \in Call : Ask(c) \/ Do(c) \/ Tell(c)

Spec == Init /\ [][Next]_callVars
=============================================================================
