------------------------------ MODULE MFMailbox ------------------------------
(***************************************************************************)
(* What the service scheduler of MFServer promises to the Lua code of a    *)
(* service: a service is an actor.  Messages posted to it enter one        *)
(* mailbox, are handled in the order they entered it, one at a time, and   *)
(* no handler runs once the service's virtual machine has been destroyed.  *)
(* Which thread runs a handler is not visible here, and a service may      *)
(* leave a message in its mailbox for ever: MFScheduler explains why.      *)
(***************************************************************************)
EXTENDS Sequences

CONSTANTS
  Service,   \* the service objects ever created
  Message,   \* what can be posted
  Closing    \* the messages that end a service

VARIABLES
  box,       \* the mailbox of a service, oldest message first
  busy,      \* the messages being handled: at most one
  stage      \* "none", "open" or "gone"

mailboxVars == <<box, busy, stage>>

Init ==
  /\ box = [s \in Service |-> <<>>]
  /\ busy = [s \in Service |-> {}]
  /\ stage = [s \in Service |-> "none"]

Open(s) ==
  /\ stage[s] = "none"
  /\ stage' = [stage EXCEPT ![s] = "open"]
  /\ UNCHANGED <<box, busy>>

Post(s, m) ==
  /\ stage[s] = "open"
  /\ box' = [box EXCEPT ![s] = Append(@, m)]
  /\ UNCHANGED <<busy, stage>>

Handle(s) ==
  /\ stage[s] = "open"
  /\ busy[s] = {}
  /\ box[s] # <<>>
  /\ Head(box[s]) \notin Closing
  /\ busy' = [busy EXCEPT ![s] = {Head(box[s])}]
  /\ box' = [box EXCEPT ![s] = Tail(@)]
  /\ UNCHANGED stage

Done(s) ==
  /\ busy[s] # {}
  /\ busy' = [busy EXCEPT ![s] = {}]
  /\ UNCHANGED <<box, stage>>

\* The service ends at its close message: what was posted behind it is
\* thrown away, and nothing is being handled at that moment.
End(s) ==
  /\ stage[s] = "open"
  /\ busy[s] = {}
  /\ box[s] # <<>>
  /\ Head(box[s]) \in Closing
  /\ box' = [box EXCEPT ![s] = <<>>]
  /\ stage' = [stage EXCEPT ![s] = "gone"]
  /\ UNCHANGED busy

Next ==
  \E s \in Service :
    \/ Open(s) \/ Handle(s) \/ Done(s) \/ End(s)
    \/ \E m \in Message : Post(s, m)

Spec == Init /\ [][Next]_mailboxVars
=============================================================================
