----------------------------- MODULE MFSocketMail -----------------------------
(***************************************************************************)
(* The messages by which servers tell a service of their peers.  The       *)
(* service's queue keeps the order in which they are dispatched; here each *)
(* peer has a queue of its own, since order among peers plays no part.     *)
(***************************************************************************)
EXTENDS Naturals, Sequences

CONSTANTS
  Fd,       \* peers: genConnectFd gives a number once, a UDP peer chooses its conv
  MaxMail,  \* bound: messages of one peer in the queue
  None

ASSUME MailAssumption == MaxMail \in Nat /\ None \notin Fd

VARIABLES
  kind,   \* the server a peer uses
  mail,   \* messages of a peer that the service has yet to handle
  stage   \* history: the last one handled, "late" for a read after the closing

mailVars == <<kind, mail, stage>>

MailInit(kinds) ==
  /\ kind \in [Fd -> kinds]
  /\ mail = [f \in Fd |-> <<>>]
  /\ stage = [f \in Fd |-> "unknown"]

\* nativeDispatch of a message with command cmd.
Tell(f, cmd) ==
  /\ mail' = [mail EXCEPT ![f] = Append(@, cmd)]
  /\ UNCHANGED <<kind, stage>>

\* What a service that last heard s has heard after message cmd.
Hearing(s, cmd) ==
  IF cmd = "read" /\ s \in {"close", "late"} THEN "late" ELSE cmd

\* The service's handler for the message.
Handle(f) ==
  /\ mail[f] # <<>>
  /\ stage' = [stage EXCEPT ![f] = Hearing(@, Head(mail[f]))]
  /\ mail' = [mail EXCEPT ![f] = Tail(@)]
  /\ UNCHANGED kind
=============================================================================
