-------------------------------- MODULE MFPeer --------------------------------
(***************************************************************************)
(* What the servers of MFServer promise to the service that they feed:     *)
(* of every peer it hears the opening first, then what the peer sends, and *)
(* the closing once.  A connection is silent after that.  A peer that may  *)
(* come back under its number (a UDP conversation) does so only after its  *)
(* closing, and a message of it that was under way may be heard late.  An  *)
(* HTTP request is an opening without a closing, answered at most once.    *)
(***************************************************************************)
CONSTANT Fd

VARIABLES
  reusable,  \* the peers whose number may come back
  stage,     \* what the service has last heard
  answers    \* how often it was answered

peerVars == <<reusable, stage, answers>>

Init ==
  /\ reusable \in SUBSET Fd
  /\ stage = [f \in Fd |-> "unknown"]
  /\ answers = [f \in Fd |-> 0]

Hear(f, cmd) ==
  /\ stage' = [stage EXCEPT ![f] = cmd]
  /\ UNCHANGED <<reusable, answers>>

Open(f) ==
  /\ stage[f] = "unknown" \/ (stage[f] \in {"close", "late"} /\ f \in reusable)
  /\ Hear(f, "open")

Read(f) == stage[f] \in {"open", "read"} /\ Hear(f, "read")

Late(f) ==
  /\ f \in reusable /\ stage[f] \in {"close", "late"}
  /\ Hear(f, "late")

Close(f) == stage[f] \in {"open", "read"} /\ Hear(f, "close")

Answer(f) ==
  /\ stage[f] = "open" /\ answers[f] = 0
  /\ answers' = [answers EXCEPT ![f] = 1]
  /\ UNCHANGED <<reusable, stage>>

Next == \E f \in Fd : Open(f) \/ Read(f) \/ Late(f) \/ Close(f) \/ Answer(f)

Spec == Init /\ [][Next]_peerVars
=============================================================================
