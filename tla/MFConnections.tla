---------------------------- MODULE MFConnections ----------------------------
(***************************************************************************)
(* Peers of MFTcpServer, MFWebSocketServer and MFHttpServer, and the maps  *)
(* of MFConnectionManager by which services reach them.                    *)
(*                                                                         *)
(* The callbacks of a connection run one after another on its event loop;  *)
(* between any two of their steps the service may run, send, answer or     *)
(* close.  What trantor and drogon do is external: they report the end of  *)
(* a connection once, after forceClose too.                                *)
(***************************************************************************)
EXTENDS MFSocketMail

VARIABLES
  at,        \* the step of the peer's callbacks that is next, 0 before it comes
  link,      \* its connection: "none", "up", "down"
  connMap,   \* m_connectionMap, m_webConnectionMap and m_httpCallbackMap
  answers    \* history: how often the callback of a request was called

connVars == <<at, link, connMap, answers>>

\* Mutant: a TCP connection is told of before it can be found.
TcpOpenFirst == <<"open", "add", "up", "remove", "close", "done">>

\* The callbacks, step by step: the one for a new connection up to "up", where
\* it can read, and the one for its end.
TcpScript == <<"add", "open", "up", "remove", "close", "done">>
WebSocketScript == <<"open", "add", "up", "close", "remove", "done">>
HttpScript == <<"add", "open", "done">>

Script(f) ==
  CASE kind[f] = "tcp" -> TcpScript
    [] kind[f] = "websocket" -> WebSocketScript
    [] kind[f] = "http" -> HttpScript
    [] OTHER -> <<>>

Doing(f) == IF at[f] = 0 THEN "none" ELSE Script(f)[at[f]]

ConnInit ==
  /\ at = [f \in Fd |-> 0]
  /\ link = [f \in Fd |-> "none"]
  /\ connMap = {}
  /\ answers = [f \in Fd |-> 0]

Continue(f) == at' = [at EXCEPT ![f] = @ + 1]

Accept(f) ==
  /\ at[f] = 0 /\ Script(f) # <<>>
  /\ Continue(f)
  /\ link' = [link EXCEPT ![f] = "up"]
  /\ UNCHANGED <<connMap, answers, mailVars>>

\* Mutant: the end of a connection that is not in the map is not told.
StepIfKnown(f) ==
  /\ Doing(f) \in {"add", "remove", "open", "close"}
  /\ Continue(f)
  /\ connMap' = CASE Doing(f) = "add" -> connMap \cup {f}
                  [] Doing(f) = "remove" -> connMap \ {f}
                  [] OTHER -> connMap
  /\ IF Doing(f) = "open" \/ (Doing(f) = "close" /\ link[f] # "forced")
       THEN Tell(f, Doing(f)) ELSE UNCHANGED mailVars
  /\ UNCHANGED <<link, answers>>

Step(f) ==
  /\ Doing(f) \in {"add", "remove", "open", "close"}
  /\ Continue(f)
  /\ connMap' = CASE Doing(f) = "add" -> connMap \cup {f}
                  [] Doing(f) = "remove" -> connMap \ {f}
                  [] OTHER -> connMap
  /\ IF Doing(f) \in {"open", "close"}
       THEN Tell(f, Doing(f)) ELSE UNCHANGED mailVars
  /\ UNCHANGED <<link, answers>>

\* onRead for one whole message, and handleNewMessage.  The loop may deliver
\* what it has read although the connection has been closed.
Read(f) ==
  /\ Doing(f) = "up" /\ Len(mail[f]) < MaxMail
  /\ Tell(f, "read")
  /\ UNCHANGED connVars

\* The peer goes away, or kickoffIdleConnections closes the connection.
Break(f) ==
  /\ link[f] = "up"
  /\ link' = [link EXCEPT ![f] = "down"]
  /\ UNCHANGED <<at, connMap, answers, mailVars>>

Disconnected(f) ==
  /\ Doing(f) = "up" /\ link[f] # "up"
  /\ Continue(f)
  /\ UNCHANGED <<link, connMap, answers, mailVars>>

\* forceCloseConnection and forceCloseWebSocketConnection.
ForceClose(f) ==
  /\ stage[f] # "unknown" /\ kind[f] # "http" /\ f \in connMap
  /\ connMap' = connMap \ {f}
  /\ link' = [link EXCEPT ![f] = "forced"]
  /\ UNCHANGED <<at, answers, mailVars>>

\* httpResponse and httpResponseParams.
Respond(f) ==
  /\ stage[f] # "unknown" /\ kind[f] = "http" /\ f \in connMap
  /\ connMap' = connMap \ {f}
  /\ answers' = [answers EXCEPT ![f] = @ + 1]
  /\ UNCHANGED <<at, link, mailVars>>

LoopStep(f) == Accept(f) \/ Step(f) \/ Disconnected(f)

ConnNext ==
  \E f \in Fd : LoopStep(f) \/ Read(f) \/ Break(f) \/ ForceClose(f) \/ Respond(f)
=============================================================================
