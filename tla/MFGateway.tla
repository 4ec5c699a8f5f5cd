------------------------------ MODULE MFGateway ------------------------------
(***************************************************************************)
(* The servers of a process together: connections and UDP conversations,   *)
(* whose messages one service hears (MFSocketMail).                        *)
(***************************************************************************)
EXTENDS MFConnections, MFUdpChannels

vars == <<mailVars, connVars, udpVars>>

Init ==
  /\ MailInit({"tcp", "websocket", "http", "udp"})
  /\ ConnInit
  /\ UdpInit

Next ==
  \/ ConnNext /\ UNCHANGED udpVars
  \/ UdpNext /\ UNCHANGED connVars
  \/ \E f \in Fd : Handle(f) /\ UNCHANGED <<connVars, udpVars>>

Spec == Init /\ [][Next]_vars

\* Loops run what is due, a channel that gets no packets expires, and the
\* service handles its messages.  No peer has to go away, answer or be answered.
FairSpec ==
  /\ Spec
  /\ \A f \in Fd : /\ WF_vars(LoopStep(f) /\ UNCHANGED udpVars)
                   /\ WF_vars(Handle(f) /\ UNCHANGED <<connVars, udpVars>>)
  /\ \A l \in Loop : WF_vars(UdpStep(l) /\ UNCHANGED connVars)

-----------------------------------------------------------------------------
InTimer(l) == pc[l] \in {"timer", "erase", "remove"}

\* Types; the lock is held while its holder inserts, and a loop has a packet in
\* hand exactly in the message callback, and channels to remove in its timer.
TypeOK ==
  /\ kind \in [Fd -> {"tcp", "websocket", "http", "udp"}]
  /\ mail \in [Fd -> Seq({"open", "read", "close"})]
  /\ stage \in [Fd -> {"unknown", "open", "read", "close", "late"}]
  /\ at \in [Fd -> 0..6]
  /\ link \in [Fd -> {"none", "up", "down", "forced"}]
  /\ connMap \subseteq {f \in Fd : kind[f] # "udp"}
  /\ answers \in [Fd -> Nat]
  /\ pc \in [Loop -> {"idle", "lookup", "create", "insert", "enroll", "receive",
                      "timer", "erase", "remove"}]
  /\ conv \in [Loop -> Fd \cup {None}]
  /\ inbox \in [Loop -> Seq(Fd)]
  /\ udpMap \in [Fd -> Loop \cup {None}]
  /\ lock \in Loop \cup {None}
  /\ loopMap \in [Loop -> SUBSET Fd]
  /\ gone \in [Loop -> SUBSET Fd]
  /\ \A l \in Loop : /\ pc[l] \in {"insert", "enroll"} <=> lock = l
                     /\ gone[l] # {} <=> InTimer(l)
                     /\ conv[l] = None <=> pc[l] = "idle" \/ InTimer(l)
  /\ packets \in 0..MaxPacket

\* A service that has heard of a peer reaches it while it is there: from the
\* opening for TCP and HTTP, but only from the first message for WebSocket, whose
\* opening is told before the peer is in the map.  A connection that has ended
\* is in no map.  A UDP conversation is in the map of all channels from its
\* opening, but while its channel is made, to its closing, but while the timer
\* removes it.
Alive(f) == link[f] = "up" /\ stage[f] # "close"

MapsFollowPeers ==
  \A f \in Fd :
    /\ kind[f] = "tcp" /\ Alive(f) /\ stage[f] # "unknown" => f \in connMap
    /\ kind[f] = "websocket" /\ Alive(f) /\ stage[f] = "read" => f \in connMap
    /\ kind[f] = "http" /\ stage[f] # "unknown" => (f \in connMap <=> answers[f] = 0)
    /\ kind[f] = "udp" /\ mail[f] = <<>> =>
         IF stage[f] \in {"open", "read"}
           THEN udpMap[f] # None \/ \E l \in Loop : pc[l] = "insert" /\ conv[l] = f
           ELSE udpMap[f] = None \/ \E l \in Loop : f \in gone[l]
    /\ kind[f] # "http" /\ Doing(f) = "done" => f \notin connMap

\* A conversation has one channel, and the loop whose timer looks after it is
\* the one that its packets are sent to, however its first packets race: the two
\* maps differ only in the channel that the loop is inserting or removing.
OneChannel ==
  \A f \in Fd, l \in Loop :
    /\ f \in loopMap[l] => udpMap[f] = l
    /\ udpMap[f] = l => \/ f \in loopMap[l]
                        \/ pc[l] = "enroll" /\ conv[l] = f
                        \/ pc[l] = "remove" /\ f \in gone[l]

Peer == INSTANCE MFPeer WITH reusable <- {f \in Fd : kind[f] = "udp"}

\* What the service hears of a peer is in order, whatever threads tell it, but
\* for the messages of a UDP conversation that are told after its closing; and
\* no request is answered twice.
ImplementsPeer == Peer!Spec

Ending(f) ==
  \/ kind[f] \in {"tcp", "websocket"} /\ link[f] \in {"down", "forced"}
  \/ kind[f] = "udp" /\ stage[f] \in {"open", "read"}

\* The service hears of the end of every peer: of a connection that broke or
\* that it closed itself, and of a UDP conversation once per opening.
EndIsTold == \A f \in Fd : Ending(f) ~> stage[f] = "close"
=============================================================================
