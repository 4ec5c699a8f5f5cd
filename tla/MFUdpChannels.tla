---------------------------- MODULE MFUdpChannels ----------------------------
(***************************************************************************)
(* UDP peers: MFUdpServer hands the packets of a conversation to the event *)
(* loop that owns its MFUdpChannel, or makes a channel;                    *)
(* MFUdpChannelManager keeps a map of all channels and one for each loop,  *)
(* whose timer takes out the channels that have been quiet for too long.   *)
(*                                                                         *)
(* KCP is left out: a packet lets the channel deliver a message or not.    *)
(* Which loop the sockets give a packet to is external.  There is no       *)
(* clock: a channel may expire whenever the timer of its loop looks at it. *)
(***************************************************************************)
EXTENDS MFSocketMail

CONSTANTS
  Loop,        \* the event loops of the server
  MaxPacket    \* bound: packets that arrive

ASSUME UdpAssumption == MaxPacket \in Nat /\ None \notin Loop

VARIABLES
  pc,       \* where a loop is: in the message callback, in its timer ("timer",
            \* "erase" and "remove"), or "idle"
  conv,     \* the conversation of its packet
  inbox,    \* packets that other loops queued for it
  lock,     \* m_createLock: the loop that holds it
  udpMap,   \* m_udpChannelMap: the loop that owns the channel, or None
  loopMap,  \* m_udpChannelLoopVec
  gone,     \* m_waitRemove of a loop's timer
  packets   \* how many packets have arrived

udpVars == <<pc, conv, inbox, lock, udpMap, loopMap, gone, packets>>

UdpInit ==
  /\ pc = [l \in Loop |-> "idle"]
  /\ conv = [l \in Loop |-> None]
  /\ inbox = [l \in Loop |-> <<>>]
  /\ lock = None
  /\ udpMap = [f \in Fd |-> None]
  /\ loopMap = [l \in Loop |-> {}]
  /\ gone = [l \in Loop |-> {}]
  /\ packets = 0

At(l, from, to) == pc[l] = from /\ pc' = [pc EXCEPT ![l] = to]

\* A packet reaches loop l, and the balancing callback looks for its channel.
Arrive(l, f) ==
  /\ kind[f] = "udp" /\ packets < MaxPacket
  /\ pc[l] = "idle"
  /\ packets' = packets + 1
  /\ IF udpMap[f] \in {None, l}
       THEN /\ At(l, "idle", "lookup")
            /\ conv' = [conv EXCEPT ![l] = f]
            /\ UNCHANGED inbox
       ELSE /\ inbox' = [inbox EXCEPT ![udpMap[f]] = Append(@, f)]
            /\ UNCHANGED <<pc, conv>>
  /\ UNCHANGED <<lock, udpMap, loopMap, gone, mailVars>>

\* The owner comes to a packet that was queued for it.
Dequeue(l) ==
  /\ inbox[l] # <<>>
  /\ At(l, "idle", "lookup")
  /\ conv' = [conv EXCEPT ![l] = Head(inbox[l])]
  /\ inbox' = [inbox EXCEPT ![l] = Tail(@)]
  /\ UNCHANGED <<lock, udpMap, loopMap, gone, packets, mailVars>>

\* getOrCreateChannel, the first find.
Lookup(l) ==
  /\ At(l, "lookup", IF udpMap[conv[l]] # None THEN "receive" ELSE "create")
  /\ UNCHANGED <<conv, inbox, lock, udpMap, loopMap, gone, packets, mailVars>>

\* Mutant: the map is not looked at again.
CreateBlind(l) ==
  /\ At(l, "create", "insert")
  /\ lock = None
  /\ lock' = l
  /\ Tell(conv[l], "open")
  /\ UNCHANGED <<conv, inbox, udpMap, loopMap, gone, packets>>

\* In m_createLock: the second find, or a channel whose init tells the service.
Create(l) ==
  /\ pc[l] = "create" /\ lock = None
  /\ \/ /\ udpMap[conv[l]] # None
        /\ At(l, "create", "receive")
        /\ UNCHANGED <<lock, mailVars>>
     \/ /\ udpMap[conv[l]] = None
        /\ At(l, "create", "insert")
        /\ lock' = l
        /\ Tell(conv[l], "open")
  /\ UNCHANGED <<conv, inbox, udpMap, loopMap, gone, packets>>

\* The channel goes into the map of all channels...
Insert(l) ==
  /\ At(l, "insert", "enroll")
  /\ udpMap' = [udpMap EXCEPT ![conv[l]] = l]
  /\ UNCHANGED <<conv, inbox, lock, loopMap, gone, packets, mailVars>>

\* ... and into that of the loop.
Enroll(l) ==
  /\ At(l, "enroll", "receive")
  /\ loopMap' = [loopMap EXCEPT ![l] = @ \cup {conv[l]}]
  /\ lock' = None
  /\ UNCHANGED <<conv, inbox, udpMap, gone, packets, mailVars>>

\* onReceive, and the receive callback if KCP has a message.
Receive(l) ==
  /\ At(l, "receive", "idle")
  /\ conv' = [conv EXCEPT ![l] = None]
  /\ \/ Len(mail[conv[l]]) < MaxMail /\ Tell(conv[l], "read")
     \/ UNCHANGED mailVars
  /\ UNCHANGED <<inbox, lock, udpMap, loopMap, gone, packets>>

\* MFEventLoopTimer: the channels of the loop that are disconnected are told.
\* That is after 30 quiet seconds, or at once when another loop, which has no
\* lock for it, has set m_lastRecvTs to a time after the timer's now.
Expire(l, f) ==
  /\ pc[l] \in {"idle", "timer"} /\ f \in loopMap[l] \ gone[l]
  /\ pc' = [pc EXCEPT ![l] = "timer"]
  /\ gone' = [gone EXCEPT ![l] = @ \cup {f}]
  /\ Tell(f, "close")
  /\ UNCHANGED <<conv, inbox, lock, udpMap, loopMap, packets>>

\* Then each of them is taken out of the loop's map...
Erase(l, f) ==
  /\ pc[l] \in {"timer", "erase"} /\ f \in gone[l]
  /\ pc' = [pc EXCEPT ![l] = "remove"]
  /\ loopMap' = [loopMap EXCEPT ![l] = @ \ {f}]
  /\ UNCHANGED <<conv, inbox, lock, udpMap, gone, packets, mailVars>>

\* Mutant: the list of channels to remove is not cleared.
RemoveKeepsList(l, f) ==
  /\ pc[l] = "remove" /\ f \in gone[l] \ loopMap[l]
  /\ udpMap' = [udpMap EXCEPT ![f] = None]
  /\ pc' = [pc EXCEPT ![l] = "idle"]
  /\ UNCHANGED <<conv, inbox, lock, loopMap, gone, packets, mailVars>>

\* ... and out of that of all channels.
Remove(l, f) ==
  /\ pc[l] = "remove" /\ f \in gone[l] \ loopMap[l]
  /\ gone' = [gone EXCEPT ![l] = @ \ {f}]
  /\ udpMap' = [udpMap EXCEPT ![f] = None]
  /\ pc' = [pc EXCEPT ![l] = IF gone[l] = {f} THEN "idle" ELSE "erase"]
  /\ UNCHANGED <<conv, inbox, lock, loopMap, packets, mailVars>>

UdpStep(l) ==
  \/ Dequeue(l) \/ Lookup(l) \/ Create(l) \/ Insert(l) \/ Enroll(l) \/ Receive(l)
  \/ \E f \in Fd : Expire(l, f) \/ Erase(l, f) \/ Remove(l, f)

UdpNext == \E l \in Loop : UdpStep(l) \/ \E f \in Fd : Arrive(l, f)
=============================================================================
