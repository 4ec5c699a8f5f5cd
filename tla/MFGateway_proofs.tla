-------------------------- MODULE MFGateway_proofs --------------------------
(***************************************************************************)
(* What the servers tell a service of their peers, and the maps by which   *)
(* it reaches them, for any number of peers, event loops and packets.      *)
(***************************************************************************)
EXTENDS MFGateway, SequenceTheorems, TLAPS

(***************************************************************************)
(* What a peer's callbacks have told and what the service has heard.       *)
(***************************************************************************)
\* The last message told, or the last one heard if all were.
LastTold(f) == IF mail[f] = <<>> THEN stage[f] ELSE mail[f][Len(mail[f])]

\* What may come after what, of a connection.
Follows(a, b) ==
  \/ b = "open" /\ a = "unknown"
  \/ b \in {"read", "close"} /\ a \in {"open", "read"}

\* The messages on their way continue what was heard, one after the other.
InOrder(f) ==
  \A i \in 1..Len(mail[f]) :
    Follows(IF i = 1 THEN stage[f] ELSE mail[f][i - 1], mail[f][i])

-----------------------------------------------------------------------------
(***************************************************************************)
(* Connections: everything follows from how far the callbacks have come.   *)
(***************************************************************************)
ScriptKept(f) ==
  /\ kind[f] = "udp" => at[f] = 0
  /\ at[f] = 0 => link[f] = "none"
  /\ kind[f] = "http" => at[f] <= 3
  /\ f \in connMap => at[f] >= (IF kind[f] = "websocket" THEN 3 ELSE 2)

\* What has been told.
ConnTold(f) ==
  /\ kind[f] = "tcp" =>
       /\ at[f] <= 2 => LastTold(f) = "unknown"
       /\ at[f] \in 3..5 => LastTold(f) \in {"open", "read"}
       /\ at[f] = 6 => LastTold(f) = "close"
  /\ kind[f] = "websocket" =>
       /\ at[f] <= 1 => LastTold(f) = "unknown"
       /\ at[f] = 2 => LastTold(f) = "open"
       /\ at[f] \in 3..4 => LastTold(f) \in {"open", "read"}
       /\ at[f] >= 5 => LastTold(f) = "close"
  /\ kind[f] = "http" =>
       LastTold(f) = IF at[f] <= 2 THEN "unknown" ELSE "open"

\* Where it can be found.
ConnFound(f) ==
  /\ kind[f] \in {"tcp", "websocket"} /\ at[f] >= 4 => link[f] # "up"
  /\ kind[f] = "tcp" /\ link[f] = "up" /\ at[f] \in 2..3 => f \in connMap
  /\ kind[f] = "tcp" /\ at[f] >= 5 => f \notin connMap
  /\ kind[f] = "websocket" /\ link[f] = "up" /\ at[f] = 3 => f \in connMap
  /\ kind[f] = "websocket" /\ at[f] = 6 => f \notin connMap
  /\ kind[f] = "http" => /\ at[f] <= 2 => answers[f] = 0
                         /\ at[f] >= 2 => (f \in connMap <=> answers[f] = 0)

ConnInv(f) ==
  /\ ScriptKept(f) /\ ConnTold(f) /\ ConnFound(f)
  /\ kind[f] # "udp" => InOrder(f)

-----------------------------------------------------------------------------
(***************************************************************************)
(* UDP conversations: everything follows from the maps and from what the   *)
(* loops have in hand.                                                     *)
(***************************************************************************)
Udp == {f \in Fd : kind[f] = "udp"}

\* Packets and channels are those of conversations.  A channel that a loop has
\* made is in no map before the loop inserts it, and in one before it enrolls it;
\* one that its timer is to remove is in both, but for the one in hand.
ChannelInv ==
  \A l \in Loop :
    /\ conv[l] \in Udp \cup {None}
    /\ \A i \in 1..Len(inbox[l]) : inbox[l][i] \in Udp
    /\ loopMap[l] \subseteq Udp /\ gone[l] \subseteq Udp
    /\ pc[l] = "insert" => udpMap[conv[l]] = None
    /\ pc[l] = "enroll" => udpMap[conv[l]] = l
    /\ \A f \in gone[l] : udpMap[f] = l
    /\ pc[l] # "remove" => gone[l] \subseteq loopMap[l]
    /\ \A f, g \in gone[l] \ loopMap[l] : f = g

\* The messages on their way, read one after the other: p[i] is what the service
\* will have heard after i of them.  After the opening a message may be late.
Stage == {"unknown", "open", "read", "close", "late"}

Sensible(s, cmd) ==
  \/ cmd = "open" /\ s \in {"unknown", "close", "late"}
  \/ cmd = "close" /\ s \in {"open", "read"}
  \/ cmd = "read" /\ s # "unknown"

Course(q, s, p) ==
  /\ p[0] = s
  /\ \A i \in 1..Len(q) : Sensible(p[i - 1], q[i]) /\ p[i] = Hearing(p[i - 1], q[i])

\* When the service has handled its messages of f, it has heard one of S.
WillHear(f, S) ==
  \E p \in [0..Len(mail[f]) -> Stage] :
    Course(mail[f], stage[f], p) /\ p[Len(mail[f])] \in S

Known(f) == stage[f] # "unknown" \/ mail[f] # <<>>

\* A loop comes to deliver a message of a conversation that was opened; the
\* channel may have expired meanwhile.
Received == \A l \in Loop : pc[l] = "receive" => Known(conv[l])

Making(f) == \E l \in Loop : pc[l] = "insert" /\ conv[l] = f
Expiring(f) == \E l \in Loop : f \in gone[l]

Outlook(f) ==
  IF Expiring(f) THEN {"close", "late"}
  ELSE IF Making(f) \/ udpMap[f] # None THEN {"open", "read"}
  ELSE {"unknown", "close", "late"}

UdpInv == Received /\ \A f \in Udp : WillHear(f, Outlook(f))

\* What holds of connections and of the maps, and with it what the service hears.
BaseInv == TypeOK /\ OneChannel /\ ChannelInv /\ \A f \in Fd : ConnInv(f)
GateInv == BaseInv /\ UdpInv

-----------------------------------------------------------------------------
(***************************************************************************)
(* The types, by the part of the state they are about.                     *)
(***************************************************************************)
Command == {"open", "read", "close"}
LoopPc ==
  {"idle", "lookup", "create", "insert", "enroll", "receive", "timer", "erase", "remove"}

MailTypes ==
  /\ kind \in [Fd -> {"tcp", "websocket", "http", "udp"}]
  /\ mail \in [Fd -> Seq(Command)]
  /\ stage \in [Fd -> Stage]

ConnTypes ==
  /\ at \in [Fd -> 0..6]
  /\ link \in [Fd -> {"none", "up", "down", "forced"}]
  /\ connMap \subseteq {f \in Fd : kind[f] # "udp"}
  /\ answers \in [Fd -> Nat]

InHand(l) ==
  /\ pc[l] \in {"insert", "enroll"} <=> lock = l
  /\ gone[l] # {} <=> pc[l] \in {"timer", "erase", "remove"}
  /\ conv[l] = None <=> pc[l] \in {"idle", "timer", "erase", "remove"}

UdpTypes ==
  /\ pc \in [Loop -> LoopPc]
  /\ conv \in [Loop -> Fd \cup {None}]
  /\ inbox \in [Loop -> Seq(Fd)]
  /\ udpMap \in [Fd -> Loop \cup {None}]
  /\ lock \in Loop \cup {None}
  /\ loopMap \in [Loop -> SUBSET Fd]
  /\ gone \in [Loop -> SUBSET Fd]
  /\ \A l \in Loop : InHand(l)
  /\ packets \in 0..MaxPacket

LEMMA Types == TypeOK <=> MailTypes /\ ConnTypes /\ UdpTypes
BY DEF TypeOK, MailTypes, ConnTypes, UdpTypes, InHand, InTimer, Command, Stage, LoopPc

-----------------------------------------------------------------------------
(***************************************************************************)
(* What telling and hearing do to the mail of a peer.                      *)
(***************************************************************************)
LEMMA Appended ==
  ASSUME NEW S, NEW q \in Seq(S), NEW e \in S
  PROVE  /\ Append(q, e) \in Seq(S)
         /\ Len(Append(q, e)) = Len(q) + 1
         /\ \A i \in 1..Len(q) : Append(q, e)[i] = q[i]
         /\ Append(q, e)[Len(q) + 1] = e
         /\ Len(q) \in Nat
OBVIOUS

LEMMA Taken ==
  ASSUME NEW S, NEW q \in Seq(S), q # <<>>
  PROVE  /\ Tail(q) \in Seq(S)
         /\ Head(q) = q[1] /\ Head(q) \in S
         /\ Len(q) \in Nat /\ Len(q) >= 1
         /\ Len(Tail(q)) = Len(q) - 1
         /\ \A i \in 1..Len(q) - 1 : Tail(q)[i] = q[i + 1]
         /\ Len(q) = 1 <=> Tail(q) = <<>>
<1> DEFINE n == Len(q)
<1>1. /\ Tail(q) \in Seq(S) /\ Len(q) \in Nat /\ Len(q) >= 1
      /\ Len(Tail(q)) = Len(q) - 1
  OBVIOUS
<1>2. Head(q) = q[1] /\ Head(q) \in S
  OBVIOUS
<1>3. \A i \in 1..Len(q) - 1 : Tail(q)[i] = q[i + 1]
  OBVIOUS
<1>4. \A r \in Seq(S) : r = <<>> <=> Len(r) = 0
  OBVIOUS
<1>5. Len(q) = 1 <=> Tail(q) = <<>>
  <2>1. Len(Tail(q)) = n - 1 /\ n \in Nat
    BY <1>1
  <2> HIDE DEF n
  <2>2. n = 1 <=> Len(Tail(q)) = 0
    BY <2>1
  <2>3. QED
    BY <1>1, <1>4, <2>2 DEF n
<1>6. QED
  BY <1>1, <1>2, <1>3, <1>5

\* A peer that a step tells nothing of.
Untold(f) == mail'[f] = mail[f] /\ stage'[f] = stage[f] /\ kind' = kind

LEMMA UntoldKept ==
  ASSUME NEW f, Untold(f)
  PROVE  /\ LastTold(f)' = LastTold(f) /\ (InOrder(f) => InOrder(f)')
         /\ Known(f) => Known(f)'
         /\ \A S : WillHear(f, S) => WillHear(f, S)'
BY DEF Untold, LastTold, InOrder, Known, WillHear

LEMMA TellEffect ==
  ASSUME MailTypes, NEW f \in Fd, NEW cmd \in Command, Tell(f, cmd)
  PROVE  /\ MailTypes' /\ kind' = kind /\ stage' = stage
         /\ LastTold(f)' = cmd
         /\ \A g \in Fd : g # f => Untold(g)
         /\ InOrder(f) /\ Follows(LastTold(f), cmd) => InOrder(f)'
<1> DEFINE q == mail[f]
           r == Append(q, cmd)
<1>1. q \in Seq(Command)
  BY DEF MailTypes
<1>2. /\ r \in Seq(Command) /\ Len(q) \in Nat /\ Len(r) = Len(q) + 1
      /\ \A i \in 1..Len(q) : r[i] = q[i]
      /\ r[Len(q) + 1] = cmd
  BY <1>1, Appended
<1>3. mail' = [mail EXCEPT ![f] = r] /\ kind' = kind /\ stage' = stage
  BY DEF Tell
<1>4. mail'[f] = r /\ \A g \in Fd : g # f => mail'[g] = mail[g]
  BY <1>3 DEF MailTypes
<1>5. r # <<>> /\ (q = <<>> <=> Len(q) = 0)
  BY <1>1
<1> HIDE DEF q, r
<1>6. MailTypes'
  BY <1>2, <1>3 DEF MailTypes
<1>7. LastTold(f)' = cmd
  BY <1>2, <1>4, <1>5 DEF LastTold
<1>8. ASSUME InOrder(f), Follows(LastTold(f), cmd) PROVE InOrder(f)'
  <2>1. \A i \in 1..Len(q) : Follows(IF i = 1 THEN stage[f] ELSE q[i - 1], q[i])
    BY <1>8 DEF InOrder, q
  <2>2. LastTold(f) = IF Len(q) = 0 THEN stage[f] ELSE q[Len(q)]
    BY <1>5 DEF LastTold, q
  <2> SUFFICES ASSUME NEW i \in 1..Len(r)
               PROVE  Follows(IF i = 1 THEN stage[f] ELSE r[i - 1], r[i])
    BY <1>3, <1>4 DEF InOrder
  <2>3. CASE i \in 1..Len(q)
    <3>1. r[i] = q[i] /\ (i # 1 => r[i - 1] = q[i - 1])
      BY <1>2, <2>3
    <3>2. QED
      BY <2>1, <2>3, <3>1
  <2>4. CASE i = Len(q) + 1
    <3>1. r[i] = cmd
      BY <1>2, <2>4
    <3>2. LastTold(f) = IF i = 1 THEN stage[f] ELSE r[i - 1]
      BY <1>2, <2>2, <2>4
    <3>3. QED
      BY <1>8, <3>1, <3>2
  <2>5. QED
    BY <1>2, <2>3, <2>4
<1>9. \A g \in Fd : g # f => Untold(g)
  BY <1>3, <1>4 DEF Untold
<1>10. QED
  BY <1>3, <1>6, <1>7, <1>8, <1>9

LEMMA HandleEffect ==
  ASSUME MailTypes, NEW f \in Fd, Handle(f)
  PROVE  /\ MailTypes' /\ kind' = kind
         /\ \A g \in Fd : g # f => Untold(g)
         /\ InOrder(f) => /\ LastTold(f)' = LastTold(f) /\ InOrder(f)'
                          /\ Follows(stage[f], stage'[f])
<1> DEFINE q == mail[f]
           r == Tail(q)
<1>1. q \in Seq(Command) /\ q # <<>>
  BY DEF MailTypes, Handle
<1>2. /\ r \in Seq(Command) /\ Head(q) = q[1] /\ Head(q) \in Command
      /\ Len(q) \in Nat /\ Len(q) >= 1 /\ Len(r) = Len(q) - 1
      /\ \A i \in 1..Len(q) - 1 : r[i] = q[i + 1]
      /\ Len(q) = 1 <=> r = <<>>
  BY <1>1, Taken
<1>3. /\ mail' = [mail EXCEPT ![f] = r] /\ kind' = kind
      /\ stage' = [stage EXCEPT ![f] = Hearing(@, Head(q))]
  BY DEF Handle
<1>4. mail'[f] = r /\ \A g \in Fd : g # f => mail'[g] = mail[g]
  BY <1>3 DEF MailTypes
<1>5. stage'[f] = Hearing(stage[f], q[1]) /\ \A g \in Fd : g # f => stage'[g] = stage[g]
  BY <1>2, <1>3 DEF MailTypes
<1>0. Hearing(stage[f], Head(q)) \in Stage
  BY <1>2 DEF Hearing, Command, Stage
<1> HIDE DEF r
<1>6. MailTypes'
  <2>1. mail' \in [Fd -> Seq(Command)]
    BY <1>2, <1>3 DEF MailTypes
  <2>2. stage' \in [Fd -> Stage]
    BY <1>0, <1>3 DEF MailTypes
  <2>3. QED
    BY <1>3, <2>1, <2>2 DEF MailTypes
<1>7. ASSUME InOrder(f)
      PROVE  Follows(stage[f], q[1]) /\ stage'[f] = q[1]
  <2>1. \A i \in 1..Len(q) : Follows(IF i = 1 THEN stage[f] ELSE q[i - 1], q[i])
    BY <1>7 DEF InOrder
  <2>2. Follows(stage[f], q[1])
    BY <1>2, <2>1
  <2>3. QED
    BY <1>5, <2>2 DEF Follows, Hearing
<1>8. ASSUME InOrder(f)
      PROVE  /\ LastTold(f)' = LastTold(f) /\ InOrder(f)'
             /\ Follows(stage[f], stage'[f])
  <2>0. \A i \in 1..Len(q) : Follows(IF i = 1 THEN stage[f] ELSE q[i - 1], q[i])
    BY <1>8 DEF InOrder
  <2>1. Follows(stage[f], q[1]) /\ stage'[f] = q[1]
    BY <1>7, <1>8
  <2>2. LastTold(f)' = LastTold(f)
    <3>1. LastTold(f) = q[Len(q)]
      BY <1>1 DEF LastTold
    <3>2. LastTold(f)' = IF r = <<>> THEN q[1] ELSE r[Len(r)]
      BY <1>4, <2>1 DEF LastTold
    <3>3. Len(q) > 1 => r[Len(q) - 1] = q[Len(q) - 1 + 1] /\ Len(q) - 1 + 1 = Len(q)
      BY <1>2
    <3>4. QED
      BY <1>2, <3>1, <3>2, <3>3
  <2>3. ASSUME NEW i \in 1..Len(r)
        PROVE  Follows(IF i = 1 THEN q[1] ELSE r[i - 1], r[i])
    <3>1. i + 1 \in 1..Len(q) /\ i + 1 # 1 /\ i + 1 - 1 = i
      BY <1>2
    <3>2. r[i] = q[i + 1]
      BY <1>2
    <3>3. q[i] = IF i = 1 THEN q[1] ELSE r[i - 1]
      BY <1>2
    <3>4. Follows(q[i], q[i + 1])
      BY <2>0, <3>1
    <3>5. QED
      BY <3>2, <3>3, <3>4
  <2>4. InOrder(f)'
    BY <1>4, <2>1, <2>3 DEF InOrder
  <2>5. QED
    BY <2>1, <2>2, <2>4
<1>9. \A g \in Fd : g # f => Untold(g)
  BY <1>3, <1>4, <1>5 DEF Untold
<1>10. QED
  BY <1>3, <1>6, <1>8, <1>9

\* A connection of which nothing was told, or the opening alone.
LEMMA EarlyMail ==
  ASSUME MailTypes, NEW f \in Fd, InOrder(f)
  PROVE  /\ LastTold(f) = "unknown" => stage[f] = "unknown" /\ mail[f] = <<>>
         /\ LastTold(f) = "open" => stage[f] \in {"unknown", "open"}
<1> DEFINE q == mail[f]
<1>1. /\ q \in Seq(Command) /\ Len(q) \in Nat /\ (q = <<>> <=> Len(q) = 0)
      /\ \A i \in 1..Len(q) : q[i] \in Command
  BY DEF MailTypes
<1> HIDE DEF q
<1>2. \A i \in 1..Len(q) : q[i] # "unknown"
  BY <1>1 DEF Command
<1>3. LastTold(f) = IF Len(q) = 0 THEN stage[f] ELSE q[Len(q)]
  BY <1>1 DEF LastTold, q
<1>4. ASSUME Len(q) > 0 PROVE Len(q) \in 1..Len(q)
  BY <1>1, <1>4
<1>5. LastTold(f) = "unknown" => Len(q) = 0
  BY <1>1, <1>2, <1>3, <1>4
<1>6. ASSUME LastTold(f) = "open", Len(q) > 0 PROVE stage[f] = "unknown"
  <2>1. Follows(IF Len(q) = 1 THEN stage[f] ELSE q[Len(q) - 1], q[Len(q)])
    BY <1>4, <1>6 DEF InOrder, q
  <2>0. q[Len(q)] = "open"
    BY <1>1, <1>3, <1>6
  <2>2. (IF Len(q) = 1 THEN stage[f] ELSE q[Len(q) - 1]) = "unknown"
    BY <1>6, <2>0, <2>1 DEF Follows
  <2>6. Len(q) \in Nat /\ Len(q) > 0
    BY <1>1, <1>6
  <2>3. Len(q) # 1 => Len(q) - 1 \in 1..Len(q)
    BY <2>6
  <2>4. Len(q) = 1
    BY <1>2, <2>2, <2>3
  <2>5. QED
    BY <2>2, <2>4
<1>7. QED
  BY <1>1, <1>3, <1>5, <1>6 DEF q

-----------------------------------------------------------------------------
(***************************************************************************)
(* Conversations: how the service will read the messages on their way.     *)
(***************************************************************************)
LEMMA HearingStage ==
  ASSUME NEW s, NEW cmd \in Command
  PROVE  Hearing(s, cmd) \in Stage \ {"unknown"}
BY DEF Hearing, Command, Stage

LEMMA CourseAppend ==
  ASSUME NEW q \in Seq(Command), NEW s, NEW p \in [0..Len(q) -> Stage], Course(q, s, p),
         NEW cmd \in Command, Sensible(p[Len(q)], cmd)
  PROVE  \E r \in [0..Len(Append(q, cmd)) -> Stage] :
           /\ Course(Append(q, cmd), s, r)
           /\ r[Len(Append(q, cmd))] = Hearing(p[Len(q)], cmd)
<1> PICK n \in Nat : n = Len(q)
  OBVIOUS
<1> PICK a \in Seq(Command) : a = Append(q, cmd)
  OBVIOUS
<1>1. Len(a) = n + 1 /\ a[n + 1] = cmd /\ \A i \in 1..n : a[i] = q[i]
  BY Appended
<1> DEFINE e == Hearing(p[n], cmd)
           r == [i \in 0..(n + 1) |-> IF i = n + 1 THEN e ELSE p[i]]
<1>2. e \in Stage
  BY HearingStage
<1> HIDE DEF e
<1>3. r \in [0..(n + 1) -> Stage]
  BY <1>2
<1>4. r[n + 1] = e /\ \A i \in 0..n : r[i] = p[i]
  OBVIOUS
<1> HIDE DEF r
<1>5. p[0] = s /\ \A i \in 1..n : Sensible(p[i - 1], q[i]) /\ p[i] = Hearing(p[i - 1], q[i])
  BY DEF Course
<1>6. ASSUME NEW i \in 1..(n + 1)
      PROVE  Sensible(r[i - 1], a[i]) /\ r[i] = Hearing(r[i - 1], a[i])
  <2>1. i - 1 \in 0..n /\ r[i - 1] = p[i - 1]
    BY <1>4
  <2>2. CASE i = n + 1
    BY <1>1, <1>4, <2>1, <2>2 DEF e
  <2>3. CASE i # n + 1
    <3>1. i \in 1..n /\ i \in 0..n
      BY <2>3
    <3>2. r[i] = p[i] /\ a[i] = q[i]
      BY <1>1, <1>4, <3>1
    <3>3. QED
      BY <1>5, <2>1, <3>1, <3>2
  <2>4. QED
    BY <2>2, <2>3
<1>7. r[0] = s
  BY <1>4, <1>5
<1>8. Course(a, s, r)
  BY <1>1, <1>6, <1>7 DEF Course
<1>9. QED
  BY <1>1, <1>3, <1>4, <1>8 DEF e

LEMMA CourseTail ==
  ASSUME NEW q \in Seq(Command), q # <<>>, NEW s, NEW p \in [0..Len(q) -> Stage],
         Course(q, s, p)
  PROVE  /\ Sensible(s, Head(q))
         /\ \E r \in [0..Len(Tail(q)) -> Stage] :
              /\ Course(Tail(q), Hearing(s, Head(q)), r)
              /\ r[Len(Tail(q))] = p[Len(q)]
<1> PICK n \in Nat : n = Len(q)
  OBVIOUS
<1> PICK a \in Seq(Command) : a = Tail(q)
  OBVIOUS
<1>1. n >= 1 /\ Len(a) = n - 1 /\ Head(q) = q[1] /\ \A i \in 1..n - 1 : a[i] = q[i + 1]
  BY Taken
<1>2. p[0] = s /\ \A i \in 1..n : Sensible(p[i - 1], q[i]) /\ p[i] = Hearing(p[i - 1], q[i])
  BY DEF Course
<1> DEFINE r == [i \in 0..(n - 1) |-> p[i + 1]]
<1>3. r \in [0..(n - 1) -> Stage]
  <2>1. \A i \in 0..(n - 1) : i + 1 \in 0..n
    OBVIOUS
  <2>2. QED
    BY <2>1
<1>4. \A i \in 0..(n - 1) : r[i] = p[i + 1]
  OBVIOUS
<1> HIDE DEF r
<1>5. 1 \in 1..n /\ 1 - 1 = 0 /\ 0 \in 0..(n - 1) /\ n - 1 \in 0..(n - 1) /\ 0 + 1 = 1
      /\ n - 1 + 1 = n
  BY <1>1
<1>6. Sensible(s, Head(q)) /\ r[0] = Hearing(s, Head(q))
  BY <1>1, <1>2, <1>4, <1>5
<1>7. ASSUME NEW i \in 1..(n - 1)
      PROVE  Sensible(r[i - 1], a[i]) /\ r[i] = Hearing(r[i - 1], a[i])
  <2>1. /\ i - 1 \in 0..(n - 1) /\ i \in 0..(n - 1) /\ i - 1 + 1 = i
        /\ i + 1 \in 1..n /\ i + 1 - 1 = i
    BY <1>1
  <2>2. r[i - 1] = p[i] /\ r[i] = p[i + 1] /\ a[i] = q[i + 1]
    BY <1>1, <1>4, <2>1
  <2>3. Sensible(p[i], q[i + 1]) /\ p[i + 1] = Hearing(p[i], q[i + 1])
    BY <1>2, <2>1
  <2>4. QED
    BY <2>2, <2>3
<1>8. Course(a, Hearing(s, Head(q)), r)
  BY <1>1, <1>6, <1>7 DEF Course
<1>9. r[n - 1] = p[n]
  BY <1>4, <1>5
<1>10. QED
  BY <1>1, <1>3, <1>6, <1>8, <1>9

LEMMA ToldHears ==
  ASSUME MailTypes, NEW f \in Fd, NEW cmd \in Command, Tell(f, cmd),
         NEW S, NEW T, WillHear(f, S),
         \A s \in S : Sensible(s, cmd) /\ Hearing(s, cmd) \in T
  PROVE  WillHear(f, T)' /\ Known(f)'
<1> PICK q \in Seq(Command) : q = mail[f]
  BY DEF MailTypes
<1>1. mail'[f] = Append(q, cmd) /\ stage' = stage
  BY DEF Tell, MailTypes
<1> PICK p \in [0..Len(q) -> Stage] : Course(q, stage[f], p) /\ p[Len(q)] \in S
  BY DEF WillHear
<1>2. Sensible(p[Len(q)], cmd) /\ Hearing(p[Len(q)], cmd) \in T
  OBVIOUS
<1> PICK r \in [0..Len(Append(q, cmd)) -> Stage] :
           /\ Course(Append(q, cmd), stage[f], r)
           /\ r[Len(Append(q, cmd))] = Hearing(p[Len(q)], cmd)
  BY <1>2, CourseAppend
<1>3. WillHear(f, T)'
  BY <1>1, <1>2 DEF WillHear
<1>4. Append(q, cmd) # <<>>
  OBVIOUS
<1>5. QED
  BY <1>1, <1>3, <1>4 DEF Known

LEMMA HandledHears ==
  ASSUME MailTypes, NEW f \in Fd, Handle(f), NEW S, WillHear(f, S)
  PROVE  WillHear(f, S)' /\ Sensible(stage[f], Head(mail[f]))
<1> PICK q \in Seq(Command) : q = mail[f]
  BY DEF MailTypes
<1>1. q # <<>> /\ mail'[f] = Tail(q) /\ stage'[f] = Hearing(stage[f], Head(q))
  BY DEF Handle, MailTypes
<1> PICK p \in [0..Len(q) -> Stage] : Course(q, stage[f], p) /\ p[Len(q)] \in S
  BY DEF WillHear
<1>2. /\ Sensible(stage[f], Head(q))
      /\ \E r \in [0..Len(Tail(q)) -> Stage] :
           /\ Course(Tail(q), Hearing(stage[f], Head(q)), r)
           /\ r[Len(Tail(q))] = p[Len(q)]
  BY <1>1, CourseTail
<1>3. WillHear(f, S)'
  BY <1>1, <1>2 DEF WillHear
<1>4. QED
  BY <1>2, <1>3

\* A conversation stays known, and one that will be heard of is known.
LEMMA HandledKnown ==
  ASSUME MailTypes, NEW f \in Fd, Handle(f)
  PROVE  Known(f)'
<1>1. mail[f] \in Seq(Command) /\ mail[f] # <<>>
  BY DEF Handle, MailTypes
<1>2. Head(mail[f]) \in Command
  BY <1>1
<1>3. stage'[f] = Hearing(stage[f], Head(mail[f]))
  BY DEF Handle, MailTypes
<1>4. QED
  BY <1>2, <1>3, HearingStage DEF Known

LEMMA HeardKnown ==
  ASSUME MailTypes, NEW f \in Fd, NEW S, WillHear(f, S)
  PROVE  /\ "unknown" \notin S => Known(f)
         /\ Known(f) => WillHear(f, S \ {"unknown"})
         /\ mail[f] = <<>> => stage[f] \in S
<1> PICK q \in Seq(Command) : q = mail[f]
  BY DEF MailTypes
<1> PICK p \in [0..Len(q) -> Stage] : Course(q, stage[f], p) /\ p[Len(q)] \in S
  BY DEF WillHear
<1> PICK n \in Nat : n = Len(q)
  OBVIOUS
<1>1. q = <<>> <=> n = 0
  OBVIOUS
<1>2. p[0] = stage[f]
  BY DEF Course
<1>3. ASSUME n # 0 PROVE p[n] # "unknown"
  <2>1. n \in 1..n
    BY <1>3
  <2>2. p[n] = Hearing(p[n - 1], q[n]) /\ q[n] \in Command
    BY <2>1 DEF Course
  <2>3. QED
    BY <2>2, HearingStage
<1>4. Known(f) => p[n] # "unknown"
  BY <1>1, <1>2, <1>3 DEF Known
<1>5. Known(f) => WillHear(f, S \ {"unknown"})
  BY <1>4 DEF WillHear
<1>6. QED
  BY <1>1, <1>2, <1>5 DEF Known

-----------------------------------------------------------------------------
(***************************************************************************)
(* Connections.                                                            *)
(***************************************************************************)
Connection == {"tcp", "websocket", "http"}

\* Which step is which callback's.
LEMMA Scripts ==
  ASSUME MailTypes, ConnTypes, NEW f \in Fd, ScriptKept(f)
  PROVE  /\ Doing(f) = "add" =>
              \/ kind[f] \in {"tcp", "http"} /\ at[f] = 1
              \/ kind[f] = "websocket" /\ at[f] = 2
         /\ Doing(f) = "open" =>
              \/ kind[f] \in {"tcp", "http"} /\ at[f] = 2
              \/ kind[f] = "websocket" /\ at[f] = 1
         /\ Doing(f) = "up" => kind[f] \in {"tcp", "websocket"} /\ at[f] = 3
         /\ Doing(f) = "remove" =>
              \/ kind[f] = "tcp" /\ at[f] = 4
              \/ kind[f] = "websocket" /\ at[f] = 5
         /\ Doing(f) = "close" =>
              \/ kind[f] = "tcp" /\ at[f] = 5
              \/ kind[f] = "websocket" /\ at[f] = 4
         /\ Doing(f) = "done" => at[f] = IF kind[f] = "http" THEN 3 ELSE 6
<1>1. at[f] \in 0..6 /\ kind[f] \in Connection \cup {"udp"}
  BY DEF MailTypes, ConnTypes, Connection
<1>2. /\ kind[f] = "udp" => at[f] = 0
      /\ kind[f] = "http" => at[f] <= 3
  BY DEF ScriptKept
<1>3. CASE at[f] = 0
  BY <1>3 DEF Doing
<1>4. CASE at[f] # 0 /\ kind[f] = "tcp"
  <2>1. Doing(f) = TcpScript[at[f]]
    BY <1>4 DEF Doing, Script
  <2>2. at[f] \in {1, 2, 3, 4, 5, 6}
    BY <1>1, <1>4
  <2>3. QED
    BY <1>4, <2>1, <2>2 DEF TcpScript
<1>5. CASE at[f] # 0 /\ kind[f] = "websocket"
  <2>1. Doing(f) = WebSocketScript[at[f]]
    BY <1>5 DEF Doing, Script
  <2>2. at[f] \in {1, 2, 3, 4, 5, 6}
    BY <1>1, <1>5
  <2>3. QED
    BY <1>5, <2>1, <2>2 DEF WebSocketScript
<1>6. CASE at[f] # 0 /\ kind[f] = "http"
  <2>1. Doing(f) = HttpScript[at[f]]
    BY <1>6 DEF Doing, Script
  <2>2. at[f] \in {1, 2, 3}
    BY <1>1, <1>2, <1>6
  <2>3. QED
    BY <1>6, <2>1, <2>2 DEF HttpScript
<1>7. QED
  BY <1>1, <1>2, <1>3, <1>4, <1>5, <1>6 DEF Connection

\* A step that does not touch a connection.
Unmoved(f) ==
  /\ at'[f] = at[f] /\ link'[f] = link[f] /\ answers'[f] = answers[f]
  /\ f \in connMap' <=> f \in connMap

LEMMA UnmovedKept ==
  ASSUME NEW f, Untold(f), Unmoved(f), ConnInv(f)
  PROVE  ConnInv(f)'
<1>1. LastTold(f)' = LastTold(f) /\ (InOrder(f) => InOrder(f)') /\ kind' = kind
  BY UntoldKept DEF Untold
<1>2. ScriptKept(f)' /\ ConnTold(f)' /\ ConnFound(f)'
  BY <1>1 DEF Unmoved, ConnInv, ScriptKept, ConnTold, ConnFound
<1>3. QED
  BY <1>1, <1>2 DEF ConnInv

\* What a step of a connection leaves to prove.
Moves(f) ==
  /\ MailTypes' /\ ConnTypes' /\ kind' = kind /\ kind[f] # "udp"
  /\ ConnInv(f)'
  /\ \A g \in Fd : g # f => Untold(g) /\ Unmoved(g)

LEMMA AcceptMoves ==
  ASSUME MailTypes, ConnTypes, NEW f \in Fd, ConnInv(f), Accept(f)
  PROVE  Moves(f)
<1>1. at[f] = 0 /\ kind[f] # "udp" /\ f \notin connMap
  BY DEF Accept, Script, ConnInv, ScriptKept, MailTypes
<1>2. /\ at' = [at EXCEPT ![f] = 1] /\ link' = [link EXCEPT ![f] = "up"]
      /\ UNCHANGED <<connMap, answers, mailVars>>
  BY <1>1 DEF Accept, Continue
<1>3. \A g \in Fd : Untold(g)
  BY <1>2 DEF Untold, mailVars
<1>4. MailTypes' /\ ConnTypes' /\ kind' = kind
  BY <1>2 DEF MailTypes, ConnTypes, mailVars
<1>5. at'[f] = 1 /\ link'[f] = "up" /\ \A g \in Fd : g # f => Unmoved(g)
  BY <1>2 DEF ConnTypes, Unmoved
<1>6. LastTold(f)' = LastTold(f) /\ (InOrder(f) => InOrder(f)')
  BY <1>3, UntoldKept
<1>7. ConnInv(f)'
  BY <1>1, <1>2, <1>4, <1>5, <1>6 DEF ConnInv, ScriptKept, ConnTold, ConnFound, MailTypes
<1>8. QED
  BY <1>1, <1>3, <1>4, <1>5, <1>7 DEF Moves

LEMMA StepMoves ==
  ASSUME MailTypes, ConnTypes, NEW f \in Fd, ConnInv(f), Step(f)
  PROVE  Moves(f)
<1>1. ScriptKept(f) /\ ConnTold(f) /\ ConnFound(f) /\ InOrder(f) /\ kind[f] \in Connection
  <2>1. kind[f] # "udp"
    BY DEF Step, Doing, ConnInv, ScriptKept
  <2>2. QED
    BY <2>1 DEF ConnInv, MailTypes, Connection
<1>2. /\ Doing(f) \in {"add", "remove", "open", "close"}
      /\ at' = [at EXCEPT ![f] = @ + 1] /\ UNCHANGED <<link, answers>>
  BY DEF Step, Continue
<1>3. at[f] \in 0..5
  BY <1>1, <1>2, Scripts
<1>4. at'[f] = at[f] + 1 /\ \A g \in Fd : g # f => at'[g] = at[g]
  BY <1>2 DEF ConnTypes
<1>5. at' \in [Fd -> 0..6]
  BY <1>2, <1>3 DEF ConnTypes
<1>6. connMap' \subseteq {g \in Fd : kind[g] # "udp"}
      /\ \A g \in Fd : g # f => (g \in connMap' <=> g \in connMap)
  BY <1>1 DEF Step, ConnTypes, Connection
<1>7. CASE Doing(f) \in {"add", "remove"}
  <2>1. UNCHANGED mailVars
    BY <1>7 DEF Step
  <2>2. \A g \in Fd : Untold(g)
    BY <2>1 DEF Untold, mailVars
  <2>3. LastTold(f)' = LastTold(f) /\ (InOrder(f) => InOrder(f)')
    BY <2>2, UntoldKept
  <2>4. MailTypes' /\ ConnTypes' /\ kind' = kind
    BY <1>2, <1>5, <1>6, <2>1 DEF MailTypes, ConnTypes, mailVars
  <2>5. \A g \in Fd : g # f => Unmoved(g)
    BY <1>2, <1>4, <1>6 DEF Unmoved
  <2>6. connMap' = IF Doing(f) = "add" THEN connMap \cup {f} ELSE connMap \ {f}
    BY <1>7 DEF Step
  <2>7. link'[f] = link[f] /\ answers'[f] = answers[f]
    BY <1>2
  <2>8. CASE Doing(f) = "add"
    <3>1. \/ kind[f] \in {"tcp", "http"} /\ at[f] = 1
          \/ kind[f] = "websocket" /\ at[f] = 2
      BY <1>1, <2>8, Scripts
    <3>2. f \in connMap'
      BY <2>6, <2>8
    <3>3. ScriptKept(f)' /\ ConnTold(f)' /\ ConnFound(f)'
      BY <1>1, <1>4, <2>3, <2>4, <2>7, <3>1, <3>2 DEF ScriptKept, ConnTold, ConnFound
    <3>4. QED
      BY <1>1, <2>2, <2>3, <2>4, <2>5, <3>3 DEF Moves, ConnInv, Connection
  <2>9. CASE Doing(f) = "remove"
    <3>1. \/ kind[f] = "tcp" /\ at[f] = 4
          \/ kind[f] = "websocket" /\ at[f] = 5
      BY <1>1, <2>9, Scripts
    <3>2. f \notin connMap'
      BY <2>6, <2>9
    <3>3. ScriptKept(f)' /\ ConnTold(f)' /\ ConnFound(f)'
      BY <1>1, <1>4, <2>3, <2>4, <2>7, <3>1, <3>2 DEF ScriptKept, ConnTold, ConnFound
    <3>4. QED
      BY <1>1, <2>2, <2>3, <2>4, <2>5, <3>3 DEF Moves, ConnInv, Connection
  <2>10. QED
    BY <1>7, <2>8, <2>9
<1>8. CASE Doing(f) \in {"open", "close"}
  <2>1. Tell(f, Doing(f)) /\ Doing(f) \in Command
    BY <1>8 DEF Step, Command
  <2>2. /\ MailTypes' /\ kind' = kind /\ stage' = stage
        /\ LastTold(f)' = Doing(f)
        /\ \A g \in Fd : g # f => Untold(g)
        /\ Follows(LastTold(f), Doing(f)) => InOrder(f)'
    BY <1>1, <2>1, TellEffect
  <2>3. connMap' = connMap
    BY <1>8 DEF Step
  <2>4. ConnTypes'
    BY <1>2, <1>5, <1>6, <2>2 DEF ConnTypes
  <2>5. \A g \in Fd : g # f => Unmoved(g)
    BY <1>2, <1>4, <2>3 DEF Unmoved
  <2>7. link'[f] = link[f] /\ answers'[f] = answers[f] /\ (f \in connMap' <=> f \in connMap)
    BY <1>2, <2>3
  <2>8. CASE Doing(f) = "open"
    <3>1. \/ kind[f] \in {"tcp", "http"} /\ at[f] = 2
          \/ kind[f] = "websocket" /\ at[f] = 1
      BY <1>1, <2>8, Scripts
    <3>2. LastTold(f) = "unknown"
      BY <1>1, <3>1 DEF ConnTold
    <3>3. InOrder(f)'
      BY <2>2, <2>8, <3>2 DEF Follows
    <3>4. ScriptKept(f)' /\ ConnTold(f)' /\ ConnFound(f)'
      BY <1>1, <1>4, <2>2, <2>7, <2>8, <3>1 DEF ScriptKept, ConnTold, ConnFound
    <3>5. QED
      BY <1>1, <2>2, <2>4, <2>5, <3>3, <3>4 DEF Moves, ConnInv, Connection
  <2>9. CASE Doing(f) = "close"
    <3>1. \/ kind[f] = "tcp" /\ at[f] = 5
          \/ kind[f] = "websocket" /\ at[f] = 4
      BY <1>1, <2>9, Scripts
    <3>2. LastTold(f) \in {"open", "read"}
      BY <1>1, <3>1 DEF ConnTold
    <3>3. InOrder(f)'
      BY <2>2, <2>9, <3>2 DEF Follows
    <3>4. ScriptKept(f)' /\ ConnTold(f)' /\ ConnFound(f)'
      BY <1>1, <1>4, <2>2, <2>7, <2>9, <3>1 DEF ScriptKept, ConnTold, ConnFound
    <3>5. QED
      BY <1>1, <2>2, <2>4, <2>5, <3>3, <3>4 DEF Moves, ConnInv, Connection
  <2>10. QED
    BY <1>8, <2>8, <2>9
<1>9. QED
  BY <1>2, <1>7, <1>8

LEMMA DisconnectedMoves ==
  ASSUME MailTypes, ConnTypes, NEW f \in Fd, ConnInv(f), Disconnected(f)
  PROVE  Moves(f)
<1>1. kind[f] \in {"tcp", "websocket"} /\ at[f] = 3 /\ link[f] # "up"
  BY Scripts DEF Disconnected, ConnInv
<1>2. at' = [at EXCEPT ![f] = 4] /\ UNCHANGED <<link, connMap, answers, mailVars>>
  BY <1>1 DEF Disconnected, Continue
<1>3. \A g \in Fd : Untold(g)
  BY <1>2 DEF Untold, mailVars
<1>4. MailTypes' /\ ConnTypes' /\ kind' = kind
  BY <1>2 DEF MailTypes, ConnTypes, mailVars
<1>5. at'[f] = 4 /\ \A g \in Fd : g # f => Unmoved(g)
  BY <1>2 DEF ConnTypes, Unmoved
<1>6. LastTold(f)' = LastTold(f) /\ (InOrder(f) => InOrder(f)')
  BY <1>3, UntoldKept
<1>7. ConnInv(f)'
  BY <1>1, <1>2, <1>4, <1>5, <1>6 DEF ConnInv, ScriptKept, ConnTold, ConnFound
<1>8. QED
  BY <1>1, <1>3, <1>4, <1>5, <1>7 DEF Moves

LEMMA ReadMoves ==
  ASSUME MailTypes, ConnTypes, NEW f \in Fd, ConnInv(f), Read(f)
  PROVE  Moves(f)
<1>1. kind[f] \in {"tcp", "websocket"} /\ at[f] = 3
  BY Scripts DEF Read, ConnInv
<1>2. UNCHANGED <<at, link, connMap, answers>> /\ Tell(f, "read")
  BY DEF Read, connVars
<1>3. LastTold(f) \in {"open", "read"} /\ InOrder(f)
  BY <1>1 DEF ConnInv, ConnTold
<1>4. /\ MailTypes' /\ kind' = kind
      /\ LastTold(f)' = "read" /\ InOrder(f)'
      /\ \A g \in Fd : g # f => Untold(g)
  BY <1>2, <1>3, TellEffect DEF Command, Follows
<1>5. ConnTypes' /\ \A g \in Fd : Unmoved(g)
  BY <1>2, <1>4 DEF ConnTypes, Unmoved
<1>6. ConnInv(f)'
  BY <1>1, <1>2, <1>4 DEF ConnInv, ScriptKept, ConnTold, ConnFound
<1>7. QED
  BY <1>1, <1>4, <1>5, <1>6 DEF Moves

LEMMA BreakMoves ==
  ASSUME MailTypes, ConnTypes, NEW f \in Fd, ConnInv(f),
         Break(f) \/ ForceClose(f), kind[f] # "udp"
  PROVE  Moves(f)
<1>1. \E k \in {"down", "forced"} : link' = [link EXCEPT ![f] = k]
  BY DEF Break, ForceClose
<1>2. UNCHANGED <<at, answers, mailVars>> /\ connMap' \in {connMap, connMap \ {f}}
  BY DEF Break, ForceClose
<1>3. connMap' # connMap => kind[f] # "http"
  BY DEF Break, ForceClose
<1>4. \A g \in Fd : Untold(g)
  BY <1>2 DEF Untold, mailVars
<1>5. MailTypes' /\ ConnTypes' /\ kind' = kind
  <2>1. link' \in [Fd -> {"none", "up", "down", "forced"}]
    BY <1>1 DEF ConnTypes
  <2>2. QED
    BY <1>2, <2>1 DEF MailTypes, ConnTypes, mailVars
<1>6. link'[f] # "up" /\ \A g \in Fd : g # f => Unmoved(g)
  BY <1>1, <1>2 DEF ConnTypes, Unmoved
<1>7. LastTold(f)' = LastTold(f) /\ (InOrder(f) => InOrder(f)')
  BY <1>4, UntoldKept
<1>8. f \in connMap' => f \in connMap
  BY <1>2
<1>9. kind[f] = "http" => (f \in connMap' <=> f \in connMap)
  BY <1>3
<1>0. at[f] # 0 /\ at'[f] = at[f] /\ answers'[f] = answers[f]
  BY <1>2 DEF Break, ForceClose, ConnInv, ScriptKept, ConnTypes
<1>10. ConnInv(f)'
  <2>1. ScriptKept(f)'
    BY <1>0, <1>5, <1>8 DEF ConnInv, ScriptKept
  <2>2. ConnTold(f)'
    BY <1>0, <1>5, <1>7 DEF ConnInv, ConnTold
  <2>3. ConnFound(f)'
    BY <1>0, <1>5, <1>6, <1>8, <1>9 DEF ConnInv, ConnFound
  <2>4. QED
    BY <1>5, <1>7, <2>1, <2>2, <2>3 DEF ConnInv
<1>11. QED
  BY <1>4, <1>5, <1>6, <1>10 DEF Moves

LEMMA RespondMoves ==
  ASSUME MailTypes, ConnTypes, NEW f \in Fd, ConnInv(f), Respond(f)
  PROVE  /\ Moves(f)
         /\ answers[f] = 0 /\ answers' = [answers EXCEPT ![f] = 1]
         /\ stage[f] = "open"
<1>1. /\ stage[f] # "unknown" /\ kind[f] = "http" /\ f \in connMap
      /\ connMap' = connMap \ {f} /\ answers' = [answers EXCEPT ![f] = @ + 1]
      /\ UNCHANGED <<at, link, mailVars>>
  BY DEF Respond
<1>2. at[f] \in 2..3 /\ answers[f] = 0 /\ InOrder(f)
  BY <1>1 DEF ConnInv, ScriptKept, ConnFound, ConnTypes
<1>3. LastTold(f) = (IF at[f] <= 2 THEN "unknown" ELSE "open")
  BY <1>1 DEF ConnInv, ConnTold
<1>4. at[f] = 3 /\ stage[f] = "open"
  BY <1>1, <1>2, <1>3, EarlyMail
<1>5. answers' = [answers EXCEPT ![f] = 1]
  BY <1>1, <1>2
<1>6. \A g \in Fd : Untold(g)
  BY <1>1 DEF Untold, mailVars
<1>7. MailTypes' /\ ConnTypes' /\ kind' = kind
  <2>1. answers' \in [Fd -> Nat]
    BY <1>5 DEF ConnTypes
  <2>2. QED
    BY <1>1, <2>1 DEF MailTypes, ConnTypes, mailVars
<1>8. answers'[f] = 1 /\ f \notin connMap' /\ \A g \in Fd : g # f => Unmoved(g)
  BY <1>1, <1>5 DEF ConnTypes, Unmoved
<1>9. LastTold(f)' = LastTold(f) /\ (InOrder(f) => InOrder(f)')
  BY <1>6, UntoldKept
<1>10. ConnInv(f)'
  BY <1>1, <1>2, <1>3, <1>4, <1>7, <1>8, <1>9
     DEF ConnInv, ScriptKept, ConnTold, ConnFound
<1>11. QED
  BY <1>1, <1>2, <1>4, <1>5, <1>6, <1>7, <1>8, <1>10 DEF Moves

LEMMA ConnMoves ==
  ASSUME MailTypes, ConnTypes, \A f \in Fd : ConnInv(f), ConnNext
  PROVE  \E f \in Fd : Moves(f)
<1> PICK f \in Fd : LoopStep(f) \/ Read(f) \/ Break(f) \/ ForceClose(f) \/ Respond(f)
  BY DEF ConnNext
<1>1. CASE Accept(f)
  BY <1>1, AcceptMoves
<1>2. CASE Step(f)
  BY <1>2, StepMoves
<1>3. CASE Disconnected(f)
  BY <1>3, DisconnectedMoves
<1>4. CASE Read(f)
  BY <1>4, ReadMoves
<1>5. CASE Break(f) \/ ForceClose(f)
  <2>1. kind[f] # "udp"
    BY <1>5 DEF Break, ForceClose, ConnInv, ScriptKept, ConnTypes
  <2>2. QED
    BY <1>5, <2>1, BreakMoves
<1>6. CASE Respond(f)
  BY <1>6, RespondMoves
<1>7. QED
  BY <1>1, <1>2, <1>3, <1>4, <1>5, <1>6 DEF LoopStep

-----------------------------------------------------------------------------
(***************************************************************************)
(* UDP: the maps.                                                          *)
(***************************************************************************)
\* A step of loop l leaves the other loops' hands alone.
Elsewhere(l) ==
  \A m \in Loop \ {l} :
    /\ pc'[m] = pc[m] /\ conv'[m] = conv[m] /\ gone'[m] = gone[m]
    /\ loopMap'[m] = loopMap[m]
    /\ lock' = m <=> lock = m

LEMMA OwnHand ==
  ASSUME NEW l \in Loop, Elsewhere(l), \A m \in Loop : InHand(m), InHand(l)'
  PROVE  \A m \in Loop : InHand(m)'
BY DEF Elsewhere, InHand

MapsInv == UdpTypes /\ OneChannel /\ ChannelInv

\* Whatever expires is owned by the loop whose timer removes it.
LEMMA Expirings ==
  ASSUME MapsInv, NEW k \in Loop, NEW f \in gone[k]
  PROVE  f \in Fd /\ f \in Udp /\ udpMap[f] = k /\ k # None
BY UdpAssumption DEF MapsInv, UdpTypes, ChannelInv

\* The part of ChannelInv about one loop.
LoopInv(l) ==
  /\ conv[l] \in Udp \cup {None}
  /\ \A i \in 1..Len(inbox[l]) : inbox[l][i] \in Udp
  /\ loopMap[l] \subseteq Udp /\ gone[l] \subseteq Udp
  /\ pc[l] = "insert" => udpMap[conv[l]] = None
  /\ pc[l] = "enroll" => udpMap[conv[l]] = l
  /\ \A f \in gone[l] : udpMap[f] = l
  /\ pc[l] # "remove" => gone[l] \subseteq loopMap[l]
  /\ \A f, g \in gone[l] \ loopMap[l] : f = g

LEMMA LoopInvs == ChannelInv <=> \A l \in Loop : LoopInv(l)
BY DEF ChannelInv, LoopInv

LEMMA LoopInvsNext == ChannelInv' <=> \A l \in Loop : LoopInv(l)'
BY DEF ChannelInv, LoopInv

\* A loop that a step leaves alone, and the same for its part of OneChannel.
LEMMA LoopKept ==
  ASSUME NEW m, LoopInv(m), kind' = kind,
         pc'[m] = pc[m], conv'[m] = conv[m], gone'[m] = gone[m],
         loopMap'[m] = loopMap[m], inbox'[m] = inbox[m], udpMap' = udpMap
  PROVE  LoopInv(m)'
BY DEF LoopInv, Udp

LEMMA OneChannelKept ==
  ASSUME OneChannel, UNCHANGED <<udpMap, loopMap>>,
         \A m \in Loop : /\ pc[m] = "enroll" => pc'[m] = "enroll" /\ conv'[m] = conv[m]
                         /\ pc[m] = "remove" => pc'[m] = "remove" /\ gone'[m] = gone[m]
  PROVE  OneChannel'
BY DEF OneChannel

\* What each step of the UDP server does to the maps and to the mail.
LEMMA ArriveKeepsMaps ==
  ASSUME MailTypes, MapsInv, NEW l \in Loop, NEW f \in Fd, Arrive(l, f)
  PROVE  /\ MapsInv' /\ UNCHANGED <<mailVars, udpMap, gone>>
         /\ \A m \in Loop : pc'[m] \in {"insert", "receive"} \/ pc[m] \in {"insert", "receive"}
                              => pc'[m] = pc[m] /\ conv'[m] = conv[m]
<1>1. /\ kind[f] = "udp" /\ pc[l] = "idle" /\ packets' = packets + 1
      /\ packets < MaxPacket
      /\ UNCHANGED <<lock, udpMap, loopMap, gone, kind, mail, stage>>
  BY DEF Arrive, mailVars
<1>2. f \in Udp /\ f # None
  BY <1>1, MailAssumption DEF Udp
<1>3. packets' \in 0..MaxPacket
  BY <1>1, UdpAssumption DEF MapsInv, UdpTypes
<1>4. OneChannel /\ \A m \in Loop : LoopInv(m)
  BY LoopInvs DEF MapsInv
<1>5. CASE udpMap[f] \in {None, l}
  <2>1. /\ pc' = [pc EXCEPT ![l] = "lookup"] /\ conv' = [conv EXCEPT ![l] = f]
        /\ inbox' = inbox
    BY <1>5 DEF Arrive, At
  <2>2. /\ pc'[l] = "lookup" /\ conv'[l] = f
        /\ \A m \in Loop \ {l} : pc'[m] = pc[m] /\ conv'[m] = conv[m]
    BY <2>1 DEF MapsInv, UdpTypes
  <2>3. Elsewhere(l)
    BY <1>1, <2>2 DEF Elsewhere
  <2>4. InHand(l)'
    BY <1>1, <1>2, <2>2 DEF MapsInv, UdpTypes, InHand
  <2>5. \A m \in Loop : InHand(m)'
    BY <2>3, <2>4, OwnHand DEF MapsInv, UdpTypes
  <2>6. pc' \in [Loop -> LoopPc] /\ conv' \in [Loop -> Fd \cup {None}]
    BY <2>1 DEF MapsInv, UdpTypes, LoopPc
  <2>7. UdpTypes'
    BY <1>1, <1>3, <2>1, <2>5, <2>6 DEF MapsInv, UdpTypes
  <2>8. ASSUME NEW m \in Loop PROVE LoopInv(m)'
    BY <1>1, <1>2, <1>4, <2>1, <2>2 DEF LoopInv, Udp
  <2>9. OneChannel'
    BY <1>1, <1>4, <2>2, OneChannelKept
  <2>10. QED
    BY <1>1, <2>2, <2>7, <2>8, <2>9, LoopInvsNext DEF MapsInv, mailVars
<1>6. CASE udpMap[f] \notin {None, l}
  <2> PICK o : o = udpMap[f]
    OBVIOUS
  <2>1. o \in Loop
    BY <1>6 DEF MapsInv, UdpTypes
  <2>2. inbox' = [inbox EXCEPT ![o] = Append(@, f)] /\ UNCHANGED <<pc, conv>>
    BY <1>6 DEF Arrive
  <2>3. inbox[o] \in Seq(Fd)
    BY <2>1 DEF MapsInv, UdpTypes
  <2>4. /\ Append(inbox[o], f) \in Seq(Fd)
        /\ Len(Append(inbox[o], f)) = Len(inbox[o]) + 1
        /\ \A i \in 1..Len(inbox[o]) : Append(inbox[o], f)[i] = inbox[o][i]
        /\ Append(inbox[o], f)[Len(inbox[o]) + 1] = f
        /\ Len(inbox[o]) \in Nat
    BY <2>3, Appended
  <2>5. UdpTypes'
    BY <1>1, <1>3, <2>1, <2>2, <2>4 DEF MapsInv, UdpTypes, InHand
  <2>6. inbox'[o] = Append(inbox[o], f) /\ \A m \in Loop \ {o} : inbox'[m] = inbox[m]
    BY <2>1, <2>2 DEF MapsInv, UdpTypes
  <2>7. ASSUME NEW i \in 1..Len(inbox'[o]) PROVE inbox'[o][i] \in Udp
    <3>1. i \in 1..(Len(inbox[o]) + 1) /\ inbox'[o][i] = Append(inbox[o], f)[i]
      BY <2>4, <2>6
    <3>2. i \in 1..Len(inbox[o]) \/ i = Len(inbox[o]) + 1
      BY <2>4, <3>1
    <3>3. i \in 1..Len(inbox[o]) => inbox[o][i] \in Udp
      BY <1>4, <2>1 DEF LoopInv
    <3>4. QED
      BY <1>2, <2>4, <3>1, <3>2, <3>3
  <2>8. Udp' = Udp
    BY <1>1 DEF Udp
  <2>9. ASSUME NEW m \in Loop PROVE LoopInv(m)'
    <3>1. CASE m = o
      BY <1>1, <1>4, <2>1, <2>2, <2>7, <2>8, <3>1 DEF LoopInv
    <3>2. CASE m # o
      BY <1>1, <1>4, <2>2, <2>6, <3>2, LoopKept
    <3>3. QED
      BY <3>1, <3>2
  <2>10. OneChannel'
    BY <1>1, <1>4, <2>2, OneChannelKept
  <2>11. QED
    BY <1>1, <2>2, <2>5, <2>9, <2>10, LoopInvsNext DEF MapsInv, mailVars
<1>7. QED
  BY <1>5, <1>6

LEMMA DequeueKeepsMaps ==
  ASSUME MailTypes, MapsInv, NEW l \in Loop, Dequeue(l)
  PROVE  /\ MapsInv' /\ UNCHANGED <<mailVars, udpMap, gone>>
         /\ \A m \in Loop : pc'[m] \in {"insert", "receive"} \/ pc[m] \in {"insert", "receive"}
                              => pc'[m] = pc[m] /\ conv'[m] = conv[m]
<1> PICK q \in Seq(Fd) : q = inbox[l]
  BY DEF MapsInv, UdpTypes
<1>1. /\ q # <<>> /\ pc[l] = "idle"
      /\ pc' = [pc EXCEPT ![l] = "lookup"] /\ conv' = [conv EXCEPT ![l] = Head(q)]
      /\ inbox' = [inbox EXCEPT ![l] = Tail(q)]
      /\ UNCHANGED <<lock, udpMap, loopMap, gone, packets, kind, mail, stage>>
  BY DEF Dequeue, At, mailVars
<1>2. /\ Tail(q) \in Seq(Fd) /\ Head(q) = q[1] /\ Head(q) \in Fd
      /\ Len(q) \in Nat /\ Len(q) >= 1 /\ Len(Tail(q)) = Len(q) - 1
      /\ \A i \in 1..Len(q) - 1 : Tail(q)[i] = q[i + 1]
  BY <1>1, Taken
<1>3. OneChannel /\ \A m \in Loop : LoopInv(m)
  BY LoopInvs DEF MapsInv
<1>4. \A i \in 1..Len(q) : q[i] \in Udp
  BY <1>3 DEF LoopInv
<1>5. 1 \in 1..Len(q) /\ \A i \in 1..Len(Tail(q)) :
        i + 1 \in 1..Len(q) /\ Tail(q)[i] = q[i + 1]
  BY <1>2
<1>6. Head(q) \in Udp /\ Head(q) # None /\ \A i \in 1..Len(Tail(q)) : Tail(q)[i] \in Udp
  BY <1>2, <1>4, <1>5, MailAssumption
<1> PICK h \in Fd : h = Head(q)
  BY <1>2
<1> PICK r \in Seq(Fd) : r = Tail(q)
  BY <1>2
<1>7. /\ pc'[l] = "lookup" /\ conv'[l] = h /\ inbox'[l] = r
      /\ \A m \in Loop \ {l} : pc'[m] = pc[m] /\ conv'[m] = conv[m] /\ inbox'[m] = inbox[m]
  BY <1>1 DEF MapsInv, UdpTypes
<1>8. Elsewhere(l)
  BY <1>1, <1>7 DEF Elsewhere
<1>9. InHand(l)'
  BY <1>1, <1>6, <1>7 DEF MapsInv, UdpTypes, InHand
<1>10. \A m \in Loop : InHand(m)'
  BY <1>8, <1>9, OwnHand DEF MapsInv, UdpTypes
<1>11. UdpTypes'
  <2>1. inbox' \in [Loop -> Seq(Fd)]
    BY <1>1 DEF MapsInv, UdpTypes
  <2>2. pc' \in [Loop -> LoopPc] /\ conv' \in [Loop -> Fd \cup {None}]
    BY <1>1 DEF MapsInv, UdpTypes, LoopPc
  <2>3. QED
    BY <1>1, <1>10, <2>1, <2>2 DEF MapsInv, UdpTypes
<1>12. Udp' = Udp
  BY <1>1 DEF Udp
<1>13. ASSUME NEW m \in Loop PROVE LoopInv(m)'
  <2>1. CASE m = l
    BY <1>1, <1>3, <1>6, <1>7, <1>12, <2>1 DEF LoopInv
  <2>2. CASE m # l
    BY <1>1, <1>3, <1>7, <2>2, LoopKept
  <2>3. QED
    BY <2>1, <2>2
<1>14. OneChannel'
  BY <1>1, <1>3, <1>7, OneChannelKept
<1>15. QED
  BY <1>1, <1>7, <1>11, <1>13, <1>14, LoopInvsNext DEF MapsInv, mailVars

LEMMA LookupKeepsMaps ==
  ASSUME MailTypes, MapsInv, NEW l \in Loop, Lookup(l)
  PROVE  /\ MapsInv' /\ UNCHANGED <<mailVars, udpMap, gone, conv>> /\ pc[l] = "lookup"
         /\ conv[l] \in Udp
         /\ pc'[l] = "create" \/ (pc'[l] = "receive" /\ udpMap[conv[l]] # None)
         /\ \A m \in Loop \ {l} : pc'[m] = pc[m]
<1>1. /\ pc[l] = "lookup"
      /\ \/ pc' = [pc EXCEPT ![l] = "create"]
         \/ pc' = [pc EXCEPT ![l] = "receive"] /\ udpMap[conv[l]] # None
      /\ UNCHANGED <<conv, inbox, lock, udpMap, loopMap, gone, packets, kind, mail, stage>>
  BY DEF Lookup, At, mailVars
<1>2. /\ pc'[l] = "create" \/ (pc'[l] = "receive" /\ udpMap[conv[l]] # None)
      /\ \A m \in Loop \ {l} : pc'[m] = pc[m]
      /\ pc' \in [Loop -> LoopPc]
  BY <1>1 DEF MapsInv, UdpTypes, LoopPc
<1>3. OneChannel /\ \A m \in Loop : LoopInv(m)
  BY LoopInvs DEF MapsInv
<1>4. Elsewhere(l)
  BY <1>1, <1>2 DEF Elsewhere
<1>5. InHand(l)'
  BY <1>1, <1>2 DEF MapsInv, UdpTypes, InHand
<1>6. \A m \in Loop : InHand(m)'
  BY <1>4, <1>5, OwnHand DEF MapsInv, UdpTypes
<1>7. UdpTypes'
  BY <1>1, <1>2, <1>6 DEF MapsInv, UdpTypes
<1>8. ASSUME NEW m \in Loop PROVE LoopInv(m)'
  BY <1>1, <1>2, <1>3 DEF LoopInv, Udp
<1>9. OneChannel'
  BY <1>1, <1>2, <1>3, OneChannelKept
<1>10. conv[l] \in Udp
  BY <1>1, <1>3 DEF MapsInv, UdpTypes, InHand, LoopInv
<1>11. QED
  BY <1>1, <1>2, <1>7, <1>8, <1>9, <1>10, LoopInvsNext DEF MapsInv, mailVars

LEMMA CreateKeepsMaps ==
  ASSUME MailTypes, MapsInv, NEW l \in Loop, Create(l)
  PROVE  /\ MapsInv' /\ pc[l] = "create"
         /\ \A m \in Loop : pc[m] # "insert"
         /\ conv[l] \in Udp /\ UNCHANGED <<conv, udpMap, gone>>
         /\ \A m \in Loop \ {l} : pc'[m] = pc[m]
         /\ \/ udpMap[conv[l]] # None /\ UNCHANGED mailVars /\ pc'[l] = "receive"
            \/ udpMap[conv[l]] = None /\ Tell(conv[l], "open") /\ pc'[l] = "insert"
<1>1. /\ pc[l] = "create" /\ lock = None
      /\ UNCHANGED <<conv, inbox, udpMap, loopMap, gone, packets>>
  BY DEF Create
<1>2. \/ /\ udpMap[conv[l]] # None /\ UNCHANGED mailVars /\ lock' = None
         /\ pc' = [pc EXCEPT ![l] = "receive"]
      \/ /\ udpMap[conv[l]] = None /\ Tell(conv[l], "open") /\ lock' = l
         /\ pc' = [pc EXCEPT ![l] = "insert"]
  BY <1>1 DEF Create, At
<1>3. kind' = kind
  BY <1>2 DEF Tell, mailVars
<1>4. OneChannel /\ \A m \in Loop : LoopInv(m)
  BY LoopInvs DEF MapsInv
<1>5. conv[l] \in Udp
  BY <1>1, <1>4 DEF MapsInv, UdpTypes, InHand, LoopInv
<1>6. lock' \in {None, l} /\ None \notin Loop
  BY <1>2, UdpAssumption
<1>7. /\ pc'[l] \in {"receive", "insert"} /\ \A m \in Loop \ {l} : pc'[m] = pc[m]
      /\ pc' \in [Loop -> LoopPc]
      /\ pc'[l] = "insert" <=> lock' = l
      /\ pc'[l] = "insert" => udpMap[conv[l]] = None
      /\ \/ udpMap[conv[l]] # None /\ UNCHANGED mailVars /\ pc'[l] = "receive"
         \/ udpMap[conv[l]] = None /\ Tell(conv[l], "open") /\ pc'[l] = "insert"
  BY <1>2, <1>6 DEF MapsInv, UdpTypes, LoopPc
<1>8. Elsewhere(l)
  BY <1>1, <1>6, <1>7 DEF Elsewhere
<1>9. InHand(l)'
  BY <1>1, <1>7 DEF MapsInv, UdpTypes, InHand
<1>10. \A m \in Loop : InHand(m)'
  BY <1>8, <1>9, OwnHand DEF MapsInv, UdpTypes
<1>11. UdpTypes'
  BY <1>1, <1>6, <1>7, <1>10 DEF MapsInv, UdpTypes
<1>12. ASSUME NEW m \in Loop PROVE LoopInv(m)'
  BY <1>1, <1>3, <1>4, <1>7 DEF LoopInv, Udp
<1>13. OneChannel'
  BY <1>1, <1>4, <1>7, OneChannelKept
<1>14. \A m \in Loop : pc[m] # "insert"
  BY <1>1, <1>6 DEF MapsInv, UdpTypes, InHand
<1>15. QED
  BY <1>1, <1>5, <1>7, <1>11, <1>12, <1>13, <1>14, LoopInvsNext DEF MapsInv

LEMMA InsertKeepsMaps ==
  ASSUME MailTypes, MapsInv, NEW l \in Loop, Insert(l)
  PROVE  /\ MapsInv' /\ UNCHANGED <<mailVars, conv, gone>> /\ pc[l] = "insert"
         /\ \A m \in Loop : pc[m] = "insert" => m = l
         /\ \A m \in Loop : pc'[m] # "insert"
         /\ \A m \in Loop : pc'[m] = "receive" => pc[m] = "receive"
         /\ conv[l] \in Udp /\ udpMap[conv[l]] = None /\ udpMap'[conv[l]] # None
         /\ \A g \in Fd \ {conv[l]} : udpMap'[g] = udpMap[g]
<1> PICK f : f = conv[l]
  OBVIOUS
<1>1. /\ pc[l] = "insert" /\ pc' = [pc EXCEPT ![l] = "enroll"]
      /\ udpMap' = [udpMap EXCEPT ![f] = l]
      /\ UNCHANGED <<conv, inbox, lock, loopMap, gone, packets, kind, mail, stage>>
  BY DEF Insert, At, mailVars
<1>2. lock = l /\ \A m \in Loop : pc[m] \in {"insert", "enroll"} => m = l
  BY <1>1 DEF MapsInv, UdpTypes, InHand
<1>3. OneChannel /\ \A m \in Loop : LoopInv(m)
  BY LoopInvs DEF MapsInv
<1>4. f \in Udp /\ f \in Fd /\ udpMap[f] = None /\ None \notin Loop
  BY <1>1, <1>3, UdpAssumption DEF MapsInv, UdpTypes, InHand, LoopInv, Udp
<1>5. /\ pc'[l] = "enroll" /\ \A m \in Loop \ {l} : pc'[m] = pc[m]
      /\ pc' \in [Loop -> LoopPc]
  BY <1>1 DEF MapsInv, UdpTypes, LoopPc
<1>6. /\ udpMap'[f] = l /\ \A g \in Fd \ {f} : udpMap'[g] = udpMap[g]
      /\ udpMap' \in [Fd -> Loop \cup {None}]
  BY <1>1, <1>4 DEF MapsInv, UdpTypes
<1>7. OneChannel'
  <2> SUFFICES ASSUME NEW g \in Fd, NEW m \in Loop
               PROVE  /\ g \in loopMap[m] => udpMap'[g] = m
                      /\ udpMap'[g] = m => \/ g \in loopMap[m]
                                           \/ pc'[m] = "enroll" /\ conv[m] = g
                                           \/ pc'[m] = "remove" /\ g \in gone[m]
    BY <1>1 DEF OneChannel
  <2>1. CASE g = f
    BY <1>3, <1>4, <1>5, <1>6, <2>1 DEF OneChannel
  <2>2. CASE g # f
    BY <1>1, <1>2, <1>3, <1>5, <1>6, <2>2 DEF OneChannel
  <2>3. QED
    BY <2>1, <2>2
<1>8. Elsewhere(l)
  BY <1>1, <1>5 DEF Elsewhere
<1>9. InHand(l)'
  BY <1>1, <1>5 DEF MapsInv, UdpTypes, InHand
<1>10. \A m \in Loop : InHand(m)'
  BY <1>8, <1>9, OwnHand DEF MapsInv, UdpTypes
<1>11. UdpTypes'
  BY <1>1, <1>5, <1>6, <1>10 DEF MapsInv, UdpTypes
<1>12. ASSUME NEW m \in Loop PROVE LoopInv(m)'
  <2>1. \A g \in gone[m] : udpMap'[g] = m
    BY <1>3, <1>4, <1>6 DEF LoopInv, Udp
  <2>2. CASE m = l
    BY <1>1, <1>3, <1>5, <1>6, <2>1, <2>2 DEF LoopInv, Udp
  <2>3. CASE m # l
    BY <1>1, <1>2, <1>3, <1>5, <2>1, <2>3 DEF LoopInv, Udp
  <2>4. QED
    BY <2>2, <2>3
<1>13. QED
  BY <1>1, <1>2, <1>4, <1>5, <1>6, <1>7, <1>11, <1>12, LoopInvsNext DEF MapsInv, mailVars

LEMMA EnrollKeepsMaps ==
  ASSUME MailTypes, MapsInv, NEW l \in Loop, Enroll(l)
  PROVE  /\ MapsInv' /\ UNCHANGED <<mailVars, conv, udpMap, gone>> /\ pc[l] = "enroll"
         /\ \A m \in Loop \ {l} : pc'[m] = pc[m]
         /\ pc'[l] = "receive" /\ conv[l] \in Udp /\ udpMap[conv[l]] # None
<1> PICK f : f = conv[l]
  OBVIOUS
<1>1. /\ pc[l] = "enroll" /\ pc' = [pc EXCEPT ![l] = "receive"]
      /\ loopMap' = [loopMap EXCEPT ![l] = @ \cup {f}] /\ lock' = None
      /\ UNCHANGED <<conv, inbox, udpMap, gone, packets, kind, mail, stage>>
  BY DEF Enroll, At, mailVars
<1>2. lock = l /\ \A m \in Loop : pc[m] \in {"insert", "enroll"} => m = l
  BY <1>1 DEF MapsInv, UdpTypes, InHand
<1>3. OneChannel /\ \A m \in Loop : LoopInv(m)
  BY LoopInvs DEF MapsInv
<1>4. f \in Udp /\ f \in Fd /\ udpMap[f] = l /\ None \notin Loop
  BY <1>1, <1>3, UdpAssumption DEF MapsInv, UdpTypes, InHand, LoopInv, Udp
<1>5. /\ pc'[l] = "receive" /\ \A m \in Loop \ {l} : pc'[m] = pc[m]
      /\ pc' \in [Loop -> LoopPc]
  BY <1>1 DEF MapsInv, UdpTypes, LoopPc
<1>6. /\ loopMap'[l] = loopMap[l] \cup {f} /\ \A m \in Loop \ {l} : loopMap'[m] = loopMap[m]
      /\ loopMap' \in [Loop -> SUBSET Fd]
  BY <1>1, <1>4 DEF MapsInv, UdpTypes
<1>7. OneChannel'
  <2> SUFFICES ASSUME NEW g \in Fd, NEW m \in Loop
               PROVE  /\ g \in loopMap'[m] => udpMap[g] = m
                      /\ udpMap[g] = m => \/ g \in loopMap'[m]
                                          \/ pc'[m] = "enroll" /\ conv[m] = g
                                          \/ pc'[m] = "remove" /\ g \in gone[m]
    BY <1>1 DEF OneChannel
  <2>1. CASE m = l
    BY <1>1, <1>3, <1>4, <1>6, <2>1 DEF OneChannel
  <2>2. CASE m # l
    BY <1>3, <1>5, <1>6, <2>2 DEF OneChannel
  <2>3. QED
    BY <2>1, <2>2
<1>8. Elsewhere(l)
  BY <1>1, <1>2, <1>4, <1>5, <1>6 DEF Elsewhere
<1>9. InHand(l)'
  BY <1>1, <1>4, <1>5 DEF MapsInv, UdpTypes, InHand
<1>10. \A m \in Loop : InHand(m)'
  BY <1>8, <1>9, OwnHand DEF MapsInv, UdpTypes
<1>11. UdpTypes'
  BY <1>1, <1>5, <1>6, <1>10 DEF MapsInv, UdpTypes
<1>12. ASSUME NEW m \in Loop PROVE LoopInv(m)'
  <2>1. CASE m = l
    BY <1>1, <1>3, <1>4, <1>5, <1>6, <2>1 DEF LoopInv, Udp
  <2>2. CASE m # l
    BY <1>1, <1>3, <1>5, <1>6, <2>2, LoopKept
  <2>3. QED
    BY <2>1, <2>2
<1>13. QED
  BY <1>1, <1>4, <1>5, <1>7, <1>11, <1>12, LoopInvsNext DEF MapsInv, mailVars

LEMMA ReceiveKeepsMaps ==
  ASSUME MailTypes, MapsInv, NEW l \in Loop, Receive(l)
  PROVE  /\ MapsInv' /\ pc[l] = "receive" /\ pc'[l] = "idle" /\ conv[l] \in Udp
         /\ UNCHANGED <<udpMap, gone>>
         /\ \A m \in Loop \ {l} : pc'[m] = pc[m] /\ conv'[m] = conv[m]
         /\ Tell(conv[l], "read") \/ UNCHANGED mailVars
<1>1. /\ pc[l] = "receive"
      /\ UNCHANGED <<inbox, lock, udpMap, loopMap, gone, packets>>
      /\ pc' = [pc EXCEPT ![l] = "idle"] /\ conv' = [conv EXCEPT ![l] = None]
      /\ Tell(conv[l], "read") \/ UNCHANGED mailVars
  BY DEF Receive, At
<1>2. kind' = kind
  BY <1>1 DEF Tell, mailVars
<1>3. OneChannel /\ \A m \in Loop : LoopInv(m)
  BY LoopInvs DEF MapsInv
<1>4. conv[l] \in Udp
  BY <1>1, <1>3 DEF MapsInv, UdpTypes, InHand, LoopInv
<1>5. /\ pc'[l] = "idle" /\ conv'[l] = None
      /\ \A m \in Loop \ {l} : pc'[m] = pc[m] /\ conv'[m] = conv[m]
      /\ pc' \in [Loop -> LoopPc] /\ conv' \in [Loop -> Fd \cup {None}]
  BY <1>1 DEF MapsInv, UdpTypes, LoopPc
<1>6. Elsewhere(l)
  BY <1>1, <1>5 DEF Elsewhere
<1>7. InHand(l)'
  BY <1>1, <1>5 DEF MapsInv, UdpTypes, InHand
<1>8. \A m \in Loop : InHand(m)'
  BY <1>6, <1>7, OwnHand DEF MapsInv, UdpTypes
<1>9. UdpTypes'
  BY <1>1, <1>5, <1>8 DEF MapsInv, UdpTypes
<1>10. ASSUME NEW m \in Loop PROVE LoopInv(m)'
  BY <1>1, <1>2, <1>3, <1>5 DEF LoopInv, Udp
<1>11. OneChannel'
  BY <1>1, <1>3, <1>5, OneChannelKept
<1>12. QED
  BY <1>1, <1>4, <1>5, <1>9, <1>10, <1>11, LoopInvsNext DEF MapsInv

LEMMA ExpireKeepsMaps ==
  ASSUME MailTypes, MapsInv, NEW l \in Loop, NEW f \in Fd, Expire(l, f)
  PROVE  /\ MapsInv' /\ f \in Udp /\ udpMap[f] = l /\ l # None /\ f \notin gone[l]
         /\ UNCHANGED <<conv, udpMap>> /\ Tell(f, "close")
         /\ \A m \in Loop : pc'[m] \in {"insert", "receive"} \/ pc[m] \in {"insert", "receive"}
                              => pc'[m] = pc[m]
         /\ gone'[l] = gone[l] \cup {f} /\ \A m \in Loop \ {l} : gone'[m] = gone[m]
<1>1. /\ pc[l] \in {"idle", "timer"} /\ f \in loopMap[l] \ gone[l]
      /\ pc' = [pc EXCEPT ![l] = "timer"]
      /\ gone' = [gone EXCEPT ![l] = @ \cup {f}] /\ Tell(f, "close")
      /\ UNCHANGED <<conv, inbox, lock, udpMap, loopMap, packets>>
  BY DEF Expire
<1>2. kind' = kind
  BY <1>1 DEF Tell
<1>3. OneChannel /\ \A m \in Loop : LoopInv(m)
  BY LoopInvs DEF MapsInv
<1>4. f \in Udp /\ udpMap[f] = l /\ conv[l] = None /\ l # None
  BY <1>1, <1>3, UdpAssumption DEF MapsInv, UdpTypes, InHand, LoopInv, OneChannel
<1>5. /\ gone' \in [Loop -> SUBSET Fd] /\ gone'[l] = gone[l] \cup {f}
      /\ \A m \in Loop \ {l} : gone'[m] = gone[m]
  BY <1>1 DEF MapsInv, UdpTypes
<1>6. /\ pc'[l] = "timer" /\ \A m \in Loop \ {l} : pc'[m] = pc[m]
      /\ pc' \in [Loop -> LoopPc]
  BY <1>1 DEF MapsInv, UdpTypes, LoopPc
<1>7. Elsewhere(l)
  BY <1>1, <1>5, <1>6 DEF Elsewhere
<1>8. InHand(l)'
  BY <1>1, <1>4, <1>5, <1>6 DEF MapsInv, UdpTypes, InHand
<1>9. \A m \in Loop : InHand(m)'
  BY <1>7, <1>8, OwnHand DEF MapsInv, UdpTypes
<1>10. UdpTypes'
  BY <1>1, <1>5, <1>6, <1>9 DEF MapsInv, UdpTypes
<1>11. ASSUME NEW m \in Loop PROVE LoopInv(m)'
  <2>1. CASE m = l
    BY <1>1, <1>2, <1>3, <1>4, <1>5, <1>6, <2>1 DEF LoopInv, Udp
  <2>2. CASE m # l
    BY <1>1, <1>2, <1>3, <1>5, <1>6, <2>2, LoopKept
  <2>3. QED
    BY <2>1, <2>2
<1>12. OneChannel'
  BY <1>1, <1>3, <1>5, <1>6, OneChannelKept
<1>13. QED
  BY <1>1, <1>4, <1>5, <1>6, <1>10, <1>11, <1>12, LoopInvsNext DEF MapsInv

LEMMA EraseKeepsMaps ==
  ASSUME MailTypes, MapsInv, NEW l \in Loop, NEW f \in Fd, Erase(l, f)
  PROVE  /\ MapsInv' /\ UNCHANGED <<mailVars, udpMap, gone>>
         /\ \A m \in Loop : pc'[m] \in {"insert", "receive"} \/ pc[m] \in {"insert", "receive"}
                              => pc'[m] = pc[m] /\ conv'[m] = conv[m]
<1>1. /\ pc[l] \in {"timer", "erase"} /\ f \in gone[l]
      /\ pc' = [pc EXCEPT ![l] = "remove"]
      /\ loopMap' = [loopMap EXCEPT ![l] = @ \ {f}]
      /\ UNCHANGED <<conv, inbox, lock, udpMap, gone, packets, kind, mail, stage>>
  BY DEF Erase, mailVars
<1>2. OneChannel /\ \A m \in Loop : LoopInv(m)
  BY LoopInvs DEF MapsInv
<1>3. /\ loopMap' \in [Loop -> SUBSET Fd] /\ loopMap'[l] = loopMap[l] \ {f}
      /\ \A m \in Loop \ {l} : loopMap'[m] = loopMap[m]
  BY <1>1 DEF MapsInv, UdpTypes
<1>4. /\ pc'[l] = "remove" /\ \A m \in Loop \ {l} : pc'[m] = pc[m]
      /\ pc' \in [Loop -> LoopPc]
  BY <1>1 DEF MapsInv, UdpTypes, LoopPc
<1>5. gone[l] \subseteq loopMap[l]
  BY <1>1, <1>2 DEF LoopInv
<1>6. Elsewhere(l)
  BY <1>1, <1>3, <1>4 DEF Elsewhere
<1>7. InHand(l)'
  BY <1>1, <1>4 DEF MapsInv, UdpTypes, InHand
<1>8. \A m \in Loop : InHand(m)'
  BY <1>6, <1>7, OwnHand DEF MapsInv, UdpTypes
<1>9. UdpTypes'
  BY <1>1, <1>3, <1>4, <1>8 DEF MapsInv, UdpTypes
<1>10. ASSUME NEW m \in Loop PROVE LoopInv(m)'
  <2>1. CASE m = l
    BY <1>1, <1>2, <1>3, <1>4, <1>5, <2>1 DEF LoopInv, Udp
  <2>2. CASE m # l
    BY <1>1, <1>2, <1>3, <1>4, <2>2, LoopKept
  <2>3. QED
    BY <2>1, <2>2
<1>11. OneChannel'
  <2> SUFFICES ASSUME NEW g \in Fd, NEW m \in Loop
               PROVE  /\ g \in loopMap'[m] => udpMap[g] = m
                      /\ udpMap[g] = m => \/ g \in loopMap'[m]
                                          \/ pc'[m] = "enroll" /\ conv[m] = g
                                          \/ pc'[m] = "remove" /\ g \in gone[m]
    BY <1>1 DEF OneChannel
  <2>1. CASE m = l
    BY <1>1, <1>2, <1>3, <1>4, <2>1 DEF OneChannel
  <2>2. CASE m # l
    BY <1>2, <1>3, <1>4, <2>2 DEF OneChannel
  <2>3. QED
    BY <2>1, <2>2
<1>12. QED
  BY <1>1, <1>4, <1>9, <1>10, <1>11, LoopInvsNext DEF MapsInv, mailVars

LEMMA RemoveKeepsMaps ==
  ASSUME MailTypes, MapsInv, NEW l \in Loop, NEW f \in Fd, Remove(l, f)
  PROVE  /\ MapsInv' /\ UNCHANGED <<mailVars, conv>> /\ f \in Udp /\ f \in gone[l]
         /\ \A m \in Loop : pc'[m] \in {"insert", "receive"} \/ pc[m] \in {"insert", "receive"}
                              => pc'[m] = pc[m]
         /\ gone'[l] = gone[l] \ {f} /\ \A m \in Loop \ {l} : gone'[m] = gone[m]
         /\ udpMap'[f] = None /\ \A g \in Fd \ {f} : udpMap'[g] = udpMap[g]
<1>1. /\ pc[l] = "remove" /\ f \in gone[l] /\ f \notin loopMap[l]
      /\ pc' = [pc EXCEPT ![l] = IF gone[l] = {f} THEN "idle" ELSE "erase"]
      /\ gone' = [gone EXCEPT ![l] = @ \ {f}]
      /\ udpMap' = [udpMap EXCEPT ![f] = None]
      /\ UNCHANGED <<conv, inbox, lock, loopMap, packets, kind, mail, stage>>
  BY DEF Remove, mailVars
<1>2. OneChannel /\ \A m \in Loop : LoopInv(m)
  BY LoopInvs DEF MapsInv
<1>3. f \in Udp /\ udpMap[f] = l /\ None \notin Loop
  BY <1>1, Expirings, UdpAssumption
<1>4. /\ gone' \in [Loop -> SUBSET Fd] /\ gone'[l] = gone[l] \ {f}
      /\ \A m \in Loop \ {l} : gone'[m] = gone[m]
  BY <1>1 DEF MapsInv, UdpTypes
<1>5. /\ udpMap' \in [Fd -> Loop \cup {None}] /\ udpMap'[f] = None
      /\ \A g \in Fd \ {f} : udpMap'[g] = udpMap[g]
  BY <1>1 DEF MapsInv, UdpTypes
<1>6. /\ pc' \in [Loop -> LoopPc] /\ \A m \in Loop \ {l} : pc'[m] = pc[m]
      /\ pc'[l] = IF gone[l] = {f} THEN "idle" ELSE "erase"
  BY <1>1 DEF MapsInv, UdpTypes, LoopPc
<1>7. gone'[l] \subseteq loopMap[l]
  BY <1>1, <1>2, <1>4 DEF LoopInv
<1>8. Elsewhere(l)
  BY <1>1, <1>4, <1>6 DEF Elsewhere
<1>9. InHand(l)'
  <2>1. conv[l] = None /\ lock # l
    BY <1>1 DEF MapsInv, UdpTypes, InHand
  <2>2. gone'[l] # {} <=> gone[l] # {f}
    BY <1>1, <1>4
  <2>3. QED
    BY <1>1, <1>6, <2>1, <2>2 DEF InHand
<1>10. \A m \in Loop : InHand(m)'
  BY <1>8, <1>9, OwnHand DEF MapsInv, UdpTypes
<1>11. UdpTypes'
  BY <1>1, <1>4, <1>5, <1>6, <1>10 DEF MapsInv, UdpTypes
<1>12. OneChannel'
  <2> SUFFICES ASSUME NEW g \in Fd, NEW m \in Loop
               PROVE  /\ g \in loopMap[m] => udpMap'[g] = m
                      /\ udpMap'[g] = m => \/ g \in loopMap[m]
                                           \/ pc'[m] = "enroll" /\ conv[m] = g
                                           \/ pc'[m] = "remove" /\ g \in gone'[m]
    BY <1>1 DEF OneChannel
  <2>1. CASE g = f
    BY <1>1, <1>2, <1>3, <1>5, <2>1 DEF OneChannel
  <2>2. CASE g # f /\ m # l
    BY <1>2, <1>4, <1>5, <1>6, <2>2 DEF OneChannel
  <2>3. CASE g # f /\ m = l
    <3>1. udpMap'[g] = udpMap[g]
      BY <1>5, <2>3
    <3>2. g \in gone[l] => g \in loopMap[l]
      BY <1>4, <1>7, <2>3
    <3>3. QED
      BY <1>1, <1>2, <2>3, <3>1, <3>2 DEF OneChannel
  <2>4. QED
    BY <2>1, <2>2, <2>3
<1>13. ASSUME NEW m \in Loop PROVE LoopInv(m)'
  <2>1. LoopInv(m) /\ (pc[m] \in {"insert", "enroll"} => conv[m] \in Fd)
    BY <1>2 DEF MapsInv, UdpTypes, InHand
  <2>2. Udp' = Udp
    BY <1>1 DEF Udp
  <2>3. CASE m = l
    <3>1. \A g \in gone'[l] : udpMap'[g] = l
      BY <1>4, <1>5, <2>1, <2>3 DEF LoopInv, Udp
    <3>2. QED
      BY <1>1, <1>4, <1>6, <1>7, <2>1, <2>2, <2>3, <3>1 DEF LoopInv
  <2>4. CASE m # l
    <3>1. pc[m] = "insert" => udpMap'[conv[m]] = None
      BY <1>5, <2>1 DEF LoopInv
    <3>2. pc[m] = "enroll" => udpMap'[conv[m]] = m
      BY <1>3, <1>5, <2>1, <2>4 DEF LoopInv
    <3>3. \A g \in gone[m] : udpMap'[g] = m
      BY <1>3, <1>5, <2>1, <2>4 DEF LoopInv, Udp
    <3>4. QED
      BY <1>1, <1>4, <1>6, <2>1, <2>2, <2>4, <3>1, <3>2, <3>3 DEF LoopInv
  <2>5. QED
    BY <2>3, <2>4
<1>14. QED
  BY <1>1, <1>3, <1>4, <1>5, <1>6, <1>11, <1>12, <1>13, LoopInvsNext DEF MapsInv, mailVars

\* The maps and the mail after any step of the UDP server.
LEMMA UdpKeepsMaps ==
  ASSUME MailTypes, MapsInv, UdpNext
  PROVE  /\ MapsInv' /\ MailTypes' /\ stage' = stage /\ kind' = kind
         /\ \A g \in Fd \ Udp : Untold(g)
<1>1. ASSUME MapsInv', UNCHANGED mailVars
      PROVE  /\ MapsInv' /\ MailTypes' /\ stage' = stage /\ kind' = kind
             /\ \A g \in Fd \ Udp : Untold(g)
  BY <1>1 DEF mailVars, MailTypes, Untold
<1>2. ASSUME MapsInv', NEW f \in Udp, NEW cmd \in Command, Tell(f, cmd)
      PROVE  /\ MapsInv' /\ MailTypes' /\ stage' = stage /\ kind' = kind
             /\ \A g \in Fd \ Udp : Untold(g)
  <2>1. f \in Fd
    BY DEF Udp
  <2>2. QED
    BY <1>2, <2>1, TellEffect
<1>3. "open" \in Command /\ "read" \in Command /\ "close" \in Command
  BY DEF Command
<1> PICK l \in Loop : UdpStep(l) \/ \E f \in Fd : Arrive(l, f)
  BY DEF UdpNext
<1>4. ASSUME NEW f \in Fd, Arrive(l, f) PROVE MapsInv' /\ UNCHANGED mailVars
  BY <1>4, ArriveKeepsMaps
<1>5. CASE Dequeue(l)
  BY <1>1, <1>5, DequeueKeepsMaps
<1>6. CASE Lookup(l)
  BY <1>1, <1>6, LookupKeepsMaps
<1>7. CASE Create(l)
  BY <1>1, <1>2, <1>3, <1>7, CreateKeepsMaps
<1>8. CASE Insert(l)
  BY <1>1, <1>8, InsertKeepsMaps
<1>0. CASE Enroll(l)
  BY <1>0, <1>1, EnrollKeepsMaps
<1>9. CASE Receive(l)
  BY <1>1, <1>2, <1>3, <1>9, ReceiveKeepsMaps
<1>10. CASE \E f \in Fd : Expire(l, f)
  BY <1>2, <1>3, <1>10, ExpireKeepsMaps
<1>11. CASE \E f \in Fd : Remove(l, f)
  BY <1>1, <1>11, RemoveKeepsMaps
<1>14. CASE \E f \in Fd : Erase(l, f)
  BY <1>1, <1>14, EraseKeepsMaps
<1>12. CASE \E f \in Fd : Arrive(l, f)
  BY <1>1, <1>4, <1>12
<1>13. QED
  BY <1>0, <1>5, <1>6, <1>7, <1>8, <1>9, <1>10, <1>11, <1>12, <1>14 DEF UdpStep

-----------------------------------------------------------------------------
(***************************************************************************)
(* UDP: what the service is told goes with what the loops are doing.       *)
(***************************************************************************)
TalkInv == MapsInv /\ UdpInv

\* A conversation that a step neither tells of nor moves.
LEMMA OutlookKept ==
  ASSUME NEW g, Untold(g), WillHear(g, Outlook(g)), Making(g)' <=> Making(g),
         Expiring(g)' <=> Expiring(g), udpMap'[g] = udpMap[g]
  PROVE  WillHear(g, Outlook(g))'
<1>1. Outlook(g)' = Outlook(g)
  BY DEF Outlook
<1>2. QED
  BY <1>1 DEF Untold, WillHear

\* Steps that tell nothing, leave the map of all channels alone and let no loop
\* come to a conversation that is not known.
LEMMA SilentStep ==
  ASSUME TalkInv, UNCHANGED <<mailVars, udpMap, gone>>,
         \A m \in Loop : pc'[m] = "insert" \/ pc[m] = "insert"
                           => pc'[m] = pc[m] /\ conv'[m] = conv[m],
         \A m \in Loop : pc'[m] = "receive" => Known(conv'[m])
  PROVE  UdpInv'
<1>1. Udp' = Udp /\ \A g \in Udp : Untold(g)
  BY DEF mailVars, Udp, Untold
<1>2. ASSUME NEW g \in Udp PROVE WillHear(g, Outlook(g))'
  <2>1. Making(g)' <=> Making(g)
    BY DEF Making
  <2>2. Expiring(g)' <=> Expiring(g)
    BY DEF Expiring
  <2>3. WillHear(g, Outlook(g))
    BY DEF TalkInv, UdpInv
  <2>4. QED
    BY <1>1, <2>1, <2>2, <2>3, OutlookKept
<1>3. Received'
  BY DEF Received, Known, mailVars
<1>4. QED
  BY <1>1, <1>2, <1>3 DEF UdpInv

\* A conversation that has a channel is known.
LEMMA ChannelKnown ==
  ASSUME MailTypes, TalkInv, NEW f \in Udp, udpMap[f] # None
  PROVE  Known(f)
<1>1. WillHear(f, Outlook(f)) /\ f \in Fd
  BY DEF TalkInv, UdpInv, Udp
<1>2. WillHear(f, {"open", "read", "close", "late"})
  BY <1>1 DEF Outlook, WillHear
<1>3. QED
  BY <1>1, <1>2, HeardKnown

LEMMA LookupTalks ==
  ASSUME MailTypes, TalkInv, NEW l \in Loop, Lookup(l)
  PROVE  UdpInv'
<1>1. /\ UNCHANGED <<mailVars, udpMap, gone, conv>> /\ conv[l] \in Udp
      /\ pc[l] = "lookup"
      /\ pc'[l] = "create" \/ (pc'[l] = "receive" /\ udpMap[conv[l]] # None)
      /\ \A m \in Loop \ {l} : pc'[m] = pc[m]
  BY LookupKeepsMaps DEF TalkInv
<1>2. \A m \in Loop : pc'[m] = "receive" => Known(conv'[m])
  BY <1>1, ChannelKnown DEF TalkInv, UdpInv, Received
<1>3. QED
  BY <1>1, <1>2, SilentStep

LEMMA CreateTalks ==
  ASSUME MailTypes, TalkInv, NEW l \in Loop, Create(l)
  PROVE  UdpInv'
<1>1. /\ pc[l] = "create" /\ \A m \in Loop : pc[m] # "insert"
      /\ conv[l] \in Udp /\ UNCHANGED <<conv, udpMap, gone>>
      /\ \A m \in Loop \ {l} : pc'[m] = pc[m]
      /\ \/ udpMap[conv[l]] # None /\ UNCHANGED mailVars /\ pc'[l] = "receive"
         \/ udpMap[conv[l]] = None /\ Tell(conv[l], "open") /\ pc'[l] = "insert"
  BY CreateKeepsMaps DEF TalkInv
<1> PICK f \in Udp : f = conv[l]
  BY <1>1
<1>2. CASE udpMap[f] # None /\ UNCHANGED mailVars /\ pc'[l] = "receive"
  <2>1. \A m \in Loop : pc'[m] = "receive" => Known(conv'[m])
    BY <1>1, <1>2, ChannelKnown DEF TalkInv, UdpInv, Received
  <2>2. QED
    BY <1>1, <1>2, <2>1, SilentStep
<1>3. CASE udpMap[f] = None /\ Tell(f, "open") /\ pc'[l] = "insert"
  <2>1. f \in Fd /\ kind[f] = "udp" /\ "open" \in Command
    BY DEF Udp, Command
  <2>2. ~Making(f)
    BY <1>1 DEF Making
  <2>3. ~Expiring(f)
    BY <1>3, Expirings DEF Expiring, TalkInv
  <2>4. WillHear(f, {"unknown", "close", "late"})
    BY <1>3, <2>2, <2>3 DEF TalkInv, UdpInv, Outlook
  <2>5. \A s \in {"unknown", "close", "late"} :
          Sensible(s, "open") /\ Hearing(s, "open") \in {"open", "read"}
    BY DEF Sensible, Hearing
  <2>6. WillHear(f, {"open", "read"})' /\ Known(f)'
    BY <1>3, <2>1, <2>4, <2>5, ToldHears
  <2>7. kind' = kind /\ \A g \in Fd : g # f => Untold(g)
    BY <1>3, <2>1, TellEffect
  <2>8. Making(f)' /\ ~Expiring(f)'
    BY <1>1, <1>3, <2>3 DEF Making, Expiring
  <2>9. WillHear(f, Outlook(f))'
    BY <2>6, <2>8 DEF Outlook
  <2>10. ASSUME NEW g \in Udp, g # f PROVE WillHear(g, Outlook(g))'
    <3>1. ~Making(g) /\ ~Making(g)'
      BY <1>1, <2>10 DEF Making
    <3>2. Expiring(g)' <=> Expiring(g)
      BY <1>1 DEF Expiring
    <3>3. WillHear(g, Outlook(g)) /\ Untold(g)
      BY <2>7, <2>10 DEF TalkInv, UdpInv, Udp
    <3>4. QED
      BY <1>1, <3>1, <3>2, <3>3, OutlookKept
  <2>11. Udp' = Udp
    BY <2>7 DEF Udp
  <2>12. Received'
    <3> SUFFICES ASSUME NEW m \in Loop, pc'[m] = "receive" PROVE Known(conv[m])'
      BY <1>1 DEF Received
    <3>1. pc[m] = "receive" /\ Known(conv[m])
      BY <1>1, <1>3 DEF TalkInv, UdpInv, Received
    <3>2. conv[m] \in Fd
      BY <3>1 DEF TalkInv, MapsInv, UdpTypes, InHand
    <3>3. conv'[m] = conv[m]
      BY <1>1
    <3>4. CASE conv[m] = f
      BY <2>6, <3>3, <3>4 DEF Known
    <3>5. CASE conv[m] # f
      BY <2>7, <3>1, <3>2, <3>3, <3>5 DEF Known, Untold
    <3>6. QED
      BY <3>4, <3>5
  <2>13. QED
    BY <2>9, <2>10, <2>11, <2>12 DEF UdpInv
<1>4. QED
  BY <1>1, <1>2, <1>3

LEMMA InsertTalks ==
  ASSUME MailTypes, TalkInv, NEW l \in Loop, Insert(l)
  PROVE  UdpInv'
<1>1. /\ UNCHANGED <<mailVars, conv, gone>> /\ pc[l] = "insert"
      /\ \A m \in Loop : pc[m] = "insert" => m = l
      /\ \A m \in Loop : pc'[m] # "insert"
      /\ \A m \in Loop : pc'[m] = "receive" => pc[m] = "receive"
      /\ conv[l] \in Udp /\ udpMap[conv[l]] = None /\ udpMap'[conv[l]] # None
      /\ \A g \in Fd \ {conv[l]} : udpMap'[g] = udpMap[g]
  BY InsertKeepsMaps DEF TalkInv
<1> PICK f \in Udp : f = conv[l]
  BY <1>1
<1>2. Udp' = Udp /\ \A g \in Udp : Untold(g)
  BY <1>1 DEF mailVars, Udp, Untold
<1>3. WillHear(f, Outlook(f))'
  <2>1. Making(f) /\ ~Expiring(f) /\ WillHear(f, Outlook(f))
    BY <1>1, Expirings DEF Making, Expiring, TalkInv, UdpInv
  <2>2. ~Expiring(f)'
    BY <1>1, <2>1 DEF Expiring
  <2>3. Outlook(f)' = {"open", "read"} /\ Outlook(f) = {"open", "read"}
    BY <1>1, <2>1, <2>2 DEF Outlook
  <2>4. QED
    BY <1>2, <2>1, <2>3 DEF Untold, WillHear
<1>4. ASSUME NEW g \in Udp, g # f PROVE WillHear(g, Outlook(g))'
  <2>1. ~Making(g) /\ ~Making(g)'
    BY <1>1, <1>4 DEF Making
  <2>2. Expiring(g)' <=> Expiring(g)
    BY <1>1 DEF Expiring
  <2>3. WillHear(g, Outlook(g)) /\ udpMap'[g] = udpMap[g]
    BY <1>1, <1>4 DEF TalkInv, UdpInv, Udp
  <2>4. QED
    BY <1>2, <2>1, <2>2, <2>3, OutlookKept
<1>5. Received'
  BY <1>1 DEF TalkInv, UdpInv, Received, Known, mailVars
<1>6. QED
  BY <1>2, <1>3, <1>4, <1>5 DEF UdpInv

LEMMA EnrollTalks ==
  ASSUME MailTypes, TalkInv, NEW l \in Loop, Enroll(l)
  PROVE  UdpInv'
<1>1. /\ UNCHANGED <<mailVars, conv, udpMap, gone>> /\ pc[l] = "enroll"
      /\ \A m \in Loop \ {l} : pc'[m] = pc[m]
      /\ pc'[l] = "receive" /\ conv[l] \in Udp /\ udpMap[conv[l]] # None
  BY EnrollKeepsMaps DEF TalkInv
<1>2. \A m \in Loop : pc'[m] = "receive" => Known(conv'[m])
  BY <1>1, ChannelKnown DEF TalkInv, UdpInv, Received
<1>3. QED
  BY <1>1, <1>2, SilentStep

LEMMA ReceiveTalks ==
  ASSUME MailTypes, TalkInv, NEW l \in Loop, Receive(l)
  PROVE  UdpInv'
<1>1. /\ pc[l] = "receive" /\ pc'[l] = "idle" /\ conv[l] \in Udp
      /\ UNCHANGED <<udpMap, gone>>
      /\ \A m \in Loop \ {l} : pc'[m] = pc[m] /\ conv'[m] = conv[m]
      /\ Tell(conv[l], "read") \/ UNCHANGED mailVars
  BY ReceiveKeepsMaps DEF TalkInv
<1> PICK f \in Udp : f = conv[l]
  BY <1>1
<1>2. CASE UNCHANGED mailVars
  <2>1. \A m \in Loop : pc'[m] = "receive" => Known(conv'[m])
    BY <1>1 DEF TalkInv, UdpInv, Received
  <2>2. QED
    BY <1>1, <1>2, <2>1, SilentStep
<1>3. CASE Tell(f, "read")
  <2>1. f \in Fd /\ kind[f] = "udp" /\ "read" \in Command
    BY DEF Udp, Command
  <2>2. Known(f) /\ WillHear(f, Outlook(f))
    BY <1>1 DEF TalkInv, UdpInv, Received
  <2>3. \A g \in Udp : (Making(g)' <=> Making(g)) /\ (Expiring(g)' <=> Expiring(g))
    BY <1>1 DEF Making, Expiring
  <2>4. Outlook(f)' = Outlook(f)
    BY <1>1, <2>3 DEF Outlook
  <2>5. kind' = kind /\ \A g \in Fd : g # f => Untold(g)
    BY <1>3, <2>1, TellEffect
  <2>6. WillHear(f, Outlook(f))' /\ Known(f)'
    <3>1. CASE Outlook(f) = {"open", "read"}
      <4>1. \A s \in {"open", "read"} :
              Sensible(s, "read") /\ Hearing(s, "read") \in {"open", "read"}
        BY DEF Sensible, Hearing
      <4>2. WillHear(f, {"open", "read"})' /\ Known(f)'
        BY <1>3, <2>1, <2>2, <3>1, <4>1, ToldHears
      <4>3. QED
        BY <2>4, <3>1, <4>2
    <3>2. CASE Outlook(f) # {"open", "read"}
      <4>1. WillHear(f, Outlook(f) \ {"unknown"})
        BY <2>1, <2>2, HeardKnown
      <4>2. WillHear(f, {"close", "late"}) /\ {"close", "late"} \subseteq Outlook(f)
        BY <3>2, <4>1 DEF Outlook, WillHear
      <4>3. \A s \in {"close", "late"} :
              Sensible(s, "read") /\ Hearing(s, "read") \in {"close", "late"}
        BY DEF Sensible, Hearing
      <4>4. WillHear(f, {"close", "late"})' /\ Known(f)'
        BY <1>3, <2>1, <4>2, <4>3, ToldHears
      <4>5. QED
        BY <2>4, <4>2, <4>4 DEF WillHear
    <3>3. QED
      BY <3>1, <3>2
  <2>7. ASSUME NEW g \in Udp, g # f PROVE WillHear(g, Outlook(g))'
    <3>1. WillHear(g, Outlook(g)) /\ Untold(g)
      BY <2>5, <2>7 DEF TalkInv, UdpInv, Udp
    <3>2. QED
      BY <1>1, <2>3, <3>1, OutlookKept
  <2>8. Udp' = Udp
    BY <2>5 DEF Udp
  <2>9. Received'
    <3> SUFFICES ASSUME NEW m \in Loop, pc'[m] = "receive" PROVE Known(conv[m])'
      BY DEF Received
    <3>1. pc[m] = "receive" /\ Known(conv[m]) /\ conv'[m] = conv[m]
      BY <1>1 DEF TalkInv, UdpInv, Received
    <3>2. conv[m] \in Fd
      BY <3>1 DEF TalkInv, MapsInv, UdpTypes, InHand
    <3>3. CASE conv[m] = f
      BY <2>6, <3>1, <3>3 DEF Known
    <3>4. CASE conv[m] # f
      BY <2>5, <3>1, <3>2, <3>4 DEF Known, Untold
    <3>5. QED
      BY <3>3, <3>4
  <2>10. QED
    BY <2>6, <2>7, <2>8, <2>9 DEF UdpInv
<1>4. QED
  BY <1>1, <1>2, <1>3

LEMMA ExpireTalks ==
  ASSUME MailTypes, TalkInv, NEW l \in Loop, NEW f \in Fd, Expire(l, f)
  PROVE  UdpInv'
<1>1. /\ f \in Udp /\ udpMap[f] = l /\ l # None /\ f \notin gone[l]
      /\ UNCHANGED <<conv, udpMap>> /\ Tell(f, "close")
      /\ \A m \in Loop : pc'[m] \in {"insert", "receive"} \/ pc[m] \in {"insert", "receive"}
                           => pc'[m] = pc[m]
      /\ gone'[l] = gone[l] \cup {f} /\ \A m \in Loop \ {l} : gone'[m] = gone[m]
  BY ExpireKeepsMaps DEF TalkInv
<1>2. "close" \in Command
  BY DEF Command
<1>3. \A g \in Udp : Making(g)' <=> Making(g)
  BY <1>1 DEF Making
<1>4. ~Making(f) /\ ~Expiring(f)
  BY <1>1, Expirings DEF Making, Expiring, TalkInv, MapsInv, ChannelInv
<1>5. WillHear(f, {"open", "read"})
  BY <1>1, <1>4 DEF TalkInv, UdpInv, Outlook
<1>6. \A s \in {"open", "read"} :
        Sensible(s, "close") /\ Hearing(s, "close") \in {"close", "late"}
  BY DEF Sensible, Hearing
<1>7. WillHear(f, {"close", "late"})' /\ Known(f)'
  BY <1>1, <1>2, <1>5, <1>6, ToldHears
<1>8. kind' = kind /\ \A g \in Fd : g # f => Untold(g)
  BY <1>1, <1>2, TellEffect
<1>9. Expiring(f)' /\ WillHear(f, Outlook(f))'
  BY <1>1, <1>7 DEF Outlook, Expiring
<1>10. ASSUME NEW g \in Udp, g # f PROVE WillHear(g, Outlook(g))'
  <2>1. Expiring(g)' <=> Expiring(g)
    BY <1>1, <1>10 DEF Expiring
  <2>2. WillHear(g, Outlook(g)) /\ Untold(g)
    BY <1>8, <1>10 DEF TalkInv, UdpInv, Udp
  <2>3. QED
    BY <1>1, <1>3, <2>1, <2>2, OutlookKept
<1>11. Udp' = Udp
  BY <1>8 DEF Udp
<1>12. Received'
  <2> SUFFICES ASSUME NEW m \in Loop, pc'[m] = "receive" PROVE Known(conv[m])'
    BY DEF Received
  <2>1. pc[m] = "receive" /\ Known(conv[m]) /\ conv'[m] = conv[m]
    BY <1>1 DEF TalkInv, UdpInv, Received
  <2>2. conv[m] \in Fd
    BY <2>1 DEF TalkInv, MapsInv, UdpTypes, InHand
  <2>3. CASE conv[m] = f
    BY <1>7, <2>1, <2>3 DEF Known
  <2>4. CASE conv[m] # f
    BY <1>8, <2>1, <2>2, <2>4 DEF Known, Untold
  <2>5. QED
    BY <2>3, <2>4
<1>13. QED
  BY <1>9, <1>10, <1>11, <1>12 DEF UdpInv

LEMMA RemoveTalks ==
  ASSUME MailTypes, TalkInv, NEW l \in Loop, NEW f \in Fd, Remove(l, f)
  PROVE  UdpInv'
<1>1. /\ UNCHANGED <<mailVars, conv>> /\ f \in Udp /\ f \in gone[l]
      /\ \A m \in Loop : pc'[m] \in {"insert", "receive"} \/ pc[m] \in {"insert", "receive"}
                           => pc'[m] = pc[m]
      /\ gone'[l] = gone[l] \ {f} /\ \A m \in Loop \ {l} : gone'[m] = gone[m]
      /\ udpMap'[f] = None /\ \A g \in Fd \ {f} : udpMap'[g] = udpMap[g]
  BY RemoveKeepsMaps DEF TalkInv
<1>2. udpMap[f] = l /\ l # None /\ \A m \in Loop : f \in gone[m] => m = l
  BY <1>1, Expirings DEF TalkInv
<1>3. Udp' = Udp /\ \A g \in Udp : Untold(g)
  BY <1>1 DEF mailVars, Udp, Untold
<1>4. \A g \in Udp : Making(g)' <=> Making(g)
  BY <1>1 DEF Making
<1>5. WillHear(f, Outlook(f))'
  <2>1. Expiring(f) /\ WillHear(f, Outlook(f))
    BY <1>1 DEF Expiring, TalkInv, UdpInv
  <2>2. ~Making(f)' /\ ~Expiring(f)'
    BY <1>1, <1>2, <1>4 DEF Making, Expiring, TalkInv, MapsInv, ChannelInv
  <2>3. Outlook(f) = {"close", "late"} /\ Outlook(f)' = {"unknown", "close", "late"}
    BY <1>1, <2>1, <2>2 DEF Outlook
  <2>4. WillHear(f, {"close", "late"}) /\ Untold(f)
    BY <1>1, <1>3, <2>1, <2>3
  <2>5. WillHear(f, {"close", "late"})'
    BY <2>4, UntoldKept
  <2>6. QED
    BY <2>3, <2>5 DEF WillHear
<1>6. ASSUME NEW g \in Udp, g # f PROVE WillHear(g, Outlook(g))'
  <2>1. Expiring(g)' <=> Expiring(g)
    BY <1>1, <1>6 DEF Expiring
  <2>2. WillHear(g, Outlook(g)) /\ udpMap'[g] = udpMap[g]
    BY <1>1, <1>6 DEF TalkInv, UdpInv, Udp
  <2>3. QED
    BY <1>3, <1>4, <2>1, <2>2, OutlookKept
<1>7. Received'
  BY <1>1 DEF TalkInv, UdpInv, Received, Known, mailVars
<1>8. QED
  BY <1>3, <1>5, <1>6, <1>7 DEF UdpInv

\* Whatever the UDP server does.
LEMMA UdpTalks ==
  ASSUME MailTypes, TalkInv, UdpNext
  PROVE  UdpInv'
<1> PICK l \in Loop : UdpStep(l) \/ \E f \in Fd : Arrive(l, f)
  BY DEF UdpNext
<1>1. ASSUME UNCHANGED <<mailVars, udpMap, gone>>,
             \A m \in Loop : pc'[m] \in {"insert", "receive"} \/ pc[m] \in {"insert", "receive"}
                               => pc'[m] = pc[m] /\ conv'[m] = conv[m]
      PROVE  UdpInv'
  <2>1. \A m \in Loop : pc'[m] = "receive" => Known(conv'[m])
    BY <1>1 DEF TalkInv, UdpInv, Received
  <2>2. QED
    BY <1>1, <2>1, SilentStep
<1>2. CASE \E f \in Fd : Arrive(l, f)
  BY <1>1, <1>2, ArriveKeepsMaps DEF TalkInv
<1>3. CASE Dequeue(l)
  BY <1>1, <1>3, DequeueKeepsMaps DEF TalkInv
<1>4. CASE \E f \in Fd : Erase(l, f)
  BY <1>1, <1>4, EraseKeepsMaps DEF TalkInv
<1>5. CASE \E f \in Fd : Expire(l, f)
  BY <1>5, ExpireTalks
<1>6. CASE \E f \in Fd : Remove(l, f)
  BY <1>6, RemoveTalks
<1>7. QED
  BY <1>2, <1>3, <1>4, <1>5, <1>6, LookupTalks, CreateTalks, InsertTalks, EnrollTalks,
     ReceiveTalks DEF UdpStep

\* Steps that leave the UDP server alone: they say nothing new of a
\* conversation, though the service may hear of one.
LEMMA OtherTalks ==
  ASSUME MapsInv, UdpInv, UNCHANGED udpVars, kind' = kind,
         \A f \in Udp : /\ Known(f) => Known(f)'
                        /\ \A S : WillHear(f, S) => WillHear(f, S)'
  PROVE  UdpInv'
<1>1. Udp' = Udp
  BY DEF Udp
<1>2. Received'
  <2> SUFFICES ASSUME NEW m \in Loop, pc'[m] = "receive" PROVE Known(conv[m])'
    BY DEF Received
  <2>1. pc[m] = "receive" /\ Known(conv[m]) /\ conv'[m] = conv[m]
    BY DEF UdpInv, Received, udpVars
  <2>2. conv[m] \in Udp
    BY <2>1 DEF MapsInv, UdpTypes, InHand, ChannelInv
  <2>3. QED
    BY <2>1, <2>2 DEF Known
<1>3. ASSUME NEW f \in Udp PROVE WillHear(f, Outlook(f))'
  <2>1. (Making(f)' <=> Making(f)) /\ (Expiring(f)' <=> Expiring(f)) /\ udpMap' = udpMap
    BY DEF Making, Expiring, udpVars
  <2>2. Outlook(f)' = Outlook(f)
    BY <2>1 DEF Outlook
  <2> PICK S : S = Outlook(f)
    OBVIOUS
  <2>3. WillHear(f, S)'
    BY DEF UdpInv
  <2>4. QED
    BY <2>2, <2>3 DEF WillHear
<1>4. QED
  BY <1>1, <1>2, <1>3 DEF UdpInv

-----------------------------------------------------------------------------
(***************************************************************************)
(* The servers together.                                                   *)
(***************************************************************************)
LEMMA BaseParts ==
  BaseInv <=> /\ MailTypes /\ ConnTypes /\ MapsInv
              /\ \A f \in Fd : ConnInv(f)
BY Types DEF BaseInv, MapsInv

LEMMA BasePartsNext ==
  BaseInv' <=> /\ MailTypes' /\ ConnTypes' /\ MapsInv'
               /\ \A f \in Fd : ConnInv(f)'
<1>1. TypeOK' <=> MailTypes' /\ ConnTypes' /\ UdpTypes'
  BY Types, PTL
<1>2. QED
  BY <1>1 DEF BaseInv, MapsInv

\* A server whose variables a step leaves alone.
LEMMA MapsStay ==
  ASSUME MapsInv, UNCHANGED udpVars, kind' = kind
  PROVE  MapsInv'
<1>1. UdpTypes' /\ OneChannel'
  BY DEF MapsInv, UdpTypes, InHand, OneChannel, udpVars
<1>2. ChannelInv'
  BY DEF MapsInv, ChannelInv, Udp, udpVars
<1>3. QED
  BY <1>1, <1>2 DEF MapsInv

LEMMA ConnStays ==
  ASSUME ConnTypes, UNCHANGED connVars, kind' = kind
  PROVE  ConnTypes' /\ \A f \in Fd : Unmoved(f)
BY DEF ConnTypes, Unmoved, connVars

\* What a step keeps.
Keeps == BaseInv' /\ kind' = kind /\ (UdpInv => UdpInv')

LEMMA ConnKeeps ==
  ASSUME BaseInv, ConnNext, UNCHANGED udpVars
  PROVE  Keeps
<1>1. MailTypes /\ ConnTypes /\ MapsInv /\ \A f \in Fd : ConnInv(f)
  BY BaseParts
<1> PICK f \in Fd : Moves(f)
  BY <1>1, ConnMoves
<1>2. /\ MailTypes' /\ ConnTypes' /\ kind' = kind /\ kind[f] # "udp" /\ ConnInv(f)'
      /\ \A g \in Fd : g # f => Untold(g) /\ Unmoved(g)
  BY DEF Moves
<1>3. MapsInv'
  BY <1>1, <1>2, MapsStay
<1>4. \A g \in Fd : ConnInv(g)'
  BY <1>1, <1>2, UnmovedKept
<1>5. UdpInv => UdpInv'
  <2> SUFFICES ASSUME UdpInv PROVE UdpInv'
    OBVIOUS
  <2>1. \A g \in Udp : Untold(g)
    BY <1>2 DEF Udp
  <2>2. QED
    BY <1>1, <1>2, <2>1, UntoldKept, OtherTalks
<1>6. QED
  BY <1>2, <1>3, <1>4, <1>5, BasePartsNext DEF Keeps

LEMMA UdpKeeps ==
  ASSUME BaseInv, UdpNext, UNCHANGED connVars
  PROVE  Keeps /\ stage' = stage
<1>1. MailTypes /\ ConnTypes /\ MapsInv /\ \A f \in Fd : ConnInv(f)
  BY BaseParts
<1>2. /\ MapsInv' /\ MailTypes' /\ stage' = stage /\ kind' = kind
      /\ \A g \in Fd \ Udp : Untold(g)
  BY <1>1, UdpKeepsMaps
<1>3. ConnTypes' /\ \A f \in Fd : Unmoved(f)
  BY <1>1, <1>2, ConnStays
<1>4. ASSUME NEW f \in Fd PROVE ConnInv(f)'
  <2>1. CASE f \notin Udp
    BY <1>1, <1>2, <1>3, <2>1, UnmovedKept
  <2>2. CASE f \in Udp
    <3>1. kind[f] = "udp" /\ kind'[f] = "udp"
      BY <1>2, <2>2 DEF Udp
    <3>2. ScriptKept(f)
      BY <1>1 DEF ConnInv
    <3>3. ScriptKept(f)'
      BY <1>2, <1>3, <3>2 DEF ScriptKept, Unmoved
    <3>4. ConnTold(f)' /\ ConnFound(f)'
      BY <3>1 DEF ConnTold, ConnFound
    <3>5. QED
      BY <3>1, <3>3, <3>4 DEF ConnInv
  <2>3. QED
    BY <2>1, <2>2
<1>5. UdpInv => UdpInv'
  BY <1>1, UdpTalks DEF TalkInv
<1>6. QED
  BY <1>2, <1>3, <1>4, <1>5, BasePartsNext DEF Keeps

LEMMA HandleKeeps ==
  ASSUME BaseInv, NEW f \in Fd, Handle(f), UNCHANGED <<connVars, udpVars>>
  PROVE  Keeps
<1>1. MailTypes /\ ConnTypes /\ MapsInv /\ \A g \in Fd : ConnInv(g)
  BY BaseParts
<1>2. /\ MailTypes' /\ kind' = kind
      /\ \A g \in Fd : g # f => Untold(g)
      /\ InOrder(f) => LastTold(f)' = LastTold(f) /\ InOrder(f)'
  BY <1>1, HandleEffect
<1>3. ConnTypes' /\ \A g \in Fd : Unmoved(g)
  BY <1>1, <1>2, ConnStays
<1>4. MapsInv'
  BY <1>1, <1>2, MapsStay
<1>5. \A g \in Fd : InOrder(g) => LastTold(g)' = LastTold(g) /\ InOrder(g)'
  BY <1>2, UntoldKept
<1>6. ASSUME NEW g \in Fd PROVE ConnInv(g)'
  <2>1. ConnInv(g) /\ Unmoved(g)
    BY <1>1, <1>3
  <2>2. ScriptKept(g)' /\ ConnTold(g)' /\ ConnFound(g)'
    BY <1>2, <1>5, <2>1 DEF Unmoved, ConnInv, ScriptKept, ConnTold, ConnFound
  <2>3. QED
    BY <1>2, <1>5, <2>1, <2>2 DEF ConnInv
<1>7. UdpInv => UdpInv'
  <2> SUFFICES ASSUME UdpInv PROVE UdpInv'
    OBVIOUS
  <2>1. ASSUME NEW g \in Udp
        PROVE  (Known(g) => Known(g)') /\ \A S : WillHear(g, S) => WillHear(g, S)'
    <3>1. CASE g = f
      BY <1>1, <3>1, HandledHears, HandledKnown
    <3>2. CASE g # f
      BY <1>2, <3>2, UntoldKept DEF Udp
    <3>3. QED
      BY <3>1, <3>2
  <2>2. QED
    BY <1>1, <1>2, <2>1, OtherTalks
<1>8. QED
  BY <1>2, <1>3, <1>4, <1>6, <1>7, BasePartsNext DEF Keeps

LEMMA StutterKeeps ==
  ASSUME BaseInv, UNCHANGED vars
  PROVE  Keeps
<1>1. MailTypes /\ ConnTypes /\ MapsInv /\ \A g \in Fd : ConnInv(g)
  BY BaseParts
<1>2. UNCHANGED mailVars /\ UNCHANGED connVars /\ UNCHANGED udpVars /\ kind' = kind
  BY DEF vars, mailVars
<1>3. MailTypes' /\ \A g \in Fd : Untold(g)
  BY <1>1, <1>2 DEF MailTypes, mailVars, Untold
<1>4. ConnTypes' /\ \A g \in Fd : Unmoved(g)
  BY <1>1, <1>2, ConnStays
<1>5. MapsInv'
  BY <1>1, <1>2, MapsStay
<1>6. \A g \in Fd : ConnInv(g)'
  BY <1>1, <1>3, <1>4, UnmovedKept
<1>7. UdpInv => UdpInv'
  BY <1>1, <1>2, <1>3, UntoldKept, OtherTalks DEF Udp
<1>8. QED
  BY <1>2, <1>3, <1>4, <1>5, <1>6, <1>7, BasePartsNext DEF Keeps

LEMMA StepKeeps ==
  ASSUME BaseInv, [Next]_vars
  PROVE  Keeps
BY ConnKeeps, UdpKeeps, HandleKeeps, StutterKeeps DEF Next

\* No peer has come, and nothing is in any map.
LEMMA Beginning ==
  ASSUME Init
  PROVE  BaseInv /\ UdpInv
<1>1. /\ kind \in [Fd -> {"tcp", "websocket", "http", "udp"}]
      /\ mail = [f \in Fd |-> <<>>] /\ stage = [f \in Fd |-> "unknown"]
      /\ at = [f \in Fd |-> 0] /\ link = [f \in Fd |-> "none"]
      /\ connMap = {} /\ answers = [f \in Fd |-> 0]
  BY DEF Init, MailInit, ConnInit
<1>2. /\ pc = [l \in Loop |-> "idle"] /\ conv = [l \in Loop |-> None]
      /\ inbox = [l \in Loop |-> <<>>] /\ lock = None /\ packets = 0
      /\ udpMap = [f \in Fd |-> None] /\ loopMap = [l \in Loop |-> {}]
      /\ gone = [l \in Loop |-> {}]
  BY DEF Init, UdpInit
<1>3. /\ MaxPacket \in Nat /\ None \notin Loop
  BY UdpAssumption
<1>4. MailTypes /\ ConnTypes
  BY <1>1 DEF MailTypes, ConnTypes, Command, Stage
<1>5. UdpTypes
  BY <1>2, <1>3 DEF UdpTypes, InHand, LoopPc
<1>6. \A l \in Loop : Len(inbox[l]) = 0
  BY <1>2
<1>7. OneChannel /\ ChannelInv
  BY <1>2, <1>3, <1>6 DEF OneChannel, ChannelInv
<1>0. "unknown" \in Stage
  BY DEF Stage
<1>8. ASSUME NEW f \in Fd
      PROVE  LastTold(f) = "unknown" /\ InOrder(f) /\ ConnInv(f)
  <2>1. mail[f] = <<>> /\ stage[f] = "unknown" /\ Len(mail[f]) = 0
    BY <1>1
  <2>2. LastTold(f) = "unknown" /\ InOrder(f)
    BY <2>1 DEF LastTold, InOrder
  <2>3. at[f] = 0 /\ link[f] = "none" /\ connMap = {} /\ answers[f] = 0
    BY <1>1
  <2>4. QED
    BY <2>2, <2>3 DEF ConnInv, ScriptKept, ConnTold, ConnFound
<1>9. BaseInv
  BY <1>4, <1>5, <1>7, <1>8, BaseParts DEF MapsInv
<1>10. \A f \in Fd : ~Making(f) /\ ~Expiring(f) /\ udpMap[f] = None
  BY <1>2 DEF Making, Expiring
<1>11. ASSUME NEW f \in Fd PROVE WillHear(f, Outlook(f))
  <2>1. Outlook(f) = {"unknown", "close", "late"}
    BY <1>10 DEF Outlook
  <2>2. mail[f] = <<>> /\ stage[f] = "unknown" /\ Len(mail[f]) = 0
    BY <1>1
  <2> DEFINE p == [i \in 0..0 |-> "unknown"]
  <2>3. p \in [0..0 -> Stage] /\ p[0] = "unknown"
    BY <1>0
  <2> HIDE DEF p
  <2>4. Course(mail[f], stage[f], p)
    BY <2>2, <2>3 DEF Course
  <2>5. QED
    BY <2>1, <2>2, <2>3, <2>4 DEF WillHear
<1>13. Received
  BY <1>2 DEF Received
<1>12. QED
  BY <1>9, <1>11, <1>13 DEF UdpInv, Udp

\* How far the callbacks of a connection have come, the maps, and what the loops
\* have in hand determine what the service will have heard and where a peer is
\* found, whatever order the callbacks, the packets and the timers come in.
THEOREM GatewayInvariant == Spec => []GateInv
<1>1. Init => GateInv
  BY Beginning DEF GateInv
<1>2. GateInv /\ [Next]_vars => GateInv'
  BY StepKeeps DEF Keeps, GateInv
<1>3. QED
  BY <1>1, <1>2, PTL DEF Spec

\* Type correctness of the servers: who holds m_createLock is inserting, a loop
\* has a packet in hand only in its message callback, and channels to remove only
\* in its timer.
THEOREM GatewayTypes == Spec => []TypeOK
<1>1. GateInv => TypeOK
  BY DEF GateInv, BaseInv
<1>2. QED
  BY <1>1, GatewayInvariant, PTL

\* getOrCreateChannel makes one channel for a conversation however its first
\* packets race with each other and with the timer, and the map of all channels
\* and the map of the loop agree on who owns it, but for the channel that the
\* loop is inserting or removing.
THEOREM OneChannelEach == Spec => []OneChannel
<1>1. GateInv => OneChannel
  BY DEF GateInv, BaseInv
<1>2. QED
  BY <1>1, GatewayInvariant, PTL

-----------------------------------------------------------------------------
(***************************************************************************)
(* A service finds the peers that it has heard of.                         *)
(***************************************************************************)
Reached(f) ==
  /\ kind[f] = "tcp" /\ Alive(f) /\ stage[f] # "unknown" => f \in connMap
  /\ kind[f] = "websocket" /\ Alive(f) /\ stage[f] = "read" => f \in connMap
  /\ kind[f] = "http" /\ stage[f] # "unknown" => (f \in connMap <=> answers[f] = 0)
  /\ kind[f] # "http" /\ Doing(f) = "done" => f \notin connMap

LEMMA ConnReached ==
  ASSUME BaseInv, NEW f \in Fd
  PROVE  Reached(f)
<1>1. MailTypes /\ ConnTypes /\ ConnInv(f)
  BY BaseParts
<1>2. ScriptKept(f) /\ ConnTold(f) /\ ConnFound(f) /\ at[f] \in 0..6
  BY <1>1 DEF ConnInv, ConnTypes
<1>3. kind[f] # "udp" =>
        /\ LastTold(f) = "unknown" => stage[f] = "unknown"
        /\ LastTold(f) = "open" => stage[f] \in {"unknown", "open"}
  BY <1>1, EarlyMail DEF ConnInv
<1>4. kind[f] = "tcp" /\ Alive(f) /\ stage[f] # "unknown" => f \in connMap
  BY <1>2, <1>3 DEF Alive, ConnTold, ConnFound
<1>5. kind[f] = "websocket" /\ Alive(f) /\ stage[f] = "read" => f \in connMap
  BY <1>2, <1>3 DEF Alive, ConnTold, ConnFound
<1>6. kind[f] = "http" /\ stage[f] # "unknown" => (f \in connMap <=> answers[f] = 0)
  BY <1>2, <1>3 DEF ConnTold, ConnFound
<1>7. ASSUME kind[f] # "http", Doing(f) = "done" PROVE f \notin connMap
  <2>1. at[f] = 6
    BY <1>1, <1>2, <1>7, Scripts
  <2>2. kind[f] \in {"tcp", "websocket"}
    BY <1>1, <1>2, <1>7, <2>1 DEF ScriptKept, MailTypes
  <2>3. QED
    BY <1>2, <2>1, <2>2 DEF ConnFound
<1>8. QED
  BY <1>4, <1>5, <1>6, <1>7 DEF Reached

LEMMA Found ==
  ASSUME GateInv
  PROVE  MapsFollowPeers
<1>1. BaseInv /\ UdpInv /\ MailTypes
  BY BaseParts DEF GateInv
<1> SUFFICES ASSUME NEW f \in Fd
             PROVE  /\ Reached(f)
                    /\ kind[f] = "udp" /\ mail[f] = <<>> =>
                         IF stage[f] \in {"open", "read"}
                           THEN udpMap[f] # None \/ Making(f)
                           ELSE udpMap[f] = None \/ Expiring(f)
  BY DEF MapsFollowPeers, Reached, Making, Expiring
<1>2. Reached(f)
  BY <1>1, ConnReached
<1>3. ASSUME kind[f] = "udp", mail[f] = <<>>
      PROVE  IF stage[f] \in {"open", "read"}
               THEN udpMap[f] # None \/ Making(f)
               ELSE udpMap[f] = None \/ Expiring(f)
  <2> PICK S : S = Outlook(f)
    OBVIOUS
  <2>1. WillHear(f, S)
    BY <1>1, <1>3 DEF UdpInv, Udp
  <2>2. stage[f] \in S
    BY <1>1, <1>3, <2>1, HeardKnown
  <2>3. CASE stage[f] \in {"open", "read"}
    BY <2>2, <2>3 DEF Outlook
  <2>4. CASE stage[f] \notin {"open", "read"}
    <3>1. Expiring(f) \/ ~(Making(f) \/ udpMap[f] # None)
      BY <2>2, <2>4 DEF Outlook
    <3>2. QED
      BY <2>4, <3>1
  <2>5. QED
    BY <2>3, <2>4
<1>4. QED
  BY <1>2, <1>3

\* The service reaches a TCP or HTTP peer from the opening on and a WebSocket peer
\* from its first message on, while it is there, and a connection that has ended
\* is in no map of MFConnectionManager.  A UDP conversation has a channel in the
\* map of all channels from its opening, but while that is made, to its closing,
\* but while it is removed.
THEOREM MapsFollow == Spec => []MapsFollowPeers
<1>1. GateInv => MapsFollowPeers
  BY Found
<1>2. QED
  BY <1>1, GatewayInvariant, PTL

-----------------------------------------------------------------------------
(***************************************************************************)
(* The servers implement what MFPeer promises to the service.              *)
(***************************************************************************)
\* The service hears of a peer what MFPeer lets it hear next.
LEMMA HandleHears ==
  ASSUME GateInv, NEW f \in Fd, Handle(f), UNCHANGED connVars
  PROVE  Peer!Next
<1>1. MailTypes /\ (f \notin Udp => InOrder(f)) /\ (f \in Udp => WillHear(f, Outlook(f)))
  BY BaseParts DEF GateInv, ConnInv, UdpInv, Udp
<1> PICK cmd \in Command : cmd = Head(mail[f])
  <2>1. mail[f] \in Seq(Command) /\ mail[f] # <<>>
    BY <1>1 DEF MailTypes, Handle
  <2>2. Head(mail[f]) \in Command
    BY <2>1
  <2>3. QED
    BY <2>2
<1>2. /\ stage' = [stage EXCEPT ![f] = Hearing(stage[f], cmd)]
      /\ kind' = kind /\ answers' = answers
  BY DEF Handle, connVars
<1>3. CASE f \in Udp
  <2> PICK S : S = Outlook(f)
    OBVIOUS
  <2>1. Sensible(stage[f], cmd)
    BY <1>1, <1>3, HandledHears
  <2>2. kind'[f] = "udp" /\ kind[f] = "udp" /\ stage[f] \in Stage
    BY <1>1, <1>2, <1>3 DEF Udp, MailTypes
  <2>3. CASE cmd = "open"
    <3>1. Peer!Open(f)
      BY <1>2, <2>1, <2>2, <2>3 DEF Sensible, Hearing, Peer!Open, Peer!Hear
    <3>2. QED
      BY <3>1 DEF Peer!Next
  <2>4. CASE cmd = "close"
    <3>1. Peer!Close(f)
      BY <1>2, <2>1, <2>2, <2>4 DEF Sensible, Hearing, Peer!Close, Peer!Hear
    <3>2. QED
      BY <3>1 DEF Peer!Next
  <2>5. CASE cmd = "read" /\ stage[f] \in {"open", "read"}
    <3>1. Peer!Read(f)
      BY <1>2, <2>2, <2>5 DEF Hearing, Peer!Read, Peer!Hear
    <3>2. QED
      BY <3>1 DEF Peer!Next
  <2>6. CASE cmd = "read" /\ stage[f] \in {"close", "late"}
    <3>1. Peer!Late(f)
      BY <1>2, <2>2, <2>6 DEF Hearing, Peer!Late, Peer!Hear
    <3>2. QED
      BY <3>1 DEF Peer!Next
  <2>7. QED
    BY <2>1, <2>2, <2>3, <2>4, <2>5, <2>6 DEF Command, Stage, Sensible
<1>4. CASE f \notin Udp
  <2>1. Follows(stage[f], stage'[f])
    BY <1>1, <1>4, HandleEffect
  <2>2. stage' = [stage EXCEPT ![f] = stage'[f]]
    BY <1>1, <1>2 DEF MailTypes
  <2>3. CASE stage'[f] = "open"
    <3>1. Peer!Open(f)
      BY <1>2, <2>1, <2>2, <2>3 DEF Follows, Peer!Open, Peer!Hear
    <3>2. QED
      BY <3>1 DEF Peer!Next
  <2>4. CASE stage'[f] = "read"
    <3>1. Peer!Read(f)
      BY <1>2, <2>1, <2>2, <2>4 DEF Follows, Peer!Read, Peer!Hear
    <3>2. QED
      BY <3>1 DEF Peer!Next
  <2>5. CASE stage'[f] = "close"
    <3>1. Peer!Close(f)
      BY <1>2, <2>1, <2>2, <2>5 DEF Follows, Peer!Close, Peer!Hear
    <3>2. QED
      BY <3>1 DEF Peer!Next
  <2>6. QED
    BY <2>1, <2>3, <2>4, <2>5 DEF Follows
<1>5. QED
  BY <1>3, <1>4

\* Of the steps of the connections only an answer can be heard of.
LEMMA ConnHears ==
  ASSUME BaseInv, ConnNext
  PROVE  /\ kind' = kind /\ stage' = stage
         /\ Peer!Next \/ answers' = answers
<1>1. MailTypes /\ ConnTypes /\ \A f \in Fd : ConnInv(f)
  BY BaseParts
<1> PICK f \in Fd : LoopStep(f) \/ Read(f) \/ Break(f) \/ ForceClose(f) \/ Respond(f)
  BY DEF ConnNext
<1>2. CASE Respond(f)
  <2>1. /\ Moves(f) /\ stage[f] = "open" /\ answers[f] = 0
        /\ answers' = [answers EXCEPT ![f] = 1]
    BY <1>1, <1>2, RespondMoves
  <2>2. kind' = kind /\ stage' = stage
    BY <1>2 DEF Respond, mailVars
  <2>3. Peer!Answer(f)
    BY <2>1, <2>2 DEF Peer!Answer
  <2>4. QED
    BY <2>2, <2>3 DEF Peer!Next
<1>3. CASE Accept(f) \/ Disconnected(f) \/ Break(f) \/ ForceClose(f)
  BY <1>3 DEF Accept, Disconnected, Break, ForceClose, mailVars
<1>4. CASE Step(f)
  BY <1>4 DEF Step, Tell, mailVars
<1>5. CASE Read(f)
  BY <1>5 DEF Read, Tell, connVars
<1>6. QED
  BY <1>2, <1>3, <1>4, <1>5 DEF LoopStep

\* Of every peer the service hears the opening first, then what it sends, and the
\* closing once, which is the last of a connection; only a UDP conversation comes
\* back, and only after its closing, and only its messages may be heard late; no
\* HTTP request is answered twice.
THEOREM PeersImplemented == Spec => ImplementsPeer
<1>1. Init => Peer!Init
  BY DEF Init, MailInit, ConnInit, Peer!Init
<1>2. GateInv /\ [Next]_vars => [Peer!Next]_(Peer!peerVars)
  <2> SUFFICES ASSUME GateInv, [Next]_vars
               PROVE  Peer!Next \/ UNCHANGED Peer!peerVars
    OBVIOUS
  <2>1. BaseInv
    BY DEF GateInv
  <2>2. ASSUME kind' = kind, UNCHANGED <<stage, answers>>
        PROVE  UNCHANGED Peer!peerVars
    BY <2>2 DEF Peer!peerVars
  <2>3. CASE ConnNext
    BY <2>1, <2>2, <2>3, ConnHears
  <2>4. CASE UdpNext /\ UNCHANGED connVars
    <3>1. kind' = kind /\ UNCHANGED <<stage, answers>>
      BY <2>1, <2>4, UdpKeeps DEF Keeps, connVars
    <3>2. QED
      BY <2>2, <3>1
  <2>5. CASE \E f \in Fd : Handle(f) /\ UNCHANGED <<connVars, udpVars>>
    BY <2>5, HandleHears
  <2>6. CASE UNCHANGED vars
    <3>1. kind' = kind /\ UNCHANGED <<stage, answers>>
      BY <2>6 DEF vars, mailVars, connVars
    <3>2. QED
      BY <2>2, <3>1
  <2>7. QED
    BY <2>3, <2>4, <2>5, <2>6 DEF Next
<1>3. Spec => []GateInv
  BY GatewayInvariant
<1>4. QED
  BY <1>1, <1>2, <1>3, PTL DEF Spec, ImplementsPeer, Peer!Spec
=============================================================================
