-------------------------- MODULE MqttClientProofs --------------------------
(***************************************************************************)
(* Proofs about MqttClient for any interval and timeout that fit together, *)
(* any number of publishes and failures: types, that an acknowledged       *)
(* publish was received, that the client implements Session, and, while    *)
(* the main task yields, that a dead link is seen and an outstanding ping  *)
(* gets its time.                                                          *)
(***************************************************************************)
EXTENDS MqttClient, SequenceTheorems, TLAPS

\* No packet of a type in a pipe, and at most one.
None(s, t) == \A i \in 1..Len(s) : s[i].type # t
One(s, t)  == \A i, j \in 1..Len(s) : s[i].type = t /\ s[j].type = t => i = j

\* No packet of a type is at most one.
LEMMA NoneIsOne == \A s, t : None(s, t) => One(s, t)
  BY DEF None, One

\* Nothing is under way in an empty pipe.
LEMMA EmptyPipe == ASSUME NEW S PROVE <<>> \in Seq(S) /\ \A t : None(<<>>, t)
  BY DEF None

\* What is left of a pipe when its first packet has been taken.
LEMMA TakeFirst ==
  ASSUME NEW S, NEW s \in Seq(S), s # <<>>, NEW t
  PROVE  /\ Head(s) \in S /\ Tail(s) \in Seq(S)
         /\ None(s, t) => None(Tail(s), t) /\ Head(s).type # t
         /\ One(s, t) => One(Tail(s), t)
         /\ One(s, t) /\ Head(s).type = t => None(Tail(s), t)
<1>1. Len(s) \in Nat \ {0}
  BY EmptySeq, Zenon
<1>2. /\ Head(s) \in S /\ Tail(s) \in Seq(S) /\ Len(Tail(s)) = Len(s) - 1
      /\ \A i \in 1..Len(Tail(s)) : Tail(s)[i] = s[i + 1]
  BY HeadTailProperties
<1>3. Head(s) = s[1] /\ 1 \in 1..Len(s)
  BY <1>1
<1>4. \A i \in 1..Len(Tail(s)) : i \in Nat \ {0} /\ i + 1 \in 1..Len(s)
  BY <1>1, <1>2
<1>5. None(s, t) => None(Tail(s), t) /\ Head(s).type # t
  BY <1>2, <1>3, <1>4 DEF None
<1>6. One(s, t) => One(Tail(s), t)
  BY <1>2, <1>4 DEF One
<1>7. One(s, t) /\ Head(s).type = t => None(Tail(s), t)
  BY <1>2, <1>3, <1>4 DEF None, One
<1> QED BY <1>2, <1>5, <1>6, <1>7

\* What a pipe is when a packet has been put into it.
LEMMA PutLast ==
  ASSUME NEW S, NEW s \in Seq(S), NEW e \in S, NEW t
  PROVE  /\ Append(s, e) \in Seq(S)
         /\ None(s, t) /\ e.type # t => None(Append(s, e), t)
         /\ One(s, t) /\ e.type # t => One(Append(s, e), t)
         /\ None(s, t) => One(Append(s, e), t)
<1>1. /\ Append(s, e) \in Seq(S) /\ Len(Append(s, e)) = Len(s) + 1
      /\ \A i \in 1..Len(s) : Append(s, e)[i] = s[i]
      /\ Append(s, e)[Len(s) + 1] = e
  BY AppendProperties
<1>2. Len(s) \in Nat
  BY LenProperties
<1>3. \A i \in 1..Len(Append(s, e)) : i \in 1..Len(s) \/ i = Len(s) + 1
  BY <1>1, <1>2
<1> QED BY <1>1, <1>3 DEF None, One
-----------------------------------------------------------------------------
\* The limits, as the division leaves them.
LEMMA Limits ==
  /\ KeepAlive \in Nat /\ SentLimit \in Nat /\ CmdTimeout \in Nat
  /\ SentLimit + 1 + CmdTimeout <= KeepAlive
  /\ KeepAlive <= 2 * SentLimit + 1
  /\ CmdTimeout <= SentLimit
<1>1. SentLimit \in Nat /\ KeepAlive <= 2 * SentLimit + 1
  BY MqttAssumption DEF SentLimit
<1> QED BY <1>1, MqttAssumption

\* Packets have their types.
LEMMA PacketTypes ==
  /\ Packet("CONNECT", 0) \in ServerPackets /\ Packet("SUBSCRIBE", 0) \in ServerPackets
  /\ Packet("PINGREQ", 0) \in ServerPackets /\ Packet("MSG", 0) \in ClientPackets
  /\ \A n \in 0..MaxPubs : Packet("PUBLISH", n) \in ServerPackets
  /\ \A p \in ServerPackets : Reply(p) \in ClientPackets
  BY MqttAssumption DEF Packet, ServerPackets, ClientPackets, Reply

\* A cycle keeps the types of what it sets.
LEMMA KeptAliveType ==
  ASSUME TypeOK, NEW type, KeptAlive(type)
  PROVE  /\ ping' \in BOOLEAN /\ sentAge' \in Nat /\ recvAge' \in Nat /\ pingAge' \in Nat
         /\ toServer' \in Seq(ServerPackets)
<1>1. Append(toServer, Packet("PINGREQ", 0)) \in Seq(ServerPackets)
  BY PacketTypes, PutLast DEF TypeOK
<1>2. RecvAfter(type) \in Nat /\ PingAfter(type) \in BOOLEAN
  BY DEF TypeOK, RecvAfter, PingAfter
<1>3. CASE PingSent(type)
  BY <1>1, <1>2, <1>3 DEF TypeOK, PingSent
<1>4. CASE ~PingSent(type)
  BY <1>2, <1>4 DEF TypeOK, KeptAlive
<1> QED BY <1>3, <1>4

\* The types hold before the first connection.
LEMMA TypeInit == Init => TypeOK
<1> SUFFICES ASSUME Init PROVE TypeOK
  OBVIOUS
<1>1. toServer \in Seq(ServerPackets) /\ toClient \in Seq(ClientPackets)
  BY EmptyPipe DEF Init
<1>2. pubs \in 0..MaxPubs /\ faults \in 0..MaxFaults
  BY MqttAssumption DEF Init
<1> QED BY <1>1, <1>2 DEF Init, TypeOK, Commands

\* Every step keeps the types, and a session its socket.
LEMMA TypeStep == TypeOK /\ [Next]_vars => TypeOK'
<1> SUFFICES ASSUME TypeOK, [Next]_vars PROVE TypeOK'
  OBVIOUS
<1> USE MqttAssumption DEF TypeOK, Commands, ages, net, hist, Fault, Fails, MQTTCloseSession, Send
<1>1. CASE ty_mqtt_connect
  <2>1. <<Packet("CONNECT", 0)>> \in Seq(ServerPackets) /\ <<>> \in Seq(ClientPackets)
    BY PacketTypes, EmptyPipe
  <2> QED BY <1>1, <2>1 DEF ty_mqtt_connect
<1>2. CASE MQTTSubscribe
  <2>1. toServer' \in Seq(ServerPackets)
    BY <1>2, PacketTypes, PutLast DEF MQTTSubscribe
  <2> QED BY <1>2, <2>1 DEF MQTTSubscribe
<1>3. CASE MQTTPublish
  <2>1. pubs + 1 \in 0..MaxPubs
    BY <1>3 DEF MQTTPublish
  <2>2. toServer' \in Seq(ServerPackets)
    BY <1>3, <2>1, PacketTypes, PutLast DEF MQTTPublish
  <2> QED BY <1>3, <2>1, <2>2 DEF MQTTPublish
<1>4. CASE WaitforTimeout BY <1>4 DEF WaitforTimeout, TimeoutWith
<1>5. CASE SocketError
  <2>1. faults' \in 0..MaxFaults
    BY <1>5 DEF SocketError
  <2>2. open' \in BOOLEAN /\ conn' \in BOOLEAN /\ ping' \in BOOLEAN /\ cmd' = "none" /\ ~conn'
    BY <1>5 DEF SocketError
  <2> QED BY <1>5, <2>1, <2>2 DEF SocketError
<1>6. CASE ty_mqtt_close BY <1>6, EmptyPipe DEF ty_mqtt_close, CloseAfter
<1>7. CASE Read
  <2>1. toClient' \in Seq(ClientPackets)
    BY <1>7, TakeFirst DEF Read
  <2>2. /\ ping' \in BOOLEAN /\ sentAge' \in Nat /\ recvAge' \in Nat /\ pingAge' \in Nat
        /\ toServer' \in Seq(ServerPackets)
    BY <1>7, KeptAliveType DEF Read
  <2> QED BY <1>7, <2>1, <2>2 DEF Read
<1>8. CASE ReadNothing
  <2>1. /\ ping' \in BOOLEAN /\ sentAge' \in Nat /\ recvAge' \in Nat /\ pingAge' \in Nat
        /\ toServer' \in Seq(ServerPackets)
    BY <1>8, KeptAliveType DEF ReadNothing
  <2>2. polled' \in BOOLEAN
    <3>1. CASE cmd = "none" BY <1>8, <3>1 DEF ReadNothing
    <3>2. CASE cmd # "none"
      <4>1. polled' = polled BY <1>8, <3>2 DEF ReadNothing
      <4> QED BY <4>1
    <3> QED BY <3>1, <3>2
  <2>3. UNCHANGED <<open, conn, cmd, cmdAge, alive, toClient, pubs, acked, received, faults>>
    BY <1>8 DEF ReadNothing
  <2> QED BY <2>1, <2>2, <2>3
<1>9. CASE KeepaliveFailed
  <2>1. toClient' \in Seq(ClientPackets)
    <3>1. toClient' = toClient \/ (toClient # <<>> /\ toClient' = Tail(toClient))
      BY <1>9 DEF KeepaliveFailed
    <3> QED BY <3>1, TakeFirst
  <2> QED BY <1>9, <2>1 DEF KeepaliveFailed
<1>10. CASE Server
  <2>1. Head(toServer) \in ServerPackets /\ toServer' \in Seq(ServerPackets)
    BY <1>10, TakeFirst DEF Server
  <2>2. toClient' \in Seq(ClientPackets)
    BY <1>10, <2>1, PacketTypes, PutLast DEF Server
  <2>3. received' \subseteq 0..MaxPubs
    BY <1>10, <2>1 DEF Server, ServerPackets
  <2> QED BY <1>10, <2>1, <2>2, <2>3 DEF Server
<1>11. CASE CloudMessage
  <2>1. toClient' \in Seq(ClientPackets)
    BY <1>11, PacketTypes, PutLast DEF CloudMessage
  <2> QED BY <1>11, <2>1 DEF CloudMessage
<1>12. CASE LinkDies
  <2>1. faults' \in 0..MaxFaults
    BY <1>12 DEF LinkDies
  <2> QED BY <1>12, <2>1 DEF LinkDies
<1>13. CASE Tick
  <2>1. cmdAge' \in Nat /\ sentAge' \in Nat /\ recvAge' \in Nat /\ pingAge' \in Nat
    BY <1>13 DEF Tick
  <2>2. polled' \in BOOLEAN
    BY <1>13 DEF Tick
  <2> QED BY <1>13, <2>1, <2>2, Zenon DEF Tick
<1>14. CASE UNCHANGED vars BY <1>14 DEF vars
<1> QED
  BY <1>1, <1>2, <1>3, <1>4, <1>5, <1>6, <1>7, <1>8, <1>9, <1>10, <1>11, <1>12,
     <1>13, <1>14 DEF Next
-----------------------------------------------------------------------------
(* An acknowledged publish was received.                                   *)

\* The one publish that waits is on its way out, or its acknowledgement on its
\* way back, or both are lost; otherwise there is neither in the pipes.
Flight ==
  /\ cmd = "connect" => ~conn
  /\ conn \/ cmd = "connect" =>
       IF cmd = "pub"
       THEN /\ One(toServer, "PUBLISH") /\ One(toClient, "PUBACK")
            /\ None(toServer, "PUBLISH") \/ None(toClient, "PUBACK")
            /\ \A i \in 1..Len(toServer) :
                 toServer[i].type = "PUBLISH" => toServer[i].id = pubs
            /\ None(toClient, "PUBACK") \/ pubs \in received
       ELSE None(toServer, "PUBLISH") /\ None(toClient, "PUBACK")

\* The end of a session or of a command that closes it leaves nothing to say.
LEMMA FlightOver == ~conn' /\ cmd' = "none" => Flight'
  BY DEF Flight

\* What a cycle may send is a ping.
LEMMA KeptAliveSends ==
  ASSUME TypeOK, NEW type, KeptAlive(type)
  PROVE  /\ None(toServer, "PUBLISH") => None(toServer', "PUBLISH")
         /\ One(toServer, "PUBLISH") => One(toServer', "PUBLISH")
         /\ (\A i \in 1..Len(toServer) :
               toServer[i].type = "PUBLISH" => toServer[i].id = pubs)
            => \A i \in 1..Len(toServer') :
                 toServer'[i].type = "PUBLISH" => toServer'[i].id = pubs
<1>1. CASE toServer' = toServer
  BY <1>1
<1>2. CASE toServer' = Append(toServer, Packet("PINGREQ", 0))
  <2>1. toServer \in Seq(ServerPackets) /\ Packet("PINGREQ", 0) \in ServerPackets
    BY PacketTypes DEF TypeOK
  <2>2. Packet("PINGREQ", 0).type # "PUBLISH"
    BY DEF Packet
  <2>3. \A i \in 1..Len(toServer') :
          \/ i \in 1..Len(toServer) /\ toServer'[i] = toServer[i]
          \/ toServer'[i] = Packet("PINGREQ", 0)
    BY <1>2, <2>1, AppendProperties, LenProperties
  <2> QED BY <1>2, <2>1, <2>2, <2>3, PutLast
<1> QED BY <1>1, <1>2 DEF KeptAlive, PingSent

\* Every step keeps the one publish apart from its predecessors.
LEMMA FlightStep == TypeOK /\ Flight /\ [Next]_vars => Flight'
<1> SUFFICES ASSUME TypeOK, Flight, [Next]_vars PROVE Flight'
  OBVIOUS
<1>0. toServer \in Seq(ServerPackets) /\ toClient \in Seq(ClientPackets)
  BY DEF TypeOK
<1>1. CASE ty_mqtt_connect
  <2>1. None(<<Packet("CONNECT", 0)>>, "PUBLISH") /\ None(<<>>, "PUBACK")
    BY DEF None, Packet
  <2> QED BY <1>1, <2>1 DEF ty_mqtt_connect, Send, Flight
<1>2. CASE MQTTSubscribe
  <2>1. Packet("SUBSCRIBE", 0) \in ServerPackets /\ Packet("SUBSCRIBE", 0).type # "PUBLISH"
    BY PacketTypes DEF Packet
  <2>2. None(toServer', "PUBLISH") /\ None(toClient', "PUBACK")
    BY <1>0, <1>2, <2>1, PutLast DEF MQTTSubscribe, Flight
  <2> QED BY <1>2, <2>2 DEF MQTTSubscribe, Send, Flight
<1>3. CASE MQTTPublish
  <2>1. None(toServer, "PUBLISH") /\ None(toClient, "PUBACK")
    BY <1>3 DEF MQTTPublish, Flight
  <2>2. pubs + 1 \in 0..MaxPubs
    BY <1>3, MqttAssumption DEF MQTTPublish, TypeOK
  <2>3. Packet("PUBLISH", pubs + 1) \in ServerPackets /\ Packet("PUBLISH", pubs + 1).id = pubs + 1
    BY <2>2, PacketTypes DEF Packet
  <2>4. One(toServer', "PUBLISH")
    BY <1>0, <1>3, <2>1, <2>3, PutLast DEF MQTTPublish
  <2>5. \A i \in 1..Len(toServer') :
          \/ i \in 1..Len(toServer) /\ toServer'[i] = toServer[i]
          \/ toServer'[i] = Packet("PUBLISH", pubs + 1)
    BY <1>0, <1>3, <2>3, AppendProperties, LenProperties DEF MQTTPublish
  <2>6. None(toClient', "PUBACK") /\ pubs' = pubs + 1 /\ cmd' = "pub" /\ conn'
    BY <1>3, <2>1 DEF MQTTPublish, Send
  <2>7. \A i \in 1..Len(toServer') : toServer'[i].type = "PUBLISH" => toServer'[i].id = pubs'
    BY <2>1, <2>3, <2>5, <2>6 DEF None
  <2> QED BY <2>4, <2>6, <2>7, NoneIsOne DEF Flight
<1>4. CASE WaitforTimeout \/ SocketError \/ KeepaliveFailed
  BY <1>4, FlightOver DEF WaitforTimeout, TimeoutWith, SocketError, KeepaliveFailed, Fails, MQTTCloseSession
<1>5. CASE ty_mqtt_close
  BY <1>5, FlightOver DEF ty_mqtt_close, CloseAfter, MQTTCloseSession
<1>6. CASE Read
  <2>1. /\ None(toClient, "PUBACK") => None(toClient', "PUBACK") /\ Head(toClient).type # "PUBACK"
        /\ One(toClient, "PUBACK") => One(toClient', "PUBACK")
        /\ One(toClient, "PUBACK") /\ Head(toClient).type = "PUBACK" => None(toClient', "PUBACK")
    BY <1>0, <1>6, TakeFirst DEF Read
  <2>2. /\ None(toServer, "PUBLISH") => None(toServer', "PUBLISH")
        /\ One(toServer, "PUBLISH") => One(toServer', "PUBLISH")
        /\ (\A i \in 1..Len(toServer) :
               toServer[i].type = "PUBLISH" => toServer[i].id = pubs)
            => \A i \in 1..Len(toServer') :
                 toServer'[i].type = "PUBLISH" => toServer'[i].id = pubs
    BY <1>6, KeptAliveSends DEF Read
  <2>3. received' = received /\ pubs' = pubs /\ (conn \/ cmd = "connect")
    BY <1>6 DEF Read
  <2>4. CASE cmd = "pub" /\ cmd' = "none"
    <3>1. Head(toClient).type = "PUBACK"
      BY <1>6, <2>4 DEF Read, Answer
    <3>2. None(toClient', "PUBACK") /\ None(toServer', "PUBLISH")
      BY <2>1, <2>2, <2>3, <2>4, <3>1 DEF Flight
    <3> QED BY <2>4, <3>2 DEF Flight
  <2>5. CASE cmd = "pub" /\ cmd' = cmd
    BY <1>6, <2>1, <2>2, <2>3, <2>5 DEF Flight, Read
  <2>6. CASE cmd # "pub"
    <3>1. None(toClient', "PUBACK") /\ None(toServer', "PUBLISH")
      BY <2>1, <2>2, <2>3, <2>6 DEF Flight
    <3>2. cmd' # "pub" /\ (cmd' = "connect" => ~conn')
      BY <1>6, <2>6 DEF Read, Flight
    <3> QED BY <3>1, <3>2 DEF Flight
  <2> QED BY <1>6, <2>4, <2>5, <2>6 DEF Read
<1>7. CASE ReadNothing
  BY <1>7, KeptAliveSends DEF ReadNothing, Flight, hist
<1>8. CASE Server
  <2>1. Head(toServer) \in ServerPackets
    BY <1>0, <1>8, TakeFirst DEF Server
  <2>2. /\ None(toServer, "PUBLISH") => None(toServer', "PUBLISH") /\ Head(toServer).type # "PUBLISH"
        /\ One(toServer, "PUBLISH") => One(toServer', "PUBLISH")
        /\ One(toServer, "PUBLISH") /\ Head(toServer).type = "PUBLISH" => None(toServer', "PUBLISH")
    BY <1>0, <1>8, TakeFirst DEF Server
  <2>3. /\ Reply(Head(toServer)) \in ClientPackets
        /\ Reply(Head(toServer)).type = "PUBACK" => Head(toServer).type = "PUBLISH"
    BY <2>1, PacketTypes DEF Reply, Packet, ServerPackets
  <2>4. /\ None(toClient, "PUBACK") /\ Head(toServer).type # "PUBLISH" => None(toClient', "PUBACK")
        /\ One(toClient, "PUBACK") /\ Head(toServer).type # "PUBLISH" => One(toClient', "PUBACK")
        /\ None(toClient, "PUBACK") => One(toClient', "PUBACK")
    BY <1>0, <1>8, <2>3, PutLast DEF Server
  <2>5. \A i \in 1..Len(toServer') : i + 1 \in 1..Len(toServer) /\ toServer'[i] = toServer[i + 1]
    BY <1>0, <1>8, HeadTailProperties, LenProperties DEF Server
  <2>6. 1 \in 1..Len(toServer) /\ Head(toServer) = toServer[1]
    <3>1. Len(toServer) \in Nat \ {0}
      BY <1>0, <1>8, EmptySeq, Zenon DEF Server
    <3> QED BY <1>0, <3>1
  <2>7. /\ cmd' = cmd /\ conn' = conn /\ pubs' = pubs
        /\ received' = IF Head(toServer).type = "PUBLISH"
                       THEN received \cup {Head(toServer).id} ELSE received
    BY <1>8 DEF Server
  <2>8. CASE (conn \/ cmd = "connect") /\ cmd = "pub"
    <3>1. \A i \in 1..Len(toServer') : toServer'[i].type = "PUBLISH" => toServer'[i].id = pubs'
      BY <2>5, <2>7, <2>8 DEF Flight
    <3>2. CASE Head(toServer).type = "PUBLISH"
      <4>1. None(toClient, "PUBACK") /\ None(toServer', "PUBLISH")
        BY <2>2, <2>8, <3>2 DEF Flight
      <4>2. pubs' \in received'
        BY <2>6, <2>7, <2>8, <3>2 DEF Flight
      <4> QED BY <2>4, <2>7, <2>8, <3>1, <4>1, <4>2, NoneIsOne DEF Flight
    <3>3. CASE Head(toServer).type # "PUBLISH"
      BY <2>2, <2>4, <2>7, <2>8, <3>1, <3>3 DEF Flight
    <3> QED BY <3>2, <3>3
  <2>9. CASE (conn \/ cmd = "connect") /\ cmd # "pub"
    <3>1. None(toServer', "PUBLISH") /\ None(toClient', "PUBACK")
      BY <2>2, <2>4, <2>9 DEF Flight
    <3> QED BY <2>7, <2>9, <3>1 DEF Flight
  <2> QED BY <2>7, <2>8, <2>9 DEF Flight
<1>9. CASE CloudMessage
  <2>1. Packet("MSG", 0) \in ClientPackets /\ Packet("MSG", 0).type # "PUBACK"
    BY PacketTypes DEF Packet
  <2>2. /\ None(toClient, "PUBACK") => None(toClient', "PUBACK")
        /\ One(toClient, "PUBACK") => One(toClient', "PUBACK")
    BY <1>0, <1>9, <2>1, PutLast DEF CloudMessage
  <2> QED BY <1>9, <2>2 DEF CloudMessage, Flight, hist
<1>10. CASE LinkDies BY <1>10 DEF LinkDies, Flight, Fault
<1>11. CASE Tick BY <1>11 DEF Tick, Flight, net, hist
<1>12. CASE UNCHANGED vars BY <1>12 DEF vars, Flight, net, hist
<1> QED
  BY <1>1, <1>2, <1>3, <1>4, <1>5, <1>6, <1>7, <1>8, <1>9, <1>10, <1>11, <1>12 DEF Next

\* Every step keeps what was acknowledged among what was received.
LEMMA AckedStep == Flight /\ AckedReceived /\ [Next]_vars => AckedReceived'
<1> SUFFICES ASSUME Flight, AckedReceived, [Next]_vars PROVE AckedReceived'
  OBVIOUS
<1>1. CASE Read
  <2>1. CASE cmd = "pub" /\ Head(toClient).type = "PUBACK"
    <3>1. ~None(toClient, "PUBACK")
      BY <1>1, <2>1 DEF Read, None
    <3> QED BY <1>1, <2>1, <3>1 DEF Read, Flight, AckedReceived
  <2>2. CASE ~(cmd = "pub" /\ Head(toClient).type = "PUBACK")
    BY <1>1, <2>2 DEF Read, Answer, AckedReceived
  <2> QED BY <2>1, <2>2
<1>2. CASE Server BY <1>2 DEF Server, AckedReceived
<1>3. CASE ~Read /\ ~Server
  <2>1. acked' = acked /\ received' = received
    BY <1>3 DEF Next, vars, hist, Fault, ty_mqtt_connect, MQTTSubscribe, MQTTPublish,
         WaitforTimeout, TimeoutWith, SocketError, ty_mqtt_close, CloseAfter,
         ReadNothing, KeepaliveFailed, CloudMessage, LinkDies, Tick
  <2> QED BY <2>1 DEF AckedReceived
<1> QED BY <1>1, <1>2, <1>3
-----------------------------------------------------------------------------
(* While the main task yields: the ages of what was sent and received.     *)

\* Between yields no timer is overdue by more than a tick, and unless a ping
\* or a command is under way something was read after the last packet sent.
Timing ==
  /\ cmd # "none" => cmdAge <= CmdTimeout /\ sentAge <= cmdAge
  /\ cmd = "connect" => ~conn /\ ~ping
  /\ conn /\ ping => sentAge <= pingAge /\ recvAge <= pingAge + SentLimit + 1
  /\ conn /\ cmd = "none" =>
       /\ sentAge <= SentLimit + 1 /\ recvAge <= KeepAlive + 1
       /\ polled => sentAge <= SentLimit /\ recvAge <= KeepAlive
       /\ ping \/ recvAge <= sentAge
  /\ conn /\ cmd # "none" =>
       /\ polled => sentAge = 0
       /\ recvAge <= KeepAlive + 1 + cmdAge
       /\ ping \/ recvAge <= SentLimit + 1 + cmdAge

\* Without a session the timers bound nothing.
LEMMA TimingOver == ~conn' /\ cmd' = "none" => Timing'
  BY DEF Timing

\* A cycle that keeps the session, as far as the ages go.
LEMMA KeptAliveAges ==
  ASSUME NEW type, KeptAlive(type)
  PROVE  \/ /\ Due(type) /\ ~PingAfter(type)
            /\ ping' = TRUE /\ pingAge' = 0 /\ sentAge' = 0 /\ recvAge' = RecvAfter(type)
         \/ /\ ~(sentAge > SentLimit) /\ ~(RecvAfter(type) > KeepAlive)
            /\ ping' = PingAfter(type) /\ recvAge' = RecvAfter(type)
            /\ sentAge' = sentAge /\ pingAge' = pingAge
  BY DEF KeptAlive, PingSent, Due

\* Every step of a client that is made to yield keeps the ages in order.
LEMMA TimingStep == ~Gaps /\ TypeOK /\ Timing /\ [Next]_vars => Timing'
<1> SUFFICES ASSUME ~Gaps, TypeOK, Timing, [Next]_vars PROVE Timing'
  OBVIOUS
<1>0. cmdAge \in Nat /\ sentAge \in Nat /\ recvAge \in Nat /\ pingAge \in Nat
  BY DEF TypeOK
<1> USE Limits
<1>1. CASE ty_mqtt_connect
  BY <1>1 DEF ty_mqtt_connect, Send, Timing
<1>2. CASE MQTTSubscribe
  BY <1>0, <1>2 DEF MQTTSubscribe, Send, Timing
<1>3. CASE MQTTPublish
  BY <1>0, <1>3 DEF MQTTPublish, Send, Timing
<1>4. CASE WaitforTimeout \/ SocketError \/ KeepaliveFailed
  BY <1>4, TimingOver DEF WaitforTimeout, TimeoutWith, SocketError, KeepaliveFailed, Fails, MQTTCloseSession
<1>5. CASE ty_mqtt_close
  BY <1>5, TimingOver DEF ty_mqtt_close, CloseAfter, MQTTCloseSession
<1>6. CASE Read
  <2> DEFINE type == Head(toClient).type
  <2>1. KeptAlive(type) /\ RecvAfter(type) = 0
    <3>1. type # "none"
      <4>1. Head(toClient) \in ClientPackets
        BY <1>6, TakeFirst DEF Read, TypeOK
      <4> QED BY <4>1 DEF ClientPackets
    <3> QED BY <1>6, <3>1 DEF Read, RecvAfter
  <2>2. cmdAge' = cmdAge /\ polled' = polled /\ (conn \/ cmd = "connect")
    BY <1>6 DEF Read
  <2>3. (cmd' = cmd /\ conn' = conn) \/ (cmd # "none" /\ cmd' = "none" /\ conn')
    BY <1>6 DEF Read
  <2>4. CASE /\ Due(type) /\ ping' = TRUE /\ pingAge' = 0 /\ sentAge' = 0 /\ recvAge' = 0
    <3>1. cmd # "connect"
      BY <1>0, <2>1, <2>4 DEF Due, Timing
    <3> QED BY <1>0, <2>2, <2>3, <2>4, <3>1 DEF Timing
  <2>5. CASE /\ ~(sentAge > SentLimit) /\ ping' = PingAfter(type) /\ recvAge' = 0
             /\ sentAge' = sentAge /\ pingAge' = pingAge
    <3>1. ping' => ping
      BY <2>5 DEF PingAfter
    <3> QED BY <1>0, <2>2, <2>3, <2>5, <3>1 DEF Timing
  <2> QED BY <2>1, <2>4, <2>5, KeptAliveAges
<1>7. CASE ReadNothing
  <2>1. /\ KeptAlive("none") /\ RecvAfter("none") = recvAge /\ PingAfter("none") = ping
        /\ conn /\ conn' /\ cmd' = cmd /\ cmdAge' = cmdAge
        /\ cmd # "none" => polled' = polled
    BY <1>7 DEF ReadNothing, RecvAfter, PingAfter, TypeOK
  <2>2. CASE /\ Due("none") /\ ~ping
             /\ ping' = TRUE /\ pingAge' = 0 /\ sentAge' = 0 /\ recvAge' = recvAge
    <3>1. cmd = "none"
      BY <1>0, <2>1, <2>2 DEF Timing, Due
    <3> QED BY <1>0, <2>1, <2>2, <3>1 DEF Timing
  <2>3. CASE /\ ~(sentAge > SentLimit) /\ ~(recvAge > KeepAlive) /\ ping' = ping
             /\ recvAge' = recvAge /\ sentAge' = sentAge /\ pingAge' = pingAge
    BY <1>0, <2>1, <2>3 DEF Timing
  <2> QED BY <2>1, <2>2, <2>3, KeptAliveAges
<1>8. CASE Server BY <1>8 DEF Server, Timing, ages
<1>9. CASE CloudMessage BY <1>9 DEF CloudMessage, Timing, ages
<1>10. CASE LinkDies BY <1>10 DEF LinkDies, Timing, ages
<1>11. CASE Tick
  <2>1. /\ sentAge' = sentAge + 1 /\ recvAge' = recvAge + 1 /\ polled' = FALSE
        /\ cmd' = cmd /\ conn' = conn /\ ping' = ping
        /\ ping => pingAge' = pingAge + 1
        /\ cmd # "none" => cmdAge' = cmdAge + 1 /\ cmdAge < CmdTimeout
        /\ cmd = "none" => polled
    BY <1>11 DEF Tick
  <2> QED BY <1>0, <2>1 DEF Timing
<1>12. CASE UNCHANGED vars BY <1>12 DEF vars, Timing, ages
<1> QED
  BY <1>1, <1>2, <1>3, <1>4, <1>5, <1>6, <1>7, <1>8, <1>9, <1>10, <1>11, <1>12 DEF Next
-----------------------------------------------------------------------------
\* Types, and every session and waiting command with its socket.
THEOREM TypeCorrect == Spec => []TypeOK
  BY TypeInit, TypeStep, PTL DEF Spec

\* Although the client never compares packet ids, every publish that returned
\* SUCCESS was received by the server.
THEOREM AckedReceivedHolds == Spec => []AckedReceived
<1>1. Init => Flight /\ AckedReceived
  BY DEF Init, Flight, AckedReceived
<1> QED BY <1>1, TypeCorrect, FlightStep, AckedStep, PTL DEF Spec

\* The ages are in order as long as the main task yields.
LEMMA TimingHolds == ASSUME ~Gaps PROVE Spec => []Timing
<1>1. Init => Timing
  BY DEF Init, Timing
<1>2. TypeOK /\ Timing /\ [Next]_vars => Timing'
  BY TimingStep
<1> QED BY <1>1, <1>2, TypeCorrect, PTL DEF Spec

\* With regular yields a silent link is closed within one interval and the
\* time of a command.
THEOREM DeadLinkSeenHolds == ASSUME ~Gaps PROVE Spec => []DeadLinkSeen
<1>1. TypeOK /\ Timing => DeadLinkSeen
  BY Limits DEF TypeOK, Timing, DeadLinkSeen
<1> QED BY <1>1, TypeCorrect, TimingHolds, PTL

\* With regular yields a ping is given 40% of the interval to be answered.
THEOREM PingGraceHolds == ASSUME ~Gaps PROVE Spec => PingGrace
<1>1. TypeOK /\ Timing /\ [Next]_vars =>
        [KeepaliveFailed => pingAge >= KeepAlive - (KeepAlive * 60) \div 100]_vars
  <2> SUFFICES ASSUME TypeOK, Timing, KeepaliveFailed
               PROVE  pingAge >= KeepAlive - SentLimit
    BY DEF SentLimit
  <2>0. sentAge \in Nat /\ recvAge \in Nat /\ pingAge \in Nat
    BY DEF TypeOK
  <2>1. conn /\ ping /\ (sentAge > SentLimit \/ recvAge > KeepAlive)
    <3>1. CASE toClient = <<>>
      BY <3>1 DEF KeepaliveFailed, Due, RecvAfter
    <3>2. CASE toClient # <<>>
      <4>1. Head(toClient) \in ClientPackets
        BY <3>2, TakeFirst DEF TypeOK
      <4>2. RecvAfter(Head(toClient).type) = 0
        BY <4>1 DEF RecvAfter, ClientPackets
      <4> QED BY <3>2, <4>2, Limits DEF KeepaliveFailed, Due, PingAfter
    <3> QED BY <3>1, <3>2
  <2> QED BY <2>0, <2>1, Limits DEF Timing
<1> QED BY <1>1, TypeCorrect, TimingHolds, PTL DEF Spec, PingGrace
-----------------------------------------------------------------------------
(* The client implements Session.                                          *)

\* Whatever has become of the session, the one PUBLISH that may be on its way
\* is that of the last publish.
Latest ==
  /\ One(toServer, "PUBLISH")
  /\ \A i \in 1..Len(toServer) :
       toServer[i].type = "PUBLISH" => toServer[i].id = pubs /\ pubs # 0

\* Without a PUBLISH on its way nothing can arrive; with one, the last publish.
LEMMA OfferedNone ==
  /\ None(toServer, "PUBLISH") => Offered = 0
  /\ ~None(toServer, "PUBLISH") => Offered = pubs
  BY DEF None, Offered

\* The same after a step.
LEMMA OfferedNoneNext ==
  /\ None(toServer', "PUBLISH") => Offered' = 0 /\ Latest'
  /\ ~None(toServer', "PUBLISH") => Offered' = pubs'
<1>1. None(toServer', "PUBLISH") => Latest'
  BY NoneIsOne DEF None, Latest
<1> QED BY <1>1 DEF None, Offered

\* Any other packet leaves the publish on its way as it is.
LEMMA OtherSent ==
  ASSUME TypeOK, Latest, UNCHANGED pubs,
         NEW e \in ServerPackets, e.type # "PUBLISH",
         toServer' = toServer \/ toServer' = Append(toServer, e)
  PROVE  Latest' /\ Offered' = Offered
<1>1. CASE toServer' = toServer BY <1>1 DEF Latest, Offered
<1>2. CASE toServer' = Append(toServer, e)
  <2>1. toServer \in Seq(ServerPackets) BY DEF TypeOK
  <2>2. /\ Len(toServer) \in Nat /\ Len(toServer') = Len(toServer) + 1
        /\ \A i \in 1..Len(toServer) : toServer'[i] = toServer[i]
        /\ toServer'[Len(toServer) + 1] = e
    BY <1>2, <2>1, AppendProperties, LenProperties
  <2>3. \A i \in 1..Len(toServer') : i \in 1..Len(toServer) \/ i = Len(toServer) + 1
    BY <2>2
  <2>4. \A i \in 1..Len(toServer) : i \in 1..Len(toServer')
    BY <2>2
  <2>5. One(toServer', "PUBLISH") BY <1>2, <2>1, PutLast DEF Latest
  <2>6. Latest' BY <2>2, <2>3, <2>5 DEF Latest
  <2>7. None(toServer', "PUBLISH") <=> None(toServer, "PUBLISH")
    BY <2>2, <2>3, <2>4 DEF None
  <2> QED BY <2>6, <2>7, OfferedNone, OfferedNoneNext
<1> QED BY <1>1, <1>2

\* keepalive sends at most a ping.
LEMMA KeptAliveOffers ==
  ASSUME TypeOK, Latest, UNCHANGED pubs, NEW type, KeptAlive(type)
  PROVE  Latest' /\ Offered' = Offered
<1>1. Packet("PINGREQ", 0) \in ServerPackets /\ Packet("PINGREQ", 0).type # "PUBLISH"
  BY PacketTypes DEF Packet
<1>2. toServer' = toServer \/ toServer' = Append(toServer, Packet("PINGREQ", 0))
  BY DEF KeptAlive, PingSent
<1> QED BY <1>1, <1>2, OtherSent

\* Every step is a step of Session, or none, and keeps Latest.
LEMMA SessionStep ==
  TypeOK /\ Flight /\ Latest /\ [Next]_vars
  => Latest' /\ [PublishSession!Next]_(PublishSession!vars)
<1> SUFFICES ASSUME TypeOK, Flight, Latest, [Next]_vars
             PROVE  Latest' /\ [PublishSession!Next]_(PublishSession!vars)
  OBVIOUS
<1> USE DEF PublishSession!Next
<1>0. toServer \in Seq(ServerPackets) /\ toClient \in Seq(ClientPackets)
  BY DEF TypeOK
<1>1. CASE ty_mqtt_connect
  <2>1. None(toServer', "PUBLISH")
    BY <1>1 DEF ty_mqtt_connect, None, Packet
  <2>2. Latest' /\ Offered' = 0 BY <2>1, OfferedNoneNext
  <2>3. ~conn' /\ cmd' # "pub" /\ UNCHANGED <<pubs, received, acked>>
    BY <1>1 DEF ty_mqtt_connect, Send, hist
  <2>4. PublishSession!End BY <2>2, <2>3, <1>1 DEF ty_mqtt_connect, PublishSession!End
  <2> QED BY <2>2, <2>4
<1>2. CASE MQTTSubscribe
  <2>1. Packet("SUBSCRIBE", 0) \in ServerPackets /\ Packet("SUBSCRIBE", 0).type # "PUBLISH"
    BY PacketTypes DEF Packet
  <2>2. Latest' /\ Offered' = Offered
    BY <1>2, <2>1, OtherSent DEF MQTTSubscribe, hist
  <2>3. cmd # "pub" /\ cmd' # "pub" /\ UNCHANGED <<conn, pubs, received, acked>>
    BY <1>2 DEF MQTTSubscribe, Send, hist
  <2> QED BY <2>2, <2>3 DEF PublishSession!vars
<1>3. CASE MQTTPublish
  <2>1. None(toServer, "PUBLISH") BY <1>3 DEF MQTTPublish, Flight
  <2>2. pubs \in Nat /\ pubs + 1 \in 0..MaxPubs
    BY <1>3, MqttAssumption DEF MQTTPublish, TypeOK
  <2>3. /\ Packet("PUBLISH", pubs + 1) \in ServerPackets
        /\ Packet("PUBLISH", pubs + 1).id = pubs + 1
        /\ Packet("PUBLISH", pubs + 1).type = "PUBLISH"
    BY <2>2, PacketTypes DEF Packet
  <2>4. One(toServer', "PUBLISH")
    BY <1>0, <1>3, <2>1, <2>3, PutLast DEF MQTTPublish
  <2>5. /\ Len(toServer) + 1 \in 1..Len(toServer')
        /\ toServer'[Len(toServer) + 1] = Packet("PUBLISH", pubs + 1)
        /\ \A i \in 1..Len(toServer') :
             \/ i \in 1..Len(toServer) /\ toServer'[i] = toServer[i]
             \/ toServer'[i] = Packet("PUBLISH", pubs + 1)
    BY <1>0, <1>3, <2>3, AppendProperties, LenProperties DEF MQTTPublish
  <2>6. /\ cmd = "none" /\ cmd' = "pub" /\ conn /\ conn' = conn /\ pubs' = pubs + 1
        /\ UNCHANGED <<received, acked>>
    BY <1>3 DEF MQTTPublish, Send
  <2>7. Latest' BY <2>1, <2>2, <2>3, <2>4, <2>5, <2>6 DEF Latest, None
  <2>8. ~None(toServer', "PUBLISH") BY <2>3, <2>5 DEF None
  <2>9. Offered = 0 /\ Offered' = pubs + 1
    BY <2>1, <2>6, <2>8, OfferedNone, OfferedNoneNext
  <2>10. PublishSession!Begin BY <2>6, <2>9 DEF PublishSession!Begin
  <2> QED BY <2>7, <2>10
<1>4. CASE WaitforTimeout \/ SocketError \/ KeepaliveFailed
  <2>1. ~conn' /\ cmd' = "none" /\ UNCHANGED <<toServer, pubs, received, acked>>
    BY <1>4 DEF WaitforTimeout, TimeoutWith, SocketError, KeepaliveFailed, Fails,
                MQTTCloseSession, Fault, net, hist
  <2>2. Latest' /\ Offered' = Offered BY <2>1 DEF Latest, Offered
  <2>3. conn' = FALSE BY <1>4 DEF WaitforTimeout, TimeoutWith, SocketError,
                KeepaliveFailed, Fails, MQTTCloseSession
  <2>4. PublishSession!End BY <2>1, <2>2, <2>3 DEF PublishSession!End
  <2> QED BY <2>2, <2>4
<1>5. CASE ty_mqtt_close
  <2>1. None(toServer', "PUBLISH") BY <1>5, EmptyPipe DEF ty_mqtt_close, CloseAfter
  <2>2. Latest' /\ Offered' = 0 BY <2>1, OfferedNoneNext
  <2>3. conn' = FALSE /\ cmd' = "none" /\ UNCHANGED <<pubs, received, acked>>
    BY <1>5 DEF ty_mqtt_close, CloseAfter, MQTTCloseSession, hist
  <2>4. PublishSession!End BY <2>2, <2>3 DEF PublishSession!End
  <2> QED BY <2>2, <2>4
<1>6. CASE Read
  <2>1. UNCHANGED <<pubs, received>> BY <1>6 DEF Read
  <2>2. Latest' /\ Offered' = Offered BY <1>6, <2>1, KeptAliveOffers DEF Read
  <2>3. CASE cmd = "pub" /\ Head(toClient).type = "PUBACK"
    <3>1. conn BY <1>6, <2>3 DEF Read
    <3>2. ~None(toClient, "PUBACK") BY <1>0, <1>6, <2>3, TakeFirst DEF Read
    <3>3. pubs \in received BY <2>3, <3>1, <3>2 DEF Flight
    <3>4. cmd' = "none" /\ conn' = TRUE /\ acked' = acked \cup {pubs}
      BY <1>6, <2>3 DEF Read, Answer
    <3>5. PublishSession!Succeed
      BY <2>1, <2>2, <2>3, <3>1, <3>3, <3>4 DEF PublishSession!Succeed, TypeOK
    <3> QED BY <2>2, <3>5
  <2>4. CASE cmd = "connect" /\ Head(toClient).type = "CONNACK"
    <3>1. ~conn /\ None(toServer, "PUBLISH") BY <2>4 DEF Flight
    <3>2. Offered = 0 BY <3>1, OfferedNone
    <3>3. cmd' = "none" /\ conn' = TRUE /\ acked' = acked
      BY <1>6, <2>4 DEF Read, Answer
    <3>4. PublishSession!Connect
      BY <2>1, <2>2, <2>4, <3>1, <3>2, <3>3 DEF PublishSession!Connect
    <3> QED BY <2>2, <3>4
  <2>5. CASE cmd = "sub" /\ Head(toClient).type = "SUBACK"
    <3>1. conn /\ conn' /\ cmd' = "none" /\ acked' = acked
      BY <1>6, <2>5 DEF Read, Answer
    <3>2. conn' = conn BY <1>6, <2>5, <3>1 DEF Read, Answer, TypeOK
    <3> QED BY <2>1, <2>2, <2>5, <3>1, <3>2 DEF PublishSession!vars
  <2>6. CASE cmd' = cmd /\ conn' = conn /\ acked' = acked
    BY <2>1, <2>2, <2>6 DEF PublishSession!vars
  <2>7. cmd \in {"connect", "sub", "pub", "none"} BY DEF TypeOK, Commands
  <2>8. Answer["connect"] = "CONNACK" /\ Answer["sub"] = "SUBACK" /\ Answer["pub"] = "PUBACK"
    BY DEF Answer
  <2> QED BY <1>6, <2>3, <2>4, <2>5, <2>6, <2>7, <2>8 DEF Read
<1>7. CASE ReadNothing
  <2>1. UNCHANGED <<cmd, conn, pubs, received, acked>> BY <1>7 DEF ReadNothing, hist
  <2>2. Latest' /\ Offered' = Offered BY <1>7, <2>1, KeptAliveOffers DEF ReadNothing
  <2> QED BY <2>1, <2>2 DEF PublishSession!vars
<1>8. CASE Server
  <2>1. /\ UNCHANGED <<cmd, conn, pubs, acked>>
        /\ toServer # <<>> /\ toServer' = Tail(toServer)
        /\ received' = IF Head(toServer).type = "PUBLISH"
                       THEN received \cup {Head(toServer).id} ELSE received
    BY <1>8 DEF Server
  <2>2. /\ \A i \in 1..Len(toServer') : i + 1 \in 1..Len(toServer) /\ toServer'[i] = toServer[i + 1]
        /\ \A j \in 1..Len(toServer) : j = 1 \/ (j - 1 \in 1..Len(toServer') /\ toServer'[j - 1] = toServer[j])
    BY <1>0, <2>1, HeadTailProperties, LenProperties
  <2>3. 1 \in 1..Len(toServer) /\ Head(toServer) = toServer[1]
    <3>1. Len(toServer) \in Nat \ {0} BY <1>0, <2>1, EmptySeq, Zenon
    <3> QED BY <1>0, <3>1
  <2>4. One(toServer', "PUBLISH") BY <1>0, <2>1, TakeFirst DEF Latest
  <2>5. Latest' BY <2>1, <2>2, <2>4 DEF Latest
  <2>6. CASE Head(toServer).type = "PUBLISH"
    <3>1. Head(toServer).id = pubs /\ pubs # 0 BY <2>3, <2>6 DEF Latest
    <3>2. ~None(toServer, "PUBLISH") BY <2>3, <2>6 DEF None
    <3>3. None(toServer', "PUBLISH") BY <1>0, <2>1, <2>6, TakeFirst DEF Latest
    <3>4. Offered = pubs /\ Offered' = 0
      BY <3>2, <3>3, OfferedNone, OfferedNoneNext
    <3>5. PublishSession!Arrive
      BY <2>1, <2>6, <3>1, <3>4 DEF PublishSession!Arrive
    <3> QED BY <2>5, <3>5
  <2>7. CASE Head(toServer).type # "PUBLISH"
    <3>1. None(toServer', "PUBLISH") <=> None(toServer, "PUBLISH")
      BY <2>2, <2>3, <2>7 DEF None
    <3>2. Offered' = Offered BY <2>1, <3>1, OfferedNone, OfferedNoneNext
    <3> QED BY <2>1, <2>5, <2>7, <3>2 DEF PublishSession!vars
  <2> QED BY <2>6, <2>7
<1>9. CASE CloudMessage \/ LinkDies \/ Tick \/ UNCHANGED vars
  <2>1. UNCHANGED <<cmd, conn, toServer, pubs, received, acked>>
    BY <1>9 DEF CloudMessage, LinkDies, Tick, vars, net, hist, Fault
  <2>2. Latest' /\ Offered' = Offered BY <2>1 DEF Latest, Offered
  <2> QED BY <2>1, <2>2 DEF PublishSession!vars
<1> QED BY <1>1, <1>2, <1>3, <1>4, <1>5, <1>6, <1>7, <1>8, <1>9 DEF Next

\* The client implements Session, with or without gaps in the yields: a publish
\* that fails leaves no session behind, and nothing of it arrives late.
THEOREM SessionRefined == Spec => IsSession
<1>1. Init => Flight /\ Latest /\ PublishSession!Init
  <2> SUFFICES ASSUME Init PROVE Flight /\ Latest /\ PublishSession!Init
    OBVIOUS
  <2>1. None(toServer, "PUBLISH") BY EmptyPipe DEF Init
  <2>2. Latest /\ Offered = 0 BY <2>1, OfferedNone, NoneIsOne DEF Latest, None
  <2> QED BY <2>2 DEF Init, Flight, PublishSession!Init
<1> QED BY <1>1, TypeCorrect, FlightStep, SessionStep, PTL
        DEF Spec, IsSession, PublishSession!Spec
=============================================================================
