----------------------------- MODULE MqttClient -----------------------------
(***************************************************************************)
(* The MQTT session of protocol/mqtt/MQTTClient.c under                    *)
(* plat/slm320/slm320_mqtt_adpt.c: commands that wait for their answer,    *)
(* the keep-alive, and the closing of a session.  MQTT_TASK is not         *)
(* defined, so only the main task runs the client.                         *)
(*                                                                         *)
(* Time is counted in ticks much longer than the one second of a yield and *)
(* not shorter than a command may take: 36 s make KeepAlive = 5 of the 180 *)
(* s the main task asks for, and CmdTimeout = 1 of the 30 s of a command.  *)
(* The main task yields between any two ticks, except, if Gaps, while a    *)
(* FOTA run keeps it from reading (E_MainTaskFota).                        *)
(*                                                                         *)
(* What a handler does with a message is MainTask's.  What is on its way   *)
(* to the server when the socket is closed is taken as lost.               *)
(***************************************************************************)
EXTENDS Naturals, Sequences

CONSTANTS
  KeepAlive,   \* keepAliveInterval
  CmdTimeout,  \* command_timeout_ms
  Gaps,        \* the main task may stop yielding
  MaxPubs,     \* bound on the publishes
  MaxFaults,   \* bound on the failures of link, socket and server
  MaxAge,      \* bound on the ages
  PipeSize     \* bound on the messages the cloud sends ahead

SentLimit == (KeepAlive * 60) \div 100

ASSUME MqttAssumption ==
  /\ KeepAlive \in Nat \ {0} /\ CmdTimeout \in Nat
  /\ SentLimit + 1 + CmdTimeout <= KeepAlive
  /\ Gaps \in BOOLEAN
  /\ MaxPubs \in Nat /\ MaxFaults \in Nat /\ MaxAge \in Nat /\ PipeSize \in Nat

VARIABLES
  open,      \* the socket is open
  conn,      \* isconnected
  ping,      \* ping_outstanding
  cmd,       \* the command that waits for its answer, or "none"
  cmdAge,    \* ticks since it was sent
  sentAge,   \* ticks since last_sent was started
  recvAge,   \* ticks since last_received was started
  pingAge,   \* history: ticks since the outstanding PINGREQ was sent
  polled,    \* a yield found nothing to read in this tick
  alive,     \* the link of this socket carries data
  toServer,  \* packets on their way to the server
  toClient,  \* packets on their way to the client
  pubs,      \* publishes so far; the last one is the one that waits
  acked,     \* history: publishes that have returned SUCCESS
  received,  \* history: publishes the server has received
  faults     \* failures so far

ages == <<cmdAge, sentAge, recvAge, pingAge>>
net  == <<alive, toServer, toClient>>
hist == <<pubs, acked, received, faults>>
vars == <<open, conn, ping, cmd, ages, polled, net, hist>>

Commands == {"connect", "sub", "pub"}
Answer  == [connect |-> "CONNACK", sub |-> "SUBACK", pub |-> "PUBACK"]

\* A packet, with the publish it carries or acknowledges.
Packet(type, id) == [type |-> type, id |-> id]

Init ==
  /\ open = FALSE /\ conn = FALSE /\ ping = FALSE
  /\ cmd = "none" /\ polled = FALSE
  /\ cmdAge = 0 /\ sentAge = 0 /\ recvAge = 0 /\ pingAge = 0
  /\ alive = TRUE /\ toServer = <<>> /\ toClient = <<>>
  /\ pubs = 0 /\ acked = {} /\ received = {} /\ faults = 0

Fault == faults < MaxFaults /\ faults' = faults + 1 /\ UNCHANGED <<pubs, acked, received>>

\* The session is over: by MQTTCloseSession, on whatever failure.
MQTTCloseSession == conn' = FALSE /\ ping' = FALSE
-----------------------------------------------------------------------------
(* Commands: a packet is sent, and waitfor runs cycles until the answer    *)
(* has come or the time is up.                                             *)

Send(c) == cmd' = c /\ cmdAge' = 0 /\ sentAge' = 0

\* ty_mqtt_connect: a new socket, a fresh client, and CONNECT.
ty_mqtt_connect ==
  /\ ~open /\ open' = TRUE
  /\ conn' = FALSE /\ ping' = FALSE /\ polled' = FALSE
  /\ Send("connect") /\ recvAge' = 0 /\ pingAge' = 0
  /\ alive' = TRUE /\ toServer' = <<Packet("CONNECT", 0)>> /\ toClient' = <<>>
  /\ UNCHANGED hist

MQTTSubscribe ==
  /\ conn /\ cmd = "none" /\ Send("sub")
  /\ toServer' = Append(toServer, Packet("SUBSCRIBE", 0))
  /\ UNCHANGED <<open, conn, ping, recvAge, pingAge, polled, alive, toClient, hist>>

MQTTPublish ==
  /\ conn /\ cmd = "none" /\ Send("pub")
  /\ pubs < MaxPubs /\ pubs' = pubs + 1
  /\ toServer' = Append(toServer, Packet("PUBLISH", pubs + 1))
  /\ UNCHANGED <<open, conn, ping, recvAge, pingAge, polled, alive, toClient,
                 acked, received, faults>>

\* A command fails; so does the connection, whose socket is closed, or the
\* session, whose socket is left to the caller.
Fails ==
  /\ cmd' = "none" /\ open' = (cmd # "connect")
  /\ MQTTCloseSession

\* waitfor gives up.
TimeoutWith(failure) ==
  /\ cmd # "none" /\ cmdAge >= CmdTimeout /\ failure
  /\ UNCHANGED <<ages, polled, net, hist>>

\* Variant: the session stays.
WaitforKeeps == TimeoutWith(cmd' = "none" /\ UNCHANGED <<open, conn, ping>>)

WaitforTimeout == TimeoutWith(Fails)

\* A write or a read fails, or the server refuses the connection.
SocketError ==
  /\ conn \/ cmd # "none"
  /\ Fault /\ Fails
  /\ UNCHANGED <<ages, polled, net>>

\* NetworkDisconnect, after or without the end of the session.
CloseAfter(end) ==
  /\ open /\ cmd = "none" /\ open' = FALSE
  /\ end
  /\ toServer' = <<>> /\ toClient' = <<>>
  /\ UNCHANGED <<cmd, ages, polled, alive, hist>>

\* Variant: without MQTTDisconnect.
CloseSocketOnly == CloseAfter(UNCHANGED <<conn, ping>>)

ty_mqtt_close == CloseAfter(MQTTCloseSession)
-----------------------------------------------------------------------------
(* cycle: readPacket, what the packet calls for, keepalive.                *)

\* What a read of this type of packet, or of "none", leaves behind.
RecvAfter(type) == IF type = "none" THEN recvAge ELSE 0
PingAfter(type) == ping /\ type # "PINGRESP"

\* Variant: both timers must have expired.
DueBoth(type) == sentAge > SentLimit /\ RecvAfter(type) > KeepAlive

\* keepalive: a timer has expired.
Due(type) == sentAge > SentLimit \/ RecvAfter(type) > KeepAlive

\* Variant: the ping does not restart last_sent.
PingSentQuietly(type) ==
  /\ Due(type) /\ ~PingAfter(type)
  /\ ping' = TRUE /\ pingAge' = 0 /\ recvAge' = RecvAfter(type)
  /\ toServer' = Append(toServer, Packet("PINGREQ", 0))
  /\ UNCHANGED sentAge

PingSent(type) ==
  /\ Due(type) /\ ~PingAfter(type)
  /\ ping' = TRUE /\ pingAge' = 0 /\ sentAge' = 0 /\ recvAge' = RecvAfter(type)
  /\ toServer' = Append(toServer, Packet("PINGREQ", 0))

KeptAlive(type) ==
  \/ PingSent(type)
  \/ /\ ~Due(type)
     /\ ping' = PingAfter(type) /\ recvAge' = RecvAfter(type)
     /\ UNCHANGED <<sentAge, pingAge, toServer>>

\* A packet is read.  An answer is known by its type alone.
Read ==
  /\ conn \/ cmd = "connect"
  /\ toClient # <<>> /\ toClient' = Tail(toClient)
  /\ KeptAlive(Head(toClient).type)
  /\ IF cmd # "none" /\ Head(toClient).type = Answer[cmd]
     THEN /\ cmd' = "none"
          /\ conn' = TRUE
          /\ acked' = IF cmd = "pub" THEN acked \cup {pubs} ELSE acked
     ELSE UNCHANGED <<cmd, conn, acked>>
  /\ UNCHANGED <<open, cmdAge, polled, alive, pubs, received, faults>>

\* Nothing is there to read: a yield runs out of time, or ty_ssl_recv, which does
\* not know the timeout of a command that waits, gives up early.
ReadNothing ==
  /\ conn /\ toClient = <<>>
  /\ KeptAlive("none")
  /\ polled' = (polled \/ cmd = "none")
  /\ UNCHANGED <<open, conn, cmd, cmdAge, alive, toClient, hist>>

\* A timer has expired with a ping outstanding, be it that the cycle has read a
\* packet or nothing; a command that waits fails.
KeepaliveFailed ==
  /\ conn
  /\ \/ toClient = <<>> /\ Due("none") /\ ping /\ UNCHANGED toClient
     \/ /\ toClient # <<>> /\ toClient' = Tail(toClient)
        /\ Due(Head(toClient).type) /\ PingAfter(Head(toClient).type)
  /\ Fails
  /\ UNCHANGED <<ages, polled, alive, toServer, hist>>
-----------------------------------------------------------------------------
(* External: the server, the link, and time.                               *)

Reply(p) ==
  CASE p.type = "CONNECT"   -> Packet("CONNACK", 0)
    [] p.type = "SUBSCRIBE" -> Packet("SUBACK", 0)
    [] p.type = "PUBLISH"   -> Packet("PUBACK", p.id)
    [] p.type = "PINGREQ"   -> Packet("PINGRESP", 0)

Server ==
  /\ open /\ alive /\ toServer # <<>>
  /\ toServer' = Tail(toServer)
  /\ toClient' = Append(toClient, Reply(Head(toServer)))
  /\ received' = IF Head(toServer).type = "PUBLISH"
                 THEN received \cup {Head(toServer).id} ELSE received
  /\ UNCHANGED <<open, conn, ping, cmd, ages, polled, alive, pubs, acked, faults>>

\* A message for a subscribed topic (QoS 0).
CloudMessage ==
  /\ conn /\ alive /\ Len(toClient) < PipeSize
  /\ toClient' = Append(toClient, Packet("MSG", 0))
  /\ UNCHANGED <<open, conn, ping, cmd, ages, polled, alive, toServer, hist>>

\* The link falls silent without an error.
LinkDies ==
  /\ open /\ alive /\ alive' = FALSE /\ Fault
  /\ UNCHANGED <<open, conn, ping, cmd, ages, polled, toServer, toClient>>

\* What has arrived is read before time passes, a command waits no longer than
\* its timeout, and the main task yields, unless it is kept from it.
Tick ==
  /\ conn \/ cmd # "none"
  /\ IF cmd = "none" THEN Gaps \/ (polled /\ toClient = <<>>)
     ELSE toClient = <<>> /\ cmdAge < CmdTimeout
  /\ recvAge < MaxAge
  /\ polled' = FALSE
  /\ cmdAge' = IF cmd = "none" THEN 0 ELSE cmdAge + 1
  /\ sentAge' = sentAge + 1 /\ recvAge' = recvAge + 1
  /\ pingAge' = IF ping THEN pingAge + 1 ELSE 0
  /\ UNCHANGED <<open, conn, ping, cmd, net, hist>>

Next ==
  \/ ty_mqtt_connect \/ MQTTSubscribe \/ MQTTPublish \/ WaitforTimeout
  \/ SocketError \/ ty_mqtt_close \/ Read \/ ReadNothing \/ KeepaliveFailed
  \/ Server \/ CloudMessage \/ LinkDies \/ Tick

Spec == Init /\ [][Next]_vars
-----------------------------------------------------------------------------
ServerPackets == [type : {"CONNECT", "SUBSCRIBE", "PUBLISH", "PINGREQ"}, id : 0..MaxPubs]
ClientPackets == [type : {"CONNACK", "SUBACK", "PUBACK", "PINGRESP", "MSG"}, id : 0..MaxPubs]

\* Every variable has its type, and a session has a socket.
TypeOK ==
  /\ open \in BOOLEAN /\ conn \in BOOLEAN /\ ping \in BOOLEAN
  /\ cmd \in Commands \cup {"none"} /\ polled \in BOOLEAN
  /\ cmdAge \in Nat /\ sentAge \in Nat /\ recvAge \in Nat /\ pingAge \in Nat
  /\ alive \in BOOLEAN /\ toServer \in Seq(ServerPackets) /\ toClient \in Seq(ClientPackets)
  /\ pubs \in 0..MaxPubs /\ faults \in 0..MaxFaults
  /\ acked \subseteq 0..MaxPubs /\ received \subseteq 0..MaxPubs
  /\ conn \/ cmd # "none" => open

\* MQTTPublish takes any PUBACK for its own, whatever its packet id: still,
\* a publish that has returned SUCCESS was received, since no answer outlives
\* the session in which a command was given up.
AckedReceived == acked \subseteq received

\* A link that carries nothing any more is found out: while the session counts
\* as connected, something was read within one interval and a command.
DeadLinkSeen == conn => recvAge <= KeepAlive + CmdTimeout + 1

\* "PINGREQ after 60% of the interval, the remaining 40% to wait for its answer":
\* keepalive does not close the session before.
PingGrace == [][KeepaliveFailed => pingAge >= KeepAlive - (KeepAlive * 60) \div 100]_vars

\* The publish that is still on its way to the server.
Offered == IF \E i \in 1..Len(toServer) : toServer[i].type = "PUBLISH" THEN pubs ELSE 0

PublishSession ==
  INSTANCE Session WITH waiting <- (cmd = "pub"), sent <- pubs, offered <- Offered

\* The client keeps Session's promise to the main task: MQTTPublish returns
\* SUCCESS only for a publish the server has, every other return of it closes
\* the session, and nothing of an earlier publish or session arrives late.
IsSession == PublishSession!Spec
=============================================================================
