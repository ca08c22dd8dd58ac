-------------------------------- MODULE Network --------------------------------
(***************************************************************************)
(* The network of a device: the IP connection (IpNet) makes the main task  *)
(* start and stop the HTTP server (WebServer) and set up the MQTT client   *)
(* (MqttClient).  Five tasks run: the main task, the event task, those of  *)
(* the server and of the MQTT library, and any that sends a text.          *)
(***************************************************************************)
EXTENDS IpNet, WebServer, MqttClient

CONSTANT MaxHappenings  \* bound: what the user, the air, the broker and the clients do

VARIABLE happened

vars == <<ipnetvars, webvars, mqttvars, happened>>

Init == IpNetInit /\ WebInit /\ MqttInit /\ happened = 0

Quiet == UNCHANGED happened

Happens == happened < MaxHappenings /\ happened' = happened + 1

--------------------------------------------------------------------------------
(* The main task.  The call-back of the application starts the server and the client. *)

AppConnected ==
  /\ main = "loop"
  /\ IpConnected
  /\ \E login \in Logins : Start(login)
  /\ MqttSetup
  /\ Quiet

AppDisconnected ==
  /\ main = "loop"
  /\ IpDisconnected
  /\ Stop
  /\ UNCHANGED mqttvars /\ Quiet

UserConnects ==
  /\ main = "loop"
  /\ \E nw \in {"lan", "sta", "ap"}, force \in BOOLEAN : nwc_connect(nw, force)
  /\ Happens
  /\ UNCHANGED <<webvars, mqttvars>>

UserDisconnects ==
  /\ main = "loop"
  /\ nwc_disconnect
  /\ Happens
  /\ UNCHANGED <<webvars, mqttvars>>

SomeFunction ==
  /\ main = "loop"
  /\ CallOther
  /\ UNCHANGED <<webvars, mqttvars>> /\ Quiet

MainTask ==
  \/ AppConnected \/ AppDisconnected \/ SomeFunction
  \/ (MqttStop \/ MqttDestroy \/ MqttCreate) /\ UNCHANGED <<ipnetvars, webvars>> /\ Quiet

--------------------------------------------------------------------------------

World ==
  /\ \/ LanGetsAddress \/ LanLinkLost
     \/ StationGetsAddress \/ StationDisconnects \/ StationLosesAddress
     \/ StationJoins \/ StationLeaves \/ OtherFunction
  /\ Happens
  /\ UNCHANGED <<webvars, mqttvars>>

Events == EventTask /\ UNCHANGED <<webvars, mqttvars>> /\ Quiet

Visitors ==
  /\ \/ \E fd \in Fds : Join(fd) \/ Leave(fd)
     \/ SendJson
     \/ \E login \in Logins, inMemory \in BOOLEAN : Request(login, inMemory)
  /\ Happens
  /\ UNCHANGED <<ipnetvars, mqttvars>>

Serves ==
  /\ Broadcast \/ SendChunk \/ SendFails \/ ReadFails
  /\ UNCHANGED <<ipnetvars, mqttvars>> /\ Quiet

Broker ==
  /\ MqttConnected \/ MqttDisconnected
  /\ Happens
  /\ UNCHANGED <<ipnetvars, webvars>>

Library ==
  /\ MqttSubscribe \/ MqttForgets
  /\ UNCHANGED <<ipnetvars, webvars>> /\ Quiet

Next ==
  \/ MainTask \/ UserConnects \/ UserDisconnects
  \/ World \/ Events \/ Visitors \/ Serves \/ Broker \/ Library

Spec == Init /\ [][Next]_vars

\* The event task has the highest priority of them and no handler waits for more than ten ticks.
FairSpec == Spec /\ WF_vars(Events)

--------------------------------------------------------------------------------

GotIpEvents == {"LAN_GOT_IP", "STA_GOT_IP"}

\* What the main task still has to be told
Told == {i \in DOMAIN queue : queue[i] # "other"}

\* The SNTP client has this gateway where the configuration says so, which a "dhcp" ends.
GatewayIs(address) ==
  \A i \in DOMAIN NtpServers :
    (\A j \in 1 .. i : NtpServers[j] # "dhcp") /\ NtpServers[i] = "gateway" => sntp.servers[i] = address

\* When the event task has no handler to finish and the main task nothing to be told, what the
\* main task believes of the connection is what it was last told of it, and the gateway it has
\* given to the SNTP client is that of the last connection, however connections have been lost
\* and made in the meantime; unless the last it had to be told found the queue full
\* (wifistation.cc:79,95, ethernet.cc:93, ipnet.cc:27, ntp.cc:38).
LastWordCounts ==
  running = Nobody /\ ~refused /\ Told = {} =>
    /\ Is_connected <=> said.kind \in GotIpEvents
    /\ Is_connected => GatewayIs(said.address)

\* A websocket client that has not been dropped has been sent every text since it joined, in
\* order and once, whoever else has left or failed; and a file that was reported to be sent was
\* sent as a whole and ended (websocket.cc:45, uri_handlers.cc:29).
WebClientsServed ==
  /\ \A fd \in ws_fds : sessions[fd] # NoSession =>
       got[fd] = SubSeq(done, sessions[fd] + 1, Len(done))
  /\ answer.result = "ok" => answer.ended /\ answer.chunks = FileLength

\* On every connection to the broker the application's subscription is sent: it never finds the
\* client missing or taken to be off line; and a client that waits for the broker, be it a new
\* one, is never taken to be connected (mqtt.cc:41,146,210).
SubscriptionsAreMade ==
  /\ mqtt = "online" => subscribed
  /\ mqtt = "waiting" => ~is_connected
  /\ mqtt \in {"connected", "online"} => client

\* A station that has been started or has lost its connection tries to connect again, or is
\* taken down (wifistation.cc:54).
NeverLeftIdle == radio = "idle" ~> radio # "idle"
================================================================================
