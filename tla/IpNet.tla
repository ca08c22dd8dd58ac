--------------------------------- MODULE IpNet ---------------------------------
(***************************************************************************)
(* One of three network devices at a time (net_connect/esp32/              *)
(* network_connection.cc, net/esp32/ethernet.cc, wifistation.cc,           *)
(* wifi_ap.cc), the event task that calls their handlers, and what the     *)
(* main task is told about the IP connection (net/ipnet.cc) and tells the  *)
(* SNTP client (net/esp32/ntp.cc).                                         *)
(***************************************************************************)
EXTENDS Integers, Sequences, FiniteSets

CONSTANTS
  Addresses, NoAddress,   \* an address stands for itself, its gateway and its net mask
  QueueLength,            \* the length of the queue of the main loop
  NtpServers,             \* cfg_ntp.server, split at its commas
  MaxServers,             \* SNTP_MAX_SERVERS
  NoServer

ASSUME IpNetAssumption ==
  /\ QueueLength \in Nat \ {0} /\ MaxServers \in Nat \ {0}
  /\ DOMAIN NtpServers \subseteq 1 .. MaxServers

VARIABLES
  current_connection,   \* "none", "lan", "sta" or "ap"
  eth,                  \* the parts of the Ethernet driver there are
  lan,                  \* the link: "off", "down" or "up"
  our_wifi,             \* the wireless interfaces there are: "sta", "ap"
  radio,                \* the station: "off", "idle", "connecting" or "connected"
  leased,               \* the station's interface has an address
  stations,             \* the stations of the access point
  current_connections, connections_since_start,
  handlers,             \* how often the handlers of each device are registered
  events,               \* the queue of the event task
  running,              \* the handler the event task is in
  ip4_address, ip4_gateway_address,
  queue,                \* the queue of the main loop
  said,                 \* the last event that the main task had to be told
  refused,              \* ... and the queue was full then
  Is_connected,
  sntp                  \* the servers of the SNTP client, and whether DHCP may give them

devicevars == <<current_connection, eth, lan, our_wifi, radio, leased, stations, handlers>>
countvars == <<current_connections, connections_since_start>>
addressvars == <<ip4_address, ip4_gateway_address>>
tellvars == <<queue, said, refused>>
mainvars == <<Is_connected, sntp>>
ipnetvars == <<devicevars, countvars, events, running, addressvars, tellvars, mainvars>>

Event(kind, address) == [kind |-> kind, address |-> address]

\* The event task is in no handler.
Nobody == [event |-> Event("none", NoAddress), step |-> "none", calls |-> 0]

IpNetInit ==
  /\ current_connection = "none" /\ eth = {} /\ lan = "off" /\ our_wifi = {}
  /\ radio = "off" /\ leased = FALSE /\ stations = 0
  /\ handlers = [h \in {"link", "lan_ip", "sta", "ap"} |-> 0]
  /\ current_connections = 0 /\ connections_since_start = 0
  /\ events = <<>> /\ running = Nobody
  /\ ip4_address = NoAddress /\ ip4_gateway_address = NoAddress
  /\ queue = <<>> /\ said = Event("none", NoAddress) /\ refused = FALSE
  /\ Is_connected = FALSE
  /\ sntp = [servers |-> [i \in 1 .. MaxServers |-> NoServer], dhcp |-> FALSE]

--------------------------------------------------------------------------------
(* Devices *)

\* ethernet_setdown: stopping a driver may fail, which is only logged, and uninstalling it may
\* fail, then all its parts are left.
EthernetSetdown(e) ==
  {[parts |-> {}, link |-> "off"]}
    \cup (IF "handle" \in e.parts THEN {e, [e EXCEPT !.link = "off"]} ELSE {})

\* ethernet_setup has eight steps, each of which may fail: it has made the parts of the first
\* k, and takes them down again if that is not all of them.
Steps == 8
EthernetParts(k) ==
  {p \in {"netif", "mac", "phy", "handle"} :
     k >= CASE p = "netif" -> 1 [] p = "mac" -> 4 [] p = "phy" -> 5 [] p = "handle" -> 6}

EthernetIs(some) == \E e \in some : eth' = e.parts /\ lan' = e.link

EthernetSetup(before) ==
  \E e \in IF "handle" \in before.parts THEN EthernetSetdown(before) ELSE {before}, k \in 0 .. Steps :
    /\ LET made == [parts |-> e.parts \cup EthernetParts(k), link |-> IF k = Steps THEN "down" ELSE e.link]
       IN  EthernetIs(IF k = Steps THEN {made} ELSE EthernetSetdown(made))
    /\ handlers' = [handlers EXCEPT !["link"] = IF k >= 2 THEN @ + 1 ELSE @,
                                    !["lan_ip"] = IF k >= 3 THEN @ + 1 ELSE @]

\* What a device that is taken down tells the event task: stopping the station ends its
\* connection, stopping the access point those of its stations.
Farewell ==
  CASE current_connection = "sta" /\ radio = "connected" -> <<Event("STA_DISCONNECTED", NoAddress)>>
    [] current_connection = "ap" -> [i \in 1 .. stations |-> Event("AP_LEAVE", NoAddress)]
    [] OTHER -> <<>>

AfterDisconnect ==
  LET now == [parts |-> eth, link |-> lan]
  IN  IF current_connection = "lan" THEN EthernetSetdown(now) ELSE {now}

\* wifiAp_setdown and wifiAp_setup
CountsAnew(new) ==
  /\ current_connections' = IF "ap" \in {current_connection} \cup new THEN 0 ELSE current_connections
  /\ connections_since_start' = IF "ap" \in new THEN 0 ELSE connections_since_start

\* nwc_disconnect, with the wifistation_setdown or wifiAp_setdown in it
WifiSetdown(new) ==
  /\ our_wifi' = (our_wifi \ {current_connection}) \cup new
  /\ radio' = IF "sta" \in new THEN "idle" ELSE "off"
  /\ leased' = FALSE /\ stations' = 0
  /\ CountsAnew(new)
  /\ events' = events \o Farewell
               \o (IF "sta" \in new THEN <<Event("STA_START", NoAddress)>> ELSE <<>>)

NoDeviceElse == UNCHANGED <<running, addressvars, tellvars, mainvars>>

nwc_disconnect ==
  /\ EthernetIs(AfterDisconnect)
  /\ WifiSetdown({})
  /\ current_connection' = "none"
  /\ UNCHANGED handlers
  /\ NoDeviceElse

\* nwc_connect.  Whether the device could be set up is not asked.
nwc_connect(nw, force) ==
  /\ current_connection = "none" \/ force
  /\ current_connection' = nw
  /\ WifiSetdown({nw} \cap {"sta", "ap"})
  /\ IF nw = "lan"
     THEN \E e \in AfterDisconnect : EthernetSetup(e)
     ELSE /\ EthernetIs(AfterDisconnect)
          /\ handlers' = [handlers EXCEPT ![nw] = @ + 1]
  /\ NoDeviceElse

--------------------------------------------------------------------------------
(* The world *)

Post(kind, address) ==
  /\ events' = Append(events, Event(kind, address))
  /\ UNCHANGED <<current_connection, eth, our_wifi, handlers, countvars, running, addressvars, tellvars, mainvars>>

LanGetsAddress ==
  /\ lan = "down" /\ lan' = "up"
  /\ \E a \in Addresses : Post("LAN_GOT_IP", a)
  /\ UNCHANGED <<radio, leased, stations>>

LanLinkLost ==
  /\ lan = "up" /\ lan' = "down"
  /\ Post("LAN_DISCONNECTED", NoAddress)
  /\ UNCHANGED <<radio, leased, stations>>

StationGetsAddress ==
  /\ radio = "connecting" /\ radio' = "connected" /\ leased' = TRUE
  /\ \E a \in Addresses : Post("STA_GOT_IP", a)
  /\ UNCHANGED <<lan, stations>>

StationDisconnects ==
  /\ radio \in {"connecting", "connected"} /\ radio' = "idle"
  /\ Post("STA_DISCONNECTED", NoAddress)
  /\ UNCHANGED <<lan, leased, stations>>

\* The address is given up some time after the connection is lost.
StationLosesAddress ==
  /\ leased /\ radio # "connected" /\ leased' = FALSE
  /\ Post("STA_LOST_IP", NoAddress)
  /\ UNCHANGED <<lan, radio, stations>>

StationJoins ==
  /\ "ap" \in our_wifi
  /\ stations' = stations + 1
  /\ Post("AP_JOIN", NoAddress)
  /\ UNCHANGED <<lan, radio, leased>>

StationLeaves ==
  /\ stations > 0
  /\ stations' = stations - 1
  /\ Post("AP_LEAVE", NoAddress)
  /\ UNCHANGED <<lan, radio, leased>>

\* Somebody else has the main task call a function.
OtherFunction ==
  /\ Len(queue) < QueueLength
  /\ queue' = Append(queue, "other")
  /\ UNCHANGED <<devicevars, countvars, events, running, addressvars, said, refused, mainvars>>

--------------------------------------------------------------------------------
(* The event task calls each handler as often as it is registered. *)

HandlerOf(kind) ==
  CASE kind = "LAN_DISCONNECTED" -> "link"
    [] kind = "LAN_GOT_IP" -> "lan_ip"
    [] kind \in {"AP_JOIN", "AP_LEAVE"} -> "ap"
    [] OTHER -> "sta"

Dispatch ==
  /\ running = Nobody /\ events # <<>>
  /\ events' = Tail(events)
  /\ running' = [event |-> Head(events), step |-> "enter", calls |-> handlers[HandlerOf(Head(events).kind)]]
  /\ UNCHANGED <<devicevars, countvars, addressvars, tellvars, mainvars>>

In(kinds, step) == running.step = step /\ running.event.kind \in kinds

Return ==
  running' = IF running.calls = 1 THEN Nobody
             ELSE [running EXCEPT !.calls = @ - 1, !.step = "enter"]

\* got_ip_event_handler
GotIp ==
  /\ In({"LAN_GOT_IP", "STA_GOT_IP"}, "enter")
  /\ ip4_address' = running.event.address
  /\ ip4_gateway_address' = running.event.address
  /\ running' = [running EXCEPT !.step = "call"]
  /\ UNCHANGED <<devicevars, countvars, events, tellvars, mainvars>>

\* mainLoop_callFun, whose result nobody looks at
CallFun(f) ==
  /\ queue' = IF Len(queue) < QueueLength THEN Append(queue, f) ELSE queue
  /\ refused' = (Len(queue) = QueueLength)
  /\ said' = running.event

GotIpTell ==
  /\ In({"LAN_GOT_IP", "STA_GOT_IP"}, "call")
  /\ CallFun("ipnet_connected")
  /\ Return
  /\ UNCHANGED <<devicevars, countvars, events, addressvars, mainvars>>

\* A bug: it is called in front of what has been asked for before it.
LostIpInFront ==
  /\ In({"STA_LOST_IP"}, "enter")
  /\ queue' = IF Len(queue) < QueueLength THEN <<"ipnet_disconnected">> \o queue ELSE queue
  /\ refused' = (Len(queue) = QueueLength)
  /\ said' = running.event
  /\ Return
  /\ UNCHANGED <<devicevars, countvars, events, addressvars, mainvars>>

\* lost_ip_event_handler
LostIp ==
  /\ In({"STA_LOST_IP"}, "enter")
  /\ CallFun("ipnet_disconnected")
  /\ Return
  /\ UNCHANGED <<devicevars, countvars, events, addressvars, mainvars>>

\* esp_wifi_connect
WifiConnect ==
  /\ radio' = IF radio = "idle" THEN "connecting" ELSE radio
  /\ UNCHANGED <<current_connection, eth, lan, our_wifi, leased, stations, handlers>>

StationStarts ==
  /\ In({"STA_START"}, "enter")
  /\ WifiConnect
  /\ Return
  /\ UNCHANGED <<countvars, events, addressvars, tellvars, mainvars>>

\* A bug: the handler leaves it to somebody else to connect again.
StationIsDownOnly ==
  /\ In({"STA_DISCONNECTED"}, "enter")
  /\ ip4_address' = NoAddress
  /\ Return
  /\ UNCHANGED <<devicevars, countvars, events, ip4_gateway_address, tellvars, mainvars>>

StationIsDown ==
  /\ In({"STA_DISCONNECTED"}, "enter")
  /\ ip4_address' = NoAddress
  /\ WifiConnect
  /\ Return
  /\ UNCHANGED <<countvars, events, ip4_gateway_address, tellvars, mainvars>>

\* eth_event_handler: the main task is not told.
LinkIsDown ==
  /\ In({"LAN_DISCONNECTED"}, "enter")
  /\ Return
  /\ UNCHANGED <<devicevars, countvars, events, addressvars, tellvars, mainvars>>

CountStation ==
  /\ In({"AP_JOIN", "AP_LEAVE"}, "enter")
  /\ LET joins == running.event.kind = "AP_JOIN"
     IN  /\ current_connections' = current_connections + IF joins THEN 1 ELSE -1
         /\ connections_since_start' = connections_since_start + IF joins THEN 1 ELSE 0
  /\ Return
  /\ UNCHANGED <<devicevars, events, addressvars, tellvars, mainvars>>

EventTask ==
  \/ Dispatch \/ GotIp \/ GotIpTell \/ LostIp
  \/ StationStarts \/ StationIsDown \/ LinkIsDown \/ CountStation

--------------------------------------------------------------------------------
(* The main task *)

\* set_server_by_config: the list is worked through up to a "dhcp", which sets no server.
NtpSetup ==
  LET dhcps == {i \in DOMAIN NtpServers : NtpServers[i] = "dhcp"}
      set == {i \in DOMAIN NtpServers : \A d \in dhcps : i < d}
      server(i) == IF NtpServers[i] = "gateway" THEN ip4_gateway_address ELSE NtpServers[i]
  IN  [servers |-> [i \in 1 .. MaxServers |-> IF i \in set THEN server(i) ELSE sntp.servers[i]],
       dhcp |-> IF NtpServers = <<>> THEN sntp.dhcp ELSE dhcps # {}]

Called(f) == queue # <<>> /\ Head(queue) = f /\ queue' = Tail(queue)

\* ipnet_connected, with the ntp_setup of the call-back
IpConnected ==
  /\ Called("ipnet_connected")
  /\ Is_connected' = TRUE
  /\ sntp' = NtpSetup
  /\ UNCHANGED <<devicevars, countvars, events, running, addressvars, said, refused>>

\* ipnet_disconnected
IpDisconnected ==
  /\ Called("ipnet_disconnected")
  /\ Is_connected' = FALSE
  /\ UNCHANGED <<devicevars, countvars, events, running, addressvars, said, refused, sntp>>

CallOther ==
  /\ Called("other")
  /\ UNCHANGED <<devicevars, countvars, events, running, addressvars, said, refused, mainvars>>
================================================================================
