---------------------------- MODULE Network_proofs ----------------------------
(* Theorems about the network, for every set of addresses, sockets and logins, *)
(* every length of the queue and list of servers, and any number of events.    *)
EXTENDS Network, TLAPS, SequenceTheorems, WellFoundedInduction

--------------------------------------------------------------------------------
(* The MQTT client *)

\* The library's task and the flags agree with each other and with the step of the main task.
MqttInv ==
  /\ client \in BOOLEAN /\ is_connected \in BOOLEAN /\ subscribed \in BOOLEAN
  /\ mqtt \in {"none", "deaf", "waiting", "connected", "online", "disconnected"}
  /\ ~client => mqtt = "none" /\ ~is_connected
  /\ main \in {"destroy", "create"} => mqtt = "none"
  /\ main = "create" => ~is_connected
  /\ mqtt \in {"connected", "online"} => is_connected
  /\ mqtt \in {"deaf", "waiting"} => ~is_connected
  /\ mqtt = "none" /\ main # "destroy" => ~is_connected
  /\ mqtt = "online" => subscribed

\* Every step keeps the client in this state.
LEMMA MqttStep == MqttInv /\ [Next]_vars => MqttInv'
<1> SUFFICES ASSUME MqttInv, [Next]_vars PROVE MqttInv'
  OBVIOUS
<1>1. CASE UNCHANGED mqttvars
  BY <1>1 DEF MqttInv, mqttvars
<1>2. CASE main = "loop" /\ MqttSetup
  BY <1>2, Zenon DEF MqttInv, MqttSetup
<1>3. CASE MqttStop
  BY <1>3 DEF MqttInv, MqttStop, InHandler
<1>4. CASE MqttDestroy
  BY <1>4 DEF MqttInv, MqttDestroy
<1>5. CASE MqttCreate
  <2>1. PICK outcome \in {"no client", "deaf", "waiting", "none"} :
          /\ client' = (outcome # "no client")
          /\ mqtt' = IF outcome = "no client" THEN "none" ELSE outcome
    BY <1>5 DEF MqttCreate
  <2> QED
    BY <1>5, <2>1 DEF MqttInv, MqttCreate
<1>6. CASE MqttConnected
  BY <1>6 DEF MqttInv, MqttConnected
<1>7. CASE MqttSubscribe
  BY <1>7 DEF MqttInv, MqttSubscribe
<1>8. CASE MqttDisconnected
  BY <1>8 DEF MqttInv, MqttDisconnected
<1>9. CASE MqttForgets
  BY <1>9 DEF MqttInv, MqttForgets
<1> QED
  BY <1>1, <1>2, <1>3, <1>4, <1>5, <1>6, <1>7, <1>8, <1>9
  DEF Next, MainTask, AppConnected, AppDisconnected, SomeFunction, UserConnects,
      UserDisconnects, World, Events, Visitors, Serves, Broker, Library, vars

\* Every connection to the broker gets its subscriptions, and no new client is taken for a
\* connected one, whatever the main task and the library's task do in between.
THEOREM AllAreSubscribed == Spec => []SubscriptionsAreMade
<1>1. Init => MqttInv
  BY DEF Init, MqttInit, MqttInv
<1>2. MqttInv => SubscriptionsAreMade
  BY DEF MqttInv, SubscriptionsAreMade
<1> QED
  BY <1>1, <1>2, MqttStep, PTL DEF Spec

--------------------------------------------------------------------------------
(* What the main task believes *)

MainFunctions == {"ipnet_connected", "ipnet_disconnected", "other"}

TellTypes ==
  /\ queue \in Seq(MainFunctions) /\ Len(queue) <= QueueLength
  /\ Is_connected \in BOOLEAN /\ refused \in BOOLEAN
  /\ running = [event |-> running.event, step |-> running.step, calls |-> running.calls]
  /\ running.step \in {"none", "enter", "call"}

\* The gateway is that of the connection of which main has been told, or is about to be told.
GatewayKnown ==
  /\ running.step = "call" => ip4_gateway_address = running.event.address
  /\ running.step # "call" /\ said.kind \in GotIpEvents => ip4_gateway_address = said.address

\* Of what main still has to be told the last is the last that was said ...
LastInQueue ==
  ~refused =>
    \A i \in Told : (\A j \in Told : j <= i) =>
      (queue[i] = "ipnet_connected" <=> said.kind \in GotIpEvents)

\* ... and if there is nothing, main has taken notice of it.
LastIsBelieved ==
  ~refused /\ Told = {} =>
    /\ Is_connected <=> said.kind \in GotIpEvents
    /\ running.step # "call" /\ Is_connected => GatewayIs(said.address)

TellInv == TellTypes /\ GatewayKnown /\ LastInQueue /\ LastIsBelieved

tellingvars == <<queue, said, refused, Is_connected, sntp, running, ip4_gateway_address>>

\* A handler that returns leaves the event task in no handler or in the next call of it.
LEMMA Returns ==
  ASSUME TellTypes, Return
  PROVE  /\ running' = [event |-> running'.event, step |-> running'.step, calls |-> running'.calls]
         /\ running'.step \in {"none", "enter"}
<1>1. CASE running.calls = 1
  BY <1>1 DEF Return, Nobody
<1>2. CASE running.calls # 1
  <2>1. running' = [event |-> running.event, step |-> "enter", calls |-> running.calls - 1]
    BY <1>2 DEF Return, TellTypes
  <2> QED
    BY <2>1
<1> QED
  BY <1>1, <1>2

\* What is left when the main task has taken the first function.
LEMMA Taken ==
  ASSUME NEW f \in MainFunctions, TellTypes, Called(f)
  PROVE  /\ queue' \in Seq(MainFunctions) /\ Len(queue') <= QueueLength
         /\ queue[1] = f /\ 1 \in DOMAIN queue
         /\ \A i \in DOMAIN queue' : i \in Nat /\ i + 1 \in DOMAIN queue /\ queue'[i] = queue[i + 1]
         /\ \A i \in DOMAIN queue : i \in Nat /\ i >= 1 /\ (i # 1 => i - 1 \in DOMAIN queue')
<1>1. queue \in Seq(MainFunctions) /\ queue # <<>> /\ queue' = Tail(queue) /\ Head(queue) = f
  BY DEF TellTypes, Called
<1>2. Len(queue) \in Nat /\ Len(queue) >= 1 /\ Len(queue') = Len(queue) - 1
  BY <1>1
<1>3. queue' \in Seq(MainFunctions)
  BY <1>1
<1>4. DOMAIN queue = 1 .. Len(queue) /\ DOMAIN queue' = 1 .. Len(queue')
  BY <1>1, <1>3
<1>5. \A i \in 1 .. Len(queue') : queue'[i] = queue[i + 1]
  BY <1>1
<1>6. queue[1] = f
  BY <1>1
<1>7. Len(queue') <= QueueLength
  BY <1>2, IpNetAssumption DEF TellTypes
<1> QED
  BY <1>2, <1>3, <1>4, <1>5, <1>6, <1>7

\* What is there when another function has been put behind the others.
LEMMA Put ==
  ASSUME NEW f \in MainFunctions, TellTypes, Len(queue) < QueueLength, queue' = Append(queue, f)
  PROVE  /\ queue' \in Seq(MainFunctions) /\ Len(queue') <= QueueLength
         /\ DOMAIN queue' = DOMAIN queue \cup {Len(queue) + 1}
         /\ \A i \in DOMAIN queue : i \in Nat /\ i <= Len(queue) /\ queue'[i] = queue[i]
         /\ queue'[Len(queue) + 1] = f /\ Len(queue) \in Nat
<1>1. queue \in Seq(MainFunctions) /\ Len(queue) \in Nat
  BY DEF TellTypes
<1>2. queue' \in Seq(MainFunctions) /\ Len(queue') = Len(queue) + 1
  BY <1>1
<1>3. DOMAIN queue = 1 .. Len(queue) /\ DOMAIN queue' = 1 .. Len(queue')
  BY <1>1, <1>2
<1>4. \A i \in 1 .. Len(queue) : queue'[i] = queue[i]
  BY <1>1
<1>5. queue'[Len(queue) + 1] = f
  BY <1>1
<1>6. Len(queue') <= QueueLength
  BY <1>1, <1>2, IpNetAssumption
<1> QED
  BY <1>1, <1>2, <1>3, <1>4, <1>5, <1>6

\* The first function is taken: the last that is still to be told stays the last ...
LEMMA LastMoves ==
  ASSUME NEW f \in MainFunctions, TellTypes, Called(f), LastInQueue, UNCHANGED <<said, refused>>
  PROVE  LastInQueue'
<1> SUFFICES ASSUME ~refused, NEW i \in Told', \A j \in Told' : j <= i
             PROVE  queue'[i] = "ipnet_connected" <=> said.kind \in GotIpEvents
  BY DEF LastInQueue
<1>1. i \in DOMAIN queue' /\ queue'[i] # "other"
  BY DEF Told
<1>2. i \in Nat /\ i + 1 \in DOMAIN queue /\ queue'[i] = queue[i + 1]
  BY <1>1, Taken
<1>3. i + 1 \in Told
  BY <1>1, <1>2 DEF Told
<1>4. ASSUME NEW j \in Told PROVE j <= i + 1
  <2>1. j \in DOMAIN queue /\ queue[j] # "other" /\ j \in Nat
    BY Taken DEF Told
  <2>2. CASE j = 1
    BY <1>2, <2>2
  <2>3. CASE j # 1
    <3>1. j - 1 \in DOMAIN queue' /\ j >= 1
      BY <2>1, <2>3, Taken
    <3>2. queue'[j - 1] = queue[(j - 1) + 1] /\ (j - 1) + 1 = j
      BY <2>1, <3>1, Taken
    <3>3. j - 1 \in Told'
      BY <2>1, <3>1, <3>2 DEF Told
    <3>4. j - 1 <= i
      BY <3>3
    <3> QED
      BY <1>2, <2>1, <3>4
  <2> QED
    BY <2>2, <2>3
<1> QED
  BY <1>2, <1>3, <1>4 DEF LastInQueue

\* ... and if nothing is left to be told it was the last.
LEMMA OnlyOne ==
  ASSUME NEW f \in MainFunctions \ {"other"}, TellTypes, Called(f), LastInQueue, ~refused, Told' = {}
  PROVE  f = "ipnet_connected" <=> said.kind \in GotIpEvents
<1>1. 1 \in Told /\ queue[1] = f
  BY Taken DEF Told
<1>2. ASSUME NEW j \in Told PROVE j <= 1
  <2>1. j \in DOMAIN queue /\ queue[j] # "other" /\ j \in Nat
    BY Taken DEF Told
  <2>2. SUFFICES ASSUME j # 1 PROVE FALSE
    BY <2>1
  <2>3. j - 1 \in DOMAIN queue' /\ j >= 1
    BY <2>1, <2>2, Taken
  <2>4. queue'[j - 1] = queue[(j - 1) + 1] /\ (j - 1) + 1 = j
    BY <2>1, <2>3, Taken
  <2> QED
    BY <2>1, <2>3, <2>4 DEF Told
<1> QED
  BY <1>1, <1>2 DEF LastInQueue

\* ntp_setup gives the gateway there is to the SNTP client.
LEMMA GatewaySet ==
  ASSUME sntp' = NtpSetup
  PROVE  \A i \in DOMAIN NtpServers :
           (\A j \in 1 .. i : NtpServers[j] # "dhcp") /\ NtpServers[i] = "gateway"
             => sntp'.servers[i] = ip4_gateway_address
<1> DEFINE dhcps == {i \in DOMAIN NtpServers : NtpServers[i] = "dhcp"}
           set == {i \in DOMAIN NtpServers : \A d \in dhcps : i < d}
           server(i) == IF NtpServers[i] = "gateway" THEN ip4_gateway_address ELSE NtpServers[i]
<1>1. sntp'.servers = [i \in 1 .. MaxServers |-> IF i \in set THEN server(i) ELSE sntp.servers[i]]
  BY DEF NtpSetup
<1> SUFFICES ASSUME NEW i \in DOMAIN NtpServers,
                    \A j \in 1 .. i : NtpServers[j] # "dhcp", NtpServers[i] = "gateway"
             PROVE  sntp'.servers[i] = ip4_gateway_address
  OBVIOUS
<1>2. i \in 1 .. MaxServers /\ i \in Nat
  BY IpNetAssumption
<1>3. ASSUME NEW d \in dhcps PROVE i < d
  <2>1. d \in DOMAIN NtpServers /\ NtpServers[d] = "dhcp"
    OBVIOUS
  <2>2. d \in 1 .. MaxServers
    BY <2>1, IpNetAssumption
  <2>3. d \notin 1 .. i
    BY <2>1
  <2> QED
    BY <1>2, <2>2, <2>3, IpNetAssumption
<1>4. i \in set
  BY <1>3
<1> QED
  BY <1>1, <1>2, <1>4

\* Main takes notice of a connection.
LEMMA ConnectedStep == TellInv /\ IpConnected => TellInv'
<1> SUFFICES ASSUME TellInv, IpConnected PROVE TellInv'
  OBVIOUS
<1> DEFINE told == said.kind \in GotIpEvents
<1>1. Called("ipnet_connected") /\ TellTypes
  BY DEF IpConnected, TellInv
<1>2. UNCHANGED <<running, ip4_gateway_address, said, refused>> /\ Is_connected' = TRUE /\ sntp' = NtpSetup
  BY DEF IpConnected, addressvars
<1>3. /\ queue' \in Seq(MainFunctions) /\ Len(queue') <= QueueLength
      /\ queue[1] = "ipnet_connected" /\ 1 \in DOMAIN queue
      /\ \A i \in DOMAIN queue' : i \in Nat /\ i + 1 \in DOMAIN queue /\ queue'[i] = queue[i + 1]
      /\ \A i \in DOMAIN queue : i \in Nat /\ i >= 1 /\ (i # 1 => i - 1 \in DOMAIN queue')
  BY <1>1, Taken DEF MainFunctions
<1>4. TellTypes'
  BY <1>1, <1>2, <1>3 DEF TellTypes
<1>5. GatewayKnown'
  BY <1>2 DEF TellInv, GatewayKnown
<1>6. LastInQueue'
  BY <1>1, <1>2, LastMoves DEF TellInv, MainFunctions
<1>7. ~refused /\ Told' = {} => told
  BY <1>1, <1>2, OnlyOne DEF TellInv, MainFunctions
<1>8. running.step # "call" /\ told => ip4_gateway_address = said.address
  BY DEF TellInv, GatewayKnown
<1>9. LastIsBelieved'
  BY <1>2, <1>7, <1>8, GatewaySet DEF LastIsBelieved, GatewayIs
<1> QED
  BY <1>4, <1>5, <1>6, <1>9 DEF TellInv

\* Main takes notice of a loss.
LEMMA DisconnectedStep == TellInv /\ IpDisconnected => TellInv'
<1> SUFFICES ASSUME TellInv, IpDisconnected PROVE TellInv'
  OBVIOUS
<1>1. Called("ipnet_disconnected") /\ TellTypes
  BY DEF IpDisconnected, TellInv
<1>2. UNCHANGED <<running, ip4_gateway_address, said, refused>> /\ Is_connected' = FALSE
  BY DEF IpDisconnected, addressvars
<1>3. queue' \in Seq(MainFunctions) /\ Len(queue') <= QueueLength
  BY <1>1, Taken DEF MainFunctions
<1>4. TellTypes'
  BY <1>1, <1>2, <1>3 DEF TellTypes
<1>5. GatewayKnown'
  BY <1>2 DEF TellInv, GatewayKnown
<1>6. LastInQueue'
  BY <1>1, <1>2, LastMoves DEF TellInv, MainFunctions
<1>7. ~refused /\ Told' = {} => ~ (said.kind \in GotIpEvents)
  BY <1>1, <1>2, OnlyOne DEF TellInv, MainFunctions
<1>8. LastIsBelieved'
  BY <1>2, <1>7 DEF LastIsBelieved
<1> QED
  BY <1>4, <1>5, <1>6, <1>8 DEF TellInv

\* Main calls somebody else's function.
LEMMA OtherStep == TellInv /\ CallOther => TellInv'
<1> SUFFICES ASSUME TellInv, CallOther PROVE TellInv'
  OBVIOUS
<1>1. Called("other") /\ TellTypes
  BY DEF CallOther, TellInv
<1>2. UNCHANGED <<running, ip4_gateway_address, said, refused, Is_connected, sntp>>
  BY DEF CallOther, addressvars, mainvars
<1>3. /\ queue' \in Seq(MainFunctions) /\ Len(queue') <= QueueLength
      /\ queue[1] = "other" /\ 1 \in DOMAIN queue
      /\ \A i \in DOMAIN queue' : i \in Nat /\ i + 1 \in DOMAIN queue /\ queue'[i] = queue[i + 1]
      /\ \A i \in DOMAIN queue : i \in Nat /\ i >= 1 /\ (i # 1 => i - 1 \in DOMAIN queue')
  BY <1>1, Taken DEF MainFunctions
<1>4. TellTypes'
  BY <1>1, <1>2, <1>3 DEF TellTypes
<1>5. GatewayKnown'
  BY <1>2 DEF TellInv, GatewayKnown
<1>6. LastInQueue'
  BY <1>1, <1>2, LastMoves DEF TellInv, MainFunctions
<1>7. ASSUME Told' = {} PROVE Told = {}
  <2> SUFFICES ASSUME NEW j \in Told PROVE FALSE
    OBVIOUS
  <2>1. j \in DOMAIN queue /\ queue[j] # "other" /\ j # 1
    BY <1>3 DEF Told
  <2>2. j - 1 \in DOMAIN queue' /\ j \in Nat
    BY <1>3, <2>1
  <2>3. queue'[j - 1] = queue[(j - 1) + 1] /\ (j - 1) + 1 = j
    BY <1>3, <2>2
  <2> QED
    BY <1>7, <2>1, <2>2, <2>3 DEF Told
<1>8. LastIsBelieved'
  BY <1>2, <1>7 DEF TellInv, LastIsBelieved, GatewayIs
<1> QED
  BY <1>4, <1>5, <1>6, <1>8 DEF TellInv

\* Another task has main call a function of its own.
LEMMA OtherFunctionStep == TellInv /\ OtherFunction => TellInv'
<1> SUFFICES ASSUME TellInv, OtherFunction PROVE TellInv'
  OBVIOUS
<1>1. Len(queue) < QueueLength /\ queue' = Append(queue, "other") /\ TellTypes
  BY DEF OtherFunction, TellInv
<1>2. UNCHANGED <<running, ip4_gateway_address, said, refused, Is_connected, sntp>>
  BY DEF OtherFunction, addressvars, mainvars
<1>3. /\ queue' \in Seq(MainFunctions) /\ Len(queue') <= QueueLength
      /\ DOMAIN queue' = DOMAIN queue \cup {Len(queue) + 1}
      /\ \A i \in DOMAIN queue : i \in Nat /\ i <= Len(queue) /\ queue'[i] = queue[i]
      /\ queue'[Len(queue) + 1] = "other" /\ Len(queue) \in Nat
  BY <1>1, Put DEF MainFunctions
<1>4. Told' = Told
  BY <1>3 DEF Told
<1>5. \A i \in Told : queue'[i] = queue[i]
  BY <1>3 DEF Told
<1>6. TellTypes'
  BY <1>1, <1>2, <1>3 DEF TellTypes
<1>7. GatewayKnown'
  BY <1>2 DEF TellInv, GatewayKnown
<1>8. LastInQueue'
  BY <1>2, <1>4, <1>5 DEF TellInv, LastInQueue
<1>9. LastIsBelieved'
  BY <1>2, <1>4 DEF TellInv, LastIsBelieved, GatewayIs
<1> QED
  BY <1>6, <1>7, <1>8, <1>9 DEF TellInv

\* What a handler has main called for is the last that main has to be told, or is refused.
LEMMA CallFunStep ==
  ASSUME NEW f \in MainFunctions \ {"other"}, TellTypes, CallFun(f)
  PROVE  /\ queue' \in Seq(MainFunctions) /\ Len(queue') <= QueueLength /\ refused' \in BOOLEAN
         /\ ~refused' => /\ Told' # {}
                         /\ \A i \in Told' : (\A j \in Told' : j <= i) => queue'[i] = f
<1>1. CASE Len(queue) < QueueLength
  <2>1. queue' = Append(queue, f)
    BY <1>1 DEF CallFun
  <2>2. /\ queue' \in Seq(MainFunctions) /\ Len(queue') <= QueueLength
        /\ DOMAIN queue' = DOMAIN queue \cup {Len(queue) + 1}
        /\ \A i \in DOMAIN queue : i \in Nat /\ i <= Len(queue) /\ queue'[i] = queue[i]
        /\ queue'[Len(queue) + 1] = f /\ Len(queue) \in Nat
    BY <1>1, <2>1, Put
  <2>3. Len(queue) + 1 \in Told'
    BY <2>2 DEF Told
  <2>4. ASSUME NEW i \in Told', \A j \in Told' : j <= i PROVE queue'[i] = f
    <3>1. Len(queue) + 1 <= i
      BY <2>3, <2>4
    <3>2. i \in DOMAIN queue \cup {Len(queue) + 1}
      BY <2>2 DEF Told
    <3> QED
      BY <2>2, <3>1, <3>2
  <2>5. refused' \in BOOLEAN
    BY DEF CallFun
  <2> QED
    BY <2>2, <2>3, <2>4, <2>5
<1>2. CASE ~ (Len(queue) < QueueLength)
  <2>1. queue' = queue /\ Len(queue) \in Nat /\ Len(queue) <= QueueLength
    BY <1>2 DEF CallFun, TellTypes
  <2>2. Len(queue) = QueueLength
    BY <1>2, <2>1, IpNetAssumption
  <2>3. refused' = TRUE
    BY <2>2 DEF CallFun
  <2> QED
    BY <2>1, <2>3 DEF TellTypes
<1> QED
  BY <1>1, <1>2

\* A handler of a new address notes it ...
LEMMA GotIpStep == TellInv /\ GotIp => TellInv'
<1> SUFFICES ASSUME TellInv, GotIp PROVE TellInv'
  OBVIOUS
<1>1. /\ running' = [event |-> running.event, step |-> "call", calls |-> running.calls]
      /\ ip4_gateway_address' = running.event.address
      /\ UNCHANGED <<queue, said, refused, Is_connected, sntp>>
  BY DEF GotIp, TellInv, TellTypes, tellvars, mainvars
<1>2. running'.step = "call" /\ running'.event = running.event
  BY <1>1
<1>3. TellTypes'
  BY <1>1, <1>2 DEF TellInv, TellTypes
<1>4. GatewayKnown'
  BY <1>1, <1>2 DEF GatewayKnown
<1>5. Told' = Told
  BY <1>1 DEF Told
<1>6. LastInQueue'
  BY <1>1, <1>5 DEF TellInv, LastInQueue
<1>7. LastIsBelieved'
  BY <1>1, <1>2, <1>5 DEF TellInv, LastIsBelieved
<1> QED
  BY <1>3, <1>4, <1>6, <1>7 DEF TellInv

\* ... and has main told of it.
LEMMA GotIpTellStep == TellInv /\ GotIpTell => TellInv'
<1> SUFFICES ASSUME TellInv, GotIpTell PROVE TellInv'
  OBVIOUS
<1>1. /\ running.step = "call" /\ running.event.kind \in GotIpEvents
      /\ CallFun("ipnet_connected") /\ Return /\ TellTypes
      /\ UNCHANGED <<ip4_gateway_address, Is_connected, sntp>>
  BY DEF GotIpTell, In, GotIpEvents, TellInv, addressvars, mainvars
<1>2. /\ running' = [event |-> running'.event, step |-> running'.step, calls |-> running'.calls]
      /\ running'.step \in {"none", "enter"}
  BY <1>1, Returns
<1>3. /\ queue' \in Seq(MainFunctions) /\ Len(queue') <= QueueLength /\ refused' \in BOOLEAN
      /\ ~refused' => /\ Told' # {}
                      /\ \A i \in Told' : (\A j \in Told' : j <= i) => queue'[i] = "ipnet_connected"
  BY <1>1, CallFunStep DEF MainFunctions
<1>4. said' = running.event
  BY <1>1 DEF CallFun
<1>5. TellTypes'
  BY <1>1, <1>2, <1>3 DEF TellTypes
<1>6. ip4_gateway_address' = said'.address
  BY <1>1, <1>4 DEF TellInv, GatewayKnown
<1>7. GatewayKnown'
  BY <1>2, <1>6 DEF GatewayKnown
<1>8. LastInQueue'
  BY <1>1, <1>3, <1>4 DEF LastInQueue
<1>9. LastIsBelieved'
  BY <1>3 DEF LastIsBelieved
<1> QED
  BY <1>5, <1>7, <1>8, <1>9 DEF TellInv

\* The handler of a lost address has main told of it.
LEMMA LostIpStep == TellInv /\ LostIp => TellInv'
<1> SUFFICES ASSUME TellInv, LostIp PROVE TellInv'
  OBVIOUS
<1>1. /\ running.event.kind = "STA_LOST_IP"
      /\ CallFun("ipnet_disconnected") /\ Return /\ TellTypes
      /\ UNCHANGED <<ip4_gateway_address, Is_connected, sntp>>
  BY DEF LostIp, In, TellInv, addressvars, mainvars
<1>2. /\ running' = [event |-> running'.event, step |-> running'.step, calls |-> running'.calls]
      /\ running'.step \in {"none", "enter"}
  BY <1>1, Returns
<1>3. /\ queue' \in Seq(MainFunctions) /\ Len(queue') <= QueueLength /\ refused' \in BOOLEAN
      /\ ~refused' => /\ Told' # {}
                      /\ \A i \in Told' : (\A j \in Told' : j <= i) => queue'[i] = "ipnet_disconnected"
  BY <1>1, CallFunStep DEF MainFunctions
<1>4. said' = running.event /\ said'.kind \notin GotIpEvents
  BY <1>1 DEF CallFun, GotIpEvents
<1>5. TellTypes'
  BY <1>1, <1>2, <1>3 DEF TellTypes
<1>6. GatewayKnown'
  BY <1>2, <1>4 DEF GatewayKnown
<1>7. LastInQueue'
  BY <1>3, <1>4 DEF LastInQueue
<1>8. LastIsBelieved'
  BY <1>3 DEF LastIsBelieved
<1> QED
  BY <1>5, <1>6, <1>7, <1>8 DEF TellInv

\* Any other step of the event task tells main nothing.
LEMMA QuietStep ==
  ASSUME TellInv, UNCHANGED <<queue, said, refused, Is_connected, sntp, ip4_gateway_address>>,
         running.step # "call", running'.step \in {"none", "enter"},
         running' = [event |-> running'.event, step |-> running'.step, calls |-> running'.calls]
  PROVE  TellInv'
<1>1. TellTypes'
  BY DEF TellInv, TellTypes
<1>2. GatewayKnown'
  BY DEF TellInv, GatewayKnown
<1>3. Told' = Told
  BY DEF Told
<1>4. LastInQueue'
  BY <1>3 DEF TellInv, LastInQueue
<1>5. LastIsBelieved'
  BY <1>3 DEF TellInv, LastIsBelieved, GatewayIs
<1> QED
  BY <1>1, <1>2, <1>4, <1>5 DEF TellInv

\* Every step of the event task
LEMMA EventTaskStep == TellInv /\ EventTask => TellInv'
<1> SUFFICES ASSUME TellInv, EventTask PROVE TellInv'
  OBVIOUS
<1>1. CASE Dispatch
  <2>1. /\ running = Nobody /\ UNCHANGED <<queue, said, refused, Is_connected, sntp, ip4_gateway_address>>
        /\ running' = [event |-> Head(events), step |-> "enter", calls |-> handlers[HandlerOf(Head(events).kind)]]
    BY <1>1 DEF Dispatch, addressvars, tellvars, mainvars
  <2>2. running.step # "call" /\ running'.step = "enter"
    BY <2>1 DEF Nobody
  <2> QED
    BY <2>1, <2>2, QuietStep
<1>2. CASE StationStarts \/ StationIsDown \/ LinkIsDown \/ CountStation
  <2>1. /\ Return /\ running.step = "enter"
        /\ UNCHANGED <<queue, said, refused, Is_connected, sntp, ip4_gateway_address>>
    BY <1>2 DEF StationStarts, StationIsDown, LinkIsDown, CountStation, In, addressvars, tellvars, mainvars
  <2> QED
    BY <2>1, Returns, QuietStep DEF TellInv
<1> QED
  BY <1>1, <1>2, GotIpStep, GotIpTellStep, LostIpStep DEF EventTask

\* Every step of all tasks
LEMMA TellStep == TellInv /\ [Next]_vars => TellInv'
<1> SUFFICES ASSUME TellInv, [Next]_vars PROVE TellInv'
  OBVIOUS
<1>1. CASE UNCHANGED tellingvars
  BY <1>1 DEF tellingvars, TellInv, TellTypes, GatewayKnown, LastInQueue, LastIsBelieved, Told, GatewayIs
<1>2. CASE UNCHANGED vars
  BY <1>1, <1>2 DEF vars, ipnetvars, addressvars, tellvars, mainvars, tellingvars
<1>3. CASE MainTask
  <2>1. CASE UNCHANGED ipnetvars
    BY <1>1, <2>1 DEF ipnetvars, addressvars, tellvars, mainvars, tellingvars
  <2> QED
    BY <1>3, <2>1, ConnectedStep, DisconnectedStep, OtherStep
    DEF MainTask, AppConnected, AppDisconnected, SomeFunction
<1>4. CASE UserConnects
  BY <1>1, <1>4 DEF UserConnects, nwc_connect, NoDeviceElse, addressvars, tellvars, mainvars, tellingvars
<1>5. CASE UserDisconnects
  BY <1>1, <1>5 DEF UserDisconnects, nwc_disconnect, NoDeviceElse, addressvars, tellvars, mainvars, tellingvars
<1>6. CASE World
  <2>1. CASE OtherFunction
    BY <2>1, OtherFunctionStep
  <2>2. CASE ~OtherFunction
    <3>1. UNCHANGED tellingvars
      BY <1>6, <2>2 DEF World, LanGetsAddress, LanLinkLost, StationGetsAddress, StationDisconnects,
        StationLosesAddress, StationJoins, StationLeaves, Post, addressvars, tellvars, mainvars, tellingvars
    <3> QED
      BY <1>1, <3>1
  <2> QED
    BY <2>1, <2>2
<1>7. CASE Events
  BY <1>7, EventTaskStep DEF Events
<1>8. CASE Visitors \/ Serves \/ Broker \/ Library
  <2>1. UNCHANGED ipnetvars
    BY <1>8 DEF Visitors, Serves, Broker, Library
  <2> QED
    BY <1>1, <2>1 DEF ipnetvars, addressvars, tellvars, mainvars, tellingvars
<1> QED
  BY <1>2, <1>3, <1>4, <1>5, <1>6, <1>7, <1>8 DEF Next

\* What the main task believes of the connection, and what it has told the SNTP client, is what
\* the last handler had it told, for every order of events and a queue of any length.
THEOREM LastWordCounted == Spec => []LastWordCounts
<1>1. Init => TellInv
  <2> SUFFICES ASSUME Init PROVE TellInv
    OBVIOUS
  <2>1. /\ queue = <<>> /\ said = Event("none", NoAddress) /\ refused = FALSE
        /\ Is_connected = FALSE /\ running = Nobody
    BY DEF Init, IpNetInit
  <2>2. running.step = "none" /\ said.kind \notin GotIpEvents /\ Told = {}
    BY <2>1 DEF Nobody, Event, GotIpEvents, Told
  <2>3. running = [event |-> running.event, step |-> running.step, calls |-> running.calls]
    BY <2>1 DEF Nobody
  <2>4. queue \in Seq(MainFunctions) /\ Len(queue) <= QueueLength
    BY <2>1, IpNetAssumption
  <2> QED
    BY <2>1, <2>2, <2>3, <2>4 DEF TellInv, TellTypes, GatewayKnown, LastInQueue, LastIsBelieved
<1>2. TellInv => LastWordCounts
  BY DEF TellInv, LastIsBelieved, LastWordCounts, Nobody
<1> QED
  BY <1>1, <1>2, TellStep, PTL DEF Spec

--------------------------------------------------------------------------------
(* What the websocket clients and a request for a file get *)

\* Every non-empty set of naturals has a least element.
LEMMA LeastOf ==
  ASSUME NEW S \in SUBSET Nat, S # {}
  PROVE  \E m \in S : \A n \in S : m <= n
<1> DEFINE R == OpToRel(<, Nat)
<1>1. IsWellFoundedOn(R, Nat)
  BY NatLessThanWellFounded
<1>2. PICK m \in S : \A n \in S : ~ (<<n, m>> \in R)
  <2> HIDE DEF R
  <2> QED BY <1>1, WFMin
<1>3. ASSUME NEW n \in S PROVE m <= n
  <2>1. ~ (n < m)
    BY <1>2 DEF OpToRel
  <2> QED BY <2>1
<1> QED BY <1>3

\* Induction over the naturals, for a set.
LEMMA NatSetInduction ==
  ASSUME NEW S, 0 \in S, \A n \in Nat : n \in S => n + 1 \in S
  PROVE  Nat \subseteq S
<1> SUFFICES ASSUME Nat \ S # {} PROVE FALSE
  OBVIOUS
<1>1. PICK n \in Nat \ S : \A m \in Nat \ S : n <= m
  BY LeastOf
<1>2. n # 0 /\ n - 1 \in Nat /\ n - 1 \in S
  BY <1>1
<1> QED BY <1>1, <1>2

\* The clients in the set are below its bound.
BoundCovers == ws_nfds \in Nat /\ \A fd \in ws_fds : fd \in Nat /\ fd < ws_nfds

LoopBegins == [fds |-> ws_fds, nfds |-> ws_nfds, sent |-> {}]

\* The recursive function of Loop exists: each round goes on from what the last one has left.
LEMMA LoopDef ==
  ASSUME BoundCovers, NEW bad
  PROVE  \E after : /\ Loop(bad) = after[ws_nfds]
                    /\ after[0] = LoopBegins
                    /\ \A n \in 1 .. ws_nfds : after[n] = SendTo(after[n - 1], n - 1, bad)
<1> DEFINE Def(h) ==
             [n \in 0 .. ws_nfds |-> IF n = 0 THEN [fds |-> ws_fds, nfds |-> ws_nfds, sent |-> {}]
                                    ELSE SendTo(h[n - 1], n - 1, bad)]
           Goes(g, m) == /\ g[0] = LoopBegins
                         /\ \A n \in 1 .. m : g[n] = SendTo(g[n - 1], n - 1, bad)
           D == {m \in Nat : \E g : Goes(g, m)}
<1>1. 0 \in D
  <2>1. Goes([n \in {0} |-> LoopBegins], 0)
    OBVIOUS
  <2> QED BY <2>1
<1>2. ASSUME NEW m \in Nat, m \in D PROVE m + 1 \in D
  <2>1. PICK g : Goes(g, m)
    BY <1>2
  <2> DEFINE h == [n \in 0 .. m + 1 |-> IF n = m + 1 THEN SendTo(g[m], m, bad) ELSE g[n]]
  <2>2. h[0] = g[0]
    OBVIOUS
  <2>3. ASSUME NEW n \in 1 .. m PROVE h[n] = g[n] /\ h[n - 1] = g[n - 1]
    OBVIOUS
  <2>4. h[m + 1] = SendTo(h[(m + 1) - 1], (m + 1) - 1, bad)
    <3>1. h[m] = g[m] /\ (m + 1) - 1 = m
      OBVIOUS
    <3>2. h[m + 1] = SendTo(g[m], m, bad)
      OBVIOUS
    <3> HIDE DEF h
    <3> QED BY <3>1, <3>2
  <2> HIDE DEF h
  <2>5. ASSUME NEW n \in 1 .. m + 1 PROVE h[n] = SendTo(h[n - 1], n - 1, bad)
    <3>1. CASE n \in 1 .. m
      BY <2>1, <2>3, <3>1
    <3>2. CASE n = m + 1
      BY <2>4, <3>2
    <3> QED BY <3>1, <3>2
  <2>6. Goes(h, m + 1)
    BY <2>1, <2>2, <2>5
  <2> HIDE DEF Goes
  <2> QED BY <2>6
<1>3. ws_nfds \in D
  <2> HIDE DEF D
  <2> QED BY <1>1, <1>2, NatSetInduction DEF BoundCovers
<1>4. PICK g : Goes(g, ws_nfds)
  BY <1>3
<1> DEFINE f == [n \in 0 .. ws_nfds |-> g[n]]
<1>5. f = Def(f)
  <2>1. ASSUME NEW n \in 0 .. ws_nfds PROVE f[n] = Def(f)[n]
    <3>1. CASE n = 0
      BY <1>4, <3>1 DEF LoopBegins
    <3>2. CASE n # 0
      <4>1. n - 1 \in 0 .. ws_nfds /\ n \in 1 .. ws_nfds
        BY <3>2 DEF BoundCovers
      <4>2. f[n - 1] = g[n - 1] /\ f[n] = g[n]
        BY <4>1
      <4>3. Def(f)[n] = SendTo(f[n - 1], n - 1, bad)
        <5> HIDE DEF f
        <5> QED BY <3>2
      <4> QED BY <1>4, <4>1, <4>2, <4>3
    <3> QED BY <3>1, <3>2
  <2> QED BY <2>1
<1> DEFINE after == CHOOSE h : h = Def(h)
<1>6. after = Def(after)
  <2> HIDE DEF Def, f
  <2> QED BY <1>5
<1>7. Loop(bad) = after[ws_nfds]
  BY DEF Loop
<1>8. after[0] = LoopBegins
  <2>1. after[0] = Def(after)[0]
    BY <1>6
  <2> HIDE DEF after
  <2> QED BY <2>1 DEF BoundCovers, LoopBegins
<1>9. ASSUME NEW n \in 1 .. ws_nfds PROVE after[n] = SendTo(after[n - 1], n - 1, bad)
  <2>1. after[n] = Def(after)[n]
    BY <1>6
  <2> HIDE DEF after
  <2>2. n \in 0 .. ws_nfds /\ n # 0
    BY DEF BoundCovers
  <2>3. Def(after)[n] = SendTo(after[n - 1], n - 1, bad)
    BY <2>2
  <2> QED BY <2>1, <2>3
<1> HIDE DEF after
<1> QED BY <1>7, <1>8, <1>9

\* What there is after the rounds for the sockets below n.
SentBelow(w, n, bad) ==
  /\ w = [fds |-> w.fds, nfds |-> w.nfds, sent |-> w.sent]
  /\ w.nfds \in Nat /\ \A fd \in w.fds : fd < w.nfds
  /\ w.fds \subseteq ws_fds /\ w.sent \subseteq ws_fds
  /\ \A fd \in ws_fds : fd \in w.fds <=> ~(fd < n /\ fd \in bad)
  /\ \A fd \in ws_fds : fd \in w.sent <=> fd < n /\ fd \notin bad

\* The loop sends to all that can be sent to, drops the others, and leaves a bound that covers
\* those that stay.
LEMMA LoopSends ==
  ASSUME BoundCovers, NEW bad \in SUBSET ws_fds, NEW after, after = Loop(bad)
  PROVE  /\ after.fds = ws_fds \ bad /\ after.sent = ws_fds \ bad
         /\ after.nfds \in Nat /\ \A fd \in after.fds : fd < after.nfds
<1>1. PICK w : /\ Loop(bad) = w[ws_nfds]
               /\ w[0] = LoopBegins
               /\ \A n \in 1 .. ws_nfds : w[n] = SendTo(w[n - 1], n - 1, bad)
  BY LoopDef
<1> DEFINE D == {n \in Nat : n <= ws_nfds => SentBelow(w[n], n, bad)}
<1>2. 0 \in D
  BY <1>1 DEF LoopBegins, SentBelow, BoundCovers
<1>3. ASSUME NEW n \in Nat, n \in D PROVE n + 1 \in D
  <2> SUFFICES ASSUME n + 1 <= ws_nfds PROVE SentBelow(w[n + 1], n + 1, bad)
    OBVIOUS
  <2>1. SentBelow(w[n], n, bad)
    BY <1>3 DEF BoundCovers
  <2>2. w[n + 1] = SendTo(w[n], n, bad)
    <3>1. n + 1 \in 1 .. ws_nfds /\ (n + 1) - 1 = n
      BY DEF BoundCovers
    <3> QED BY <1>1, <3>1
  <2>3. ASSUME NEW v, NEW u, SentBelow(v, n, bad), u = SendTo(v, n, bad)
        PROVE  SentBelow(u, n + 1, bad)
    <3>1. \A fd \in ws_fds : fd \in Nat /\ (fd < n + 1 <=> fd < n \/ fd = n)
      BY DEF BoundCovers
    <3>2. CASE n >= v.nfds \/ n \notin v.fds
      <4>1. n \notin ws_fds
        BY <2>3, <3>2 DEF SentBelow
      <4>2. u = v
        BY <2>3, <3>2 DEF SendTo
      <4> QED BY <2>3, <3>1, <4>1, <4>2 DEF SentBelow
    <3>3. CASE ~(n >= v.nfds \/ n \notin v.fds) /\ n \in bad
      <4>1. u = [v EXCEPT !.fds = @ \ {n}, !.nfds = IF @ = n + 1 THEN n ELSE @]
        BY <2>3, <3>3 DEF SendTo, Dropped
      <4>2. /\ u = [fds |-> u.fds, nfds |-> u.nfds, sent |-> u.sent]
            /\ u.fds = v.fds \ {n} /\ u.sent = v.sent
            /\ u.nfds = IF v.nfds = n + 1 THEN n ELSE v.nfds
        BY <2>3, <4>1 DEF SentBelow
      <4>3. u.nfds \in Nat /\ \A fd \in u.fds : fd < u.nfds
        BY <2>3, <3>1, <4>2 DEF SentBelow
      <4> QED BY <2>3, <3>1, <3>3, <4>2, <4>3 DEF SentBelow
    <3>4. CASE ~(n >= v.nfds \/ n \notin v.fds) /\ n \notin bad
      <4>1. u = [v EXCEPT !.sent = @ \cup {n}]
        BY <2>3, <3>4 DEF SendTo
      <4>2. /\ u = [fds |-> u.fds, nfds |-> u.nfds, sent |-> u.sent]
            /\ u.fds = v.fds /\ u.sent = v.sent \cup {n} /\ u.nfds = v.nfds
        BY <2>3, <4>1 DEF SentBelow
      <4> QED BY <2>3, <3>1, <3>4, <4>2 DEF SentBelow
    <3> QED BY <3>2, <3>3, <3>4
  <2> QED BY <2>1, <2>2, <2>3
<1>4. ws_nfds \in D
  <2> HIDE DEF D
  <2> QED BY <1>2, <1>3, NatSetInduction DEF BoundCovers
<1>5. SentBelow(after, ws_nfds, bad)
  BY <1>1, <1>4 DEF BoundCovers
<1> QED BY <1>5 DEF SentBelow, BoundCovers

\* A part of a sequence, element by element.
LEMMA Part ==
  ASSUME NEW s \in Seq(Nat), NEW m \in Nat \ {0}, NEW k \in Nat, m <= k + 1, k <= Len(s),
         NEW a, a = SubSeq(s, m, k)
  PROVE  /\ a \in Seq(Nat) /\ Len(a) = k - m + 1
         /\ \A i \in 1 .. k - m + 1 : a[i] = s[m + i - 1]
<1>1. \A i \in m .. k : s[i] \in Nat
  OBVIOUS
<1>2. m \in Int /\ k \in Int
  OBVIOUS
<1>3. a \in Seq(Nat)
  BY <1>1, <1>2, SubSeqProperties
<1>4. Len(a) = IF m <= k THEN k - m + 1 ELSE 0
  BY <1>1, <1>2, SubSeqProperties
<1>5. \A i \in 1 .. k - m + 1 : a[i] = s[m + i - 1]
  BY <1>1, <1>2, SubSeqProperties
<1> QED BY <1>3, <1>4, <1>5

\* What is behind the first n texts of s.
IsRest(a, s, n) ==
  /\ a \in Seq(Nat) /\ Len(a) = Len(s) - n
  /\ \A i \in 1 .. Len(s) - n : a[i] = s[n + i]

\* t is s and one more text.
IsLonger(t, s, x) ==
  /\ t \in Seq(Nat) /\ Len(t) = Len(s) + 1
  /\ \A i \in 1 .. Len(s) : t[i] = s[i]
  /\ t[Len(s) + 1] = x

\* The texts behind the first n.
LEMMA Rest ==
  ASSUME NEW s \in Seq(Nat), NEW n \in Nat, n <= Len(s), NEW a, a = SubSeq(s, n + 1, Len(s))
  PROVE  IsRest(a, s, n)
<1>1. n + 1 \in Nat \ {0} /\ n + 1 <= Len(s) + 1 /\ Len(s) <= Len(s) /\ Len(s) \in Nat
  OBVIOUS
<1>2. a \in Seq(Nat)
  BY <1>1, Part
<1>3. Len(a) = Len(s) - (n + 1) + 1
  BY <1>1, Part
<1>4. \A i \in 1 .. Len(s) - (n + 1) + 1 : a[i] = s[n + 1 + i - 1]
  BY <1>1, Part
<1> QED BY <1>1, <1>2, <1>3, <1>4 DEF IsRest

\* Append.
LEMMA Appended ==
  ASSUME NEW s \in Seq(Nat), NEW x \in Nat
  PROVE  IsLonger(Append(s, x), s, x)
BY DEF IsLonger

\* What a client gets when one more text is sent, if it has got all before.
LEMMA OneMore ==
  ASSUME NEW s \in Seq(Nat), NEW t, NEW x \in Nat, IsLonger(t, s, x), NEW n \in Nat, n <= Len(s),
         NEW a, IsRest(a, s, n), NEW b, IsRest(b, t, n), NEW c, IsLonger(c, a, x)
  PROVE  b = c
<1>1. Len(s) \in Nat
  OBVIOUS
<1>2. ASSUME NEW i \in 1 .. Len(b) PROVE b[i] = c[i]
  <2>1. i \in Nat /\ i >= 1 /\ Len(a) = Len(s) - n /\ Len(t) = Len(s) + 1 /\ Len(b) = Len(t) - n
    BY DEF IsRest, IsLonger
  <2>2. b[i] = t[n + i]
    BY <2>1 DEF IsRest
  <2>3. CASE i <= Len(a)
    <3>1. c[i] = a[i]
      BY <1>1, <2>1, <2>3 DEF IsLonger
    <3>2. a[i] = s[n + i] /\ n + i \in 1 .. Len(s)
      BY <1>1, <2>1, <2>3 DEF IsRest
    <3>3. t[n + i] = s[n + i]
      BY <3>2 DEF IsLonger
    <3> QED BY <2>2, <3>1, <3>2, <3>3
  <2>4. CASE i = Len(a) + 1
    <3>1. n + i = Len(s) + 1
      BY <1>1, <2>1, <2>4
    <3>2. c[i] = x /\ t[n + i] = x
      BY <2>4, <3>1 DEF IsLonger
    <3> QED BY <2>2, <3>2
  <2>5. i <= Len(a) + 1
    BY <1>1, <2>1
  <2> QED BY <1>1, <2>1, <2>3, <2>4, <2>5
<1>3. Len(b) = Len(c) /\ b \in Seq(Nat) /\ c \in Seq(Nat)
  BY <1>1 DEF IsRest, IsLonger
<1> QED BY <1>2, <1>3, SeqEqual, Zenon

\* A websocket client has been sent nothing before it joins, and while it has not been dropped
\* every text that was done since.
ClientsInv ==
  /\ BoundCovers /\ ws_fds \subseteq Fds
  /\ texts \in Nat /\ works \in Seq(Nat) /\ done \in Seq(Nat)
  /\ sessions \in [Fds -> Nat \cup {NoSession}] /\ got \in [Fds -> Seq(Nat)]
  /\ \A fd \in Fds : sessions[fd] = NoSession => got[fd] = <<>>
  /\ \A fd \in Fds : sessions[fd] # NoSession => sessions[fd] <= Len(done)
  /\ \A fd \in ws_fds : sessions[fd] # NoSession =>
       got[fd] = SubSeq(done, sessions[fd] + 1, Len(done))

\* The answer that is being sent is not longer than the file, and not ended.
AnswerInv ==
  /\ answer = [chunks |-> answer.chunks, ended |-> answer.ended, result |-> answer.result]
  /\ job = "open" => answer.chunks \in 0 .. FileLength /\ answer.result = "none"
  /\ answer.result = "ok" => answer.ended /\ answer.chunks = FileLength

\* A client joins or leaves.
LEMMA JoinStep ==
  ASSUME ClientsInv, NEW fd \in Fds, Join(fd) \/ Leave(fd)
  PROVE  ClientsInv'
<1> USE WebAssumption DEF ClientsInv, BoundCovers, textvars
<1>1. CASE Join(fd)
  <2>1. Len(done) \in Nat /\ SubSeq(done, Len(done) + 1, Len(done)) = <<>>
    <3>1. Len(done) \in Nat
      OBVIOUS
    <3> QED BY <3>1, SubSeqEmpty
  <2>2. /\ sessions' = [sessions EXCEPT ![fd] = Len(done)] /\ ws_fds' = ws_fds \cup {fd}
        /\ UNCHANGED <<got, texts, works, done>> /\ sessions[fd] = NoSession
        /\ ws_nfds' = IF ws_nfds > fd THEN ws_nfds ELSE fd + 1
    BY <1>1 DEF Join
  <2>3. BoundCovers'
    BY <2>2
  <2>4. got[fd] = <<>>
    BY <2>2
  <2>5. /\ sessions' \in [Fds -> Nat \cup {NoSession}] /\ ws_fds' \subseteq Fds
        /\ \A g \in Fds : sessions'[g] = IF g = fd THEN Len(done) ELSE sessions[g]
    BY <2>1, <2>2
  <2>6. \A g \in ws_fds' : sessions'[g] # NoSession =>
          got[g] = SubSeq(done, sessions'[g] + 1, Len(done))
    BY <2>1, <2>2, <2>4, <2>5
  <2>7. /\ \A g \in Fds : sessions'[g] = NoSession => got[g] = <<>>
        /\ \A g \in Fds : sessions'[g] # NoSession => sessions'[g] <= Len(done)
    BY <2>1, <2>5
  <2> QED BY <2>2, <2>3, <2>5, <2>6, <2>7
<1>2. CASE Leave(fd)
  <2>1. <<>> \in Seq(Nat)
    OBVIOUS
  <2> QED BY <1>2, <2>1 DEF Leave
<1> QED BY <1>1, <1>2

\* A text is queued.
LEMMA SendJsonStep == ClientsInv /\ SendJson => ClientsInv'
<1> SUFFICES ASSUME ClientsInv, SendJson PROVE ClientsInv'
  OBVIOUS
<1>1. texts' \in Nat /\ UNCHANGED <<ws_fds, ws_nfds, sessions, got, done>>
  BY DEF ClientsInv, SendJson, wsvars
<1>2. works' = works \/ works' = Append(works, texts')
  BY DEF SendJson
<1>3. works' \in Seq(Nat)
  <2>1. works \in Seq(Nat)
    BY DEF ClientsInv
  <2> QED BY <1>1, <1>2, <2>1
<1> QED BY <1>1, <1>3 DEF ClientsInv, BoundCovers

\* A text is sent to all clients.
LEMMA BroadcastStep == ClientsInv /\ Broadcast => ClientsInv'
<1> SUFFICES ASSUME ClientsInv, Broadcast PROVE ClientsInv'
  OBVIOUS
<1> DEFINE x == Head(works)
<1>1. PICK bad \in SUBSET ws_fds :
        /\ \A fd \in ws_fds : sessions[fd] = NoSession => fd \in bad
        /\ LET after == Loop(bad)
           IN  /\ ws_fds' = after.fds /\ ws_nfds' = after.nfds
               /\ got' = [fd \in Fds |-> IF fd \in after.sent THEN Append(got[fd], x) ELSE got[fd]]
  BY DEF Broadcast
<1>2. /\ works # <<>> /\ works' = Tail(works) /\ done' = Append(done, x)
      /\ UNCHANGED <<sessions, texts>>
  BY DEF Broadcast
<1>3. x \in Nat /\ works' \in Seq(Nat)
  BY <1>2 DEF ClientsInv
<1> DEFINE after == Loop(bad)
<1>4. /\ ws_fds' = after.fds /\ ws_nfds' = after.nfds
      /\ got' = [fd \in Fds |-> IF fd \in after.sent THEN Append(got[fd], x) ELSE got[fd]]
  BY <1>1
<1>5. /\ after.fds = ws_fds \ bad /\ after.sent = ws_fds \ bad
      /\ after.nfds \in Nat /\ \A fd \in after.fds : fd < after.nfds
  BY LoopSends DEF ClientsInv
<1> HIDE DEF after, x
<1>6. BoundCovers' /\ ws_fds' = ws_fds \ bad
  BY <1>4, <1>5 DEF ClientsInv, BoundCovers
<1>7. /\ got' \in [Fds -> Seq(Nat)]
      /\ \A fd \in Fds : got'[fd] = IF fd \in ws_fds \ bad THEN Append(got[fd], x) ELSE got[fd]
  BY <1>3, <1>4, <1>5 DEF ClientsInv
<1>8. done' \in Seq(Nat) /\ Len(done) \in Nat /\ Len(done') = Len(done) + 1
  BY <1>2, <1>3 DEF ClientsInv
<1>9. ASSUME NEW fd \in ws_fds', sessions[fd] # NoSession
      PROVE  got'[fd] = SubSeq(done', sessions[fd] + 1, Len(done'))
  <2>1. /\ fd \in Fds /\ fd \in ws_fds \ bad /\ sessions[fd] \in Nat /\ sessions[fd] <= Len(done)
        /\ got[fd] = SubSeq(done, sessions[fd] + 1, Len(done)) /\ done \in Seq(Nat)
    BY <1>6, <1>9 DEF ClientsInv
  <2>2. got'[fd] = Append(got[fd], x)
    BY <1>7, <2>1
  <2>3. IsLonger(done', done, x) /\ IsLonger(Append(got[fd], x), got[fd], x)
    BY <1>2, <1>3, <1>7, <2>1, Appended DEF ClientsInv
  <2>4. IsRest(got[fd], done, sessions[fd])
    BY <2>1, Rest
  <2>5. IsRest(SubSeq(done', sessions[fd] + 1, Len(done')), done', sessions[fd])
    <3>1. sessions[fd] <= Len(done')
      BY <1>8, <2>1
    <3> QED BY <1>8, <2>1, <3>1, Rest
  <2>6. SubSeq(done', sessions[fd] + 1, Len(done')) = Append(got[fd], x)
    <3> DEFINE n == sessions[fd]
               s == done
               t == done'
               a == got[fd]
               b == SubSeq(done', sessions[fd] + 1, Len(done'))
               c == Append(got[fd], x)
    <3>1. s \in Seq(Nat) /\ n \in Nat /\ n <= Len(s)
      BY <2>1
    <3>2. IsLonger(t, s, x) /\ IsRest(a, s, n) /\ IsRest(b, t, n) /\ IsLonger(c, a, x)
      BY <2>3, <2>4, <2>5
    <3> HIDE DEF n, s, t, a, b, c
    <3>3. b = c
      BY <1>3, <3>1, <3>2, OneMore
    <3> QED BY <3>3 DEF b, c
  <2> QED BY <2>2, <2>6
<1>10. \A fd \in Fds : sessions[fd] = NoSession => got'[fd] = <<>>
  BY <1>1, <1>7 DEF ClientsInv
<1>11. \A fd \in Fds : sessions[fd] # NoSession => sessions[fd] <= Len(done')
  BY <1>8 DEF ClientsInv
<1> QED BY <1>2, <1>3, <1>6, <1>7, <1>8, <1>9, <1>10, <1>11 DEF ClientsInv

\* Every step keeps what the clients have been sent ...
LEMMA ClientsStep == ClientsInv /\ [Next]_vars => ClientsInv'
<1> SUFFICES ASSUME ClientsInv, [Next]_vars PROVE ClientsInv'
  OBVIOUS
<1>1. CASE UNCHANGED <<ws_fds, ws_nfds, sessions, got, texts, works, done>>
  BY <1>1 DEF ClientsInv, BoundCovers
<1>2. CASE Visitors
  <2>1. CASE \E login \in Logins, inMemory \in BOOLEAN : Request(login, inMemory)
    BY <1>1, <2>1 DEF Request, wsvars, textvars
  <2> QED BY <1>2, <2>1, JoinStep, SendJsonStep DEF Visitors
<1>3. CASE Serves
  <2>1. CASE SendChunk \/ SendFails \/ ReadFails
    BY <1>1, <2>1 DEF SendChunk, SendFails, ReadFails, Sends, wsvars, textvars
  <2> QED BY <1>3, <2>1, BroadcastStep DEF Serves
<1>4. CASE \E login \in Logins : Start(login)
  BY <1>1, <1>4 DEF Start, wsvars, textvars
<1>5. CASE Stop
  <2>1. <<>> \in Seq(Nat)
    OBVIOUS
  <2>2. CASE hts_server
    BY <1>5, <2>1, <2>2 DEF Stop, ClientsInv, BoundCovers
  <2>3. CASE ~hts_server
    BY <1>1, <1>5, <2>3 DEF Stop
  <2> QED BY <2>2, <2>3
<1>6. CASE UNCHANGED webvars
  BY <1>1, <1>6 DEF webvars
<1> QED
  BY <1>2, <1>3, <1>4, <1>5, <1>6
  DEF Next, MainTask, AppConnected, AppDisconnected, SomeFunction, UserConnects,
      UserDisconnects, World, Events, Broker, Library, vars

\* ... and the answer within the file.
LEMMA AnswerStep == AnswerInv /\ [Next]_vars => AnswerInv'
<1> SUFFICES ASSUME AnswerInv, [Next]_vars PROVE AnswerInv'
  OBVIOUS
<1> USE WebAssumption
<1>1. CASE UNCHANGED filevars
  BY <1>1 DEF AnswerInv, filevars
<1>2. CASE \E login \in Logins, inMemory \in BOOLEAN : Request(login, inMemory)
  <2>1. \/ job' = NoJob /\ answer' = Result(0, TRUE, "unauthorized")
        \/ job' = NoJob /\ answer' = Result(FileLength, TRUE, "ok")
        \/ job' = NoJob /\ answer' = Result(0, FALSE, "fail")
        \/ job' = "open" /\ answer' = NoAnswer
    BY <1>2 DEF Request
  <2> QED BY <2>1 DEF AnswerInv, Result, NoAnswer
<1>3. CASE SendChunk \/ SendFails \/ ReadFails
  <2>1. answer.chunks \in 0 .. FileLength
    BY <1>3 DEF SendChunk, SendFails, ReadFails, AnswerInv
  <2> QED BY <1>3, <2>1 DEF SendChunk, SendFails, ReadFails, Sends, Result, AnswerInv
<1>4. CASE Visitors
  BY <1>1, <1>2, <1>4 DEF Visitors, Join, Leave, SendJson
<1>5. CASE Serves
  BY <1>1, <1>3, <1>5 DEF Serves, Broadcast
<1>6. CASE \E login \in Logins : Start(login)
  BY <1>1, <1>6 DEF Start
<1>7. CASE Stop
  BY <1>1, <1>7 DEF Stop
<1>8. CASE UNCHANGED webvars
  BY <1>1, <1>8 DEF webvars, filevars
<1> QED
  BY <1>4, <1>5, <1>6, <1>7, <1>8
  DEF Next, MainTask, AppConnected, AppDisconnected, SomeFunction, UserConnects,
      UserDisconnects, World, Events, Broker, Library, vars

\* A websocket client that has not been dropped is sent every text since it joined, once and in
\* order, and a file reported as sent was sent as a whole: for any number of clients that join,
\* leave and fail, of texts and of restarts of the server, and a file of any length.
THEOREM ClientsAreServed == Spec => []WebClientsServed
<1>1. Init => ClientsInv /\ AnswerInv
  <2> SUFFICES ASSUME Init PROVE ClientsInv /\ AnswerInv
    OBVIOUS
  <2>1. <<>> \in Seq(Nat)
    OBVIOUS
  <2>2. ClientsInv
    BY <2>1 DEF Init, WebInit, ClientsInv, BoundCovers
  <2>3. AnswerInv
    BY WebAssumption DEF Init, WebInit, NoAnswer, AnswerInv
  <2> QED BY <2>2, <2>3
<1>2. ClientsInv /\ AnswerInv => WebClientsServed
  BY DEF ClientsInv, AnswerInv, WebClientsServed
<1> QED
  BY <1>1, <1>2, ClientsStep, AnswerStep, PTL DEF Spec
================================================================================
