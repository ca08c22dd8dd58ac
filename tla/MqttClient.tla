------------------------------- MODULE MqttClient -------------------------------
(***************************************************************************)
(* The MQTT client (net_mqtt_client/esp32/mqtt.cc): the main task creates  *)
(* and destroys it, the task of the library calls the event handler.       *)
(***************************************************************************)
EXTENDS Integers

VARIABLES
  client,         \* there is one
  is_connected,
  mqtt,           \* the library's task: "none", "deaf" when it has no handler, "waiting" for the
                  \* broker, in the handler of "connected" or "disconnected", or "online"
  subscribed,     \* the application's subscription has been sent on this connection
  main            \* what the main task is doing: "loop", "stop", "destroy" or "create"

mqttvars == <<client, is_connected, mqtt, subscribed, main>>

MqttInit ==
  /\ client = FALSE /\ is_connected = FALSE /\ mqtt = "none" /\ subscribed = FALSE
  /\ main = "loop"

InHandler == mqtt \in {"connected", "disconnected"}

\* io_mqtt_setup in the main task begins with io_mqtt_stop_and_destroy, if there is a client.
MqttSetup ==
  /\ main' = IF client THEN "stop" ELSE "create"
  /\ UNCHANGED <<client, is_connected, mqtt, subscribed>>

\* esp_mqtt_client_stop waits for the library's task, which ends outside of handlers only.
MqttStop ==
  /\ main = "stop" /\ ~InHandler
  /\ mqtt' = "none" /\ main' = "destroy"
  /\ UNCHANGED <<client, is_connected, subscribed>>

\* A bug: that there was a connection is not forgotten.
MqttDestroyClientOnly ==
  /\ main = "destroy"
  /\ client' = FALSE
  /\ main' \in {"create", "loop"}
  /\ UNCHANGED <<is_connected, mqtt, subscribed>>

\* The client is created again if it is enabled.
MqttDestroy ==
  /\ main = "destroy"
  /\ client' = FALSE /\ is_connected' = FALSE
  /\ main' \in {"create", "loop"}
  /\ UNCHANGED <<mqtt, subscribed>>

\* io_mqtt_create_client and esp_mqtt_client_start: there is no client; or it has no handler and
\* is started all the same; or it is there and started; or starting it fails.
MqttCreate ==
  /\ main = "create"
  /\ \E outcome \in {"no client", "deaf", "waiting", "none"} :
       /\ client' = (outcome # "no client")
       /\ mqtt' = IF outcome = "no client" THEN "none" ELSE outcome
  /\ main' = "loop"
  /\ UNCHANGED <<is_connected, subscribed>>

\* MQTT_EVENT_CONNECTED
MqttConnected ==
  /\ mqtt = "waiting" /\ mqtt' = "connected"
  /\ is_connected' = TRUE /\ subscribed' = FALSE
  /\ UNCHANGED <<client, main>>

\* Net_Mqtt::connected, in which the application subscribes
MqttSubscribe ==
  /\ mqtt = "connected" /\ mqtt' = "online"
  /\ subscribed' = (client /\ is_connected)
  /\ UNCHANGED <<client, is_connected, main>>

\* MQTT_EVENT_DISCONNECTED publishes a message about it first.
MqttDisconnected ==
  /\ mqtt = "online" /\ mqtt' = "disconnected"
  /\ UNCHANGED <<client, is_connected, subscribed, main>>

MqttForgets ==
  /\ mqtt = "disconnected" /\ mqtt' = "waiting"
  /\ is_connected' = FALSE
  /\ UNCHANGED <<client, subscribed, main>>
================================================================================
