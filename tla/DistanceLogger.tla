---------------------------- MODULE DistanceLogger ----------------------------
(***************************************************************************)
(* From the distance bricklet to the value that the MQTT broker keeps: the *)
(* sensor (DistanceIr) publishes through the client (MqttClient), as       *)
(* SensorLogger.cpp connects them.  Two threads meet in the client: the    *)
(* callback thread of the Brick Daemon's connection, and the thread of     *)
(* mosquitto_loop.                                                         *)
(***************************************************************************)
EXTENDS DistanceIr, MqttClient

ASSUME LoggerAssumption == Values = 0 .. MAXIMUM_VALUE

vars == <<sensorVars, mqttVars>>

Init == DistanceInit /\ MqttInit

(* The callback of the sensor publishes; nobody looks at the result.  The   *)
(* client is destroyed before the sensors and their connection, so that the *)
(* callback thread may use what is left of it: anything may come of that.   *)
PublishValue ==
    /\ owner_pc # "aborted" /\ Published
    /\ \/ Publish(m_lastValue)
       \/ /\ owner_pc = "destroyed" /\ lost' = TRUE
          /\ UNCHANGED <<clientVars, countVars, link, breaks, wire, retained, subscriptions, inbox>>

Bricklet == (Change \/ Report) /\ UNCHANGED mqttVars
Sensor == \/ (SetPeriod \/ RegisterCallback \/ ValueUpdated) /\ UNCHANGED mqttVars
          \/ PublishValue

Next ==
    \/ Bricklet \/ Sensor
    \/ (Loop \/ Calls \/ Finishes \/ Outside \/ Arrive) /\ UNCHANGED sensorVars

Spec == Init /\ [][Next]_vars

(* The threads run, callbacks return, the bricklet and the network work, and*)
(* of infinitely many connection attempts one succeeds.                     *)
Fairness ==
    /\ WF_vars(Sensor) /\ WF_vars(Report /\ UNCHANGED mqttVars)
    /\ WF_vars((Loop \/ LoopFails) /\ UNCHANGED sensorVars)
    /\ WF_vars(Finishes /\ UNCHANGED sensorVars) /\ WF_vars(Arrive /\ UNCHANGED sensorVars)
    /\ SF_vars(Reconnects /\ UNCHANGED sensorVars)
    /\ SF_vars(OnMessage /\ UNCHANGED sensorVars)

FairSpec == Spec /\ Fairness
-----------------------------------------------------------------------------
(* As long as no report and no publication is lost, the broker comes to     *)
(* keep the value of the bricklet, cut off, whatever was lost before; except*)
(* that a distance of 0 is not published as the first one.                  *)
Served == Ready /\ period /\ ~missed /\ ~lost
RetainedSettles ==
    <>[]Served => <>[](retained = Cut(distance) \/ (silent /\ distance = 0))

MCMatches == [any |-> {"t"}]
=============================================================================
