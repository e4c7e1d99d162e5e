------------------------------ MODULE DistanceIr ------------------------------
(***************************************************************************)
(* The sensor with a period (libtinkerforge/BrickletDistanceIr.cpp).       *)
(*                                                                         *)
(* It has the bricklet report its value every second if it has changed     *)
(* since the last report, cuts large values off, and passes on only what   *)
(* differs from the last value passed on.  Unlike the other sensors it     *)
(* does not ask for a first value.                                         *)
(***************************************************************************)
EXTENDS Integers, Sequences

CONSTANTS
    MAXIMUM_VALUE,  \* values above are cut off
    MaxDistance,    \* the largest value of the bricklet
    MaxReports,     \* bound: reports in the queue
    MaxChanges      \* bound: changes of the distance

ASSUME DistanceAssumption ==
    /\ MAXIMUM_VALUE \in Nat /\ MaxDistance \in Nat /\ MaxReports \in Nat /\ MaxChanges \in Nat

Distances == 0 .. MaxDistance

VARIABLES
    distance, changes,  \* what the bricklet measures, how often it has changed
    triggered,          \* the value of its last report, or -1
    period,             \* it reports
    sensor_pc,          \* the thread of the sensor: "period", "register", "idle", "publish"
    reports,            \* reports in the queue of the callback thread
    m_lastValue,
    silent,             \* history: it has not passed anything on yet
    missed              \* history: the last report had no callback, or there was none

sensorVars == <<distance, changes, triggered, period, sensor_pc, reports, m_lastValue, silent, missed>>

(* The bricklet may report already, from an earlier run of the program.     *)
DistanceInit ==
    /\ distance \in Distances /\ changes = 0
    /\ \/ period = FALSE /\ triggered = -1 /\ missed = FALSE
       \/ period = TRUE /\ triggered = distance /\ missed = TRUE
    /\ sensor_pc = "period" /\ reports = <<>> /\ m_lastValue = 0 /\ silent = TRUE

-----------------------------------------------------------------------------
(* The bricklet.                                                            *)
Change ==
    /\ changes < MaxChanges /\ changes' = changes + 1
    /\ \E d \in Distances \ {distance} : distance' = d
    /\ UNCHANGED <<triggered, period, sensor_pc, reports, m_lastValue, silent, missed>>

(* The receive thread queues a report if a callback is registered by then.  *)
Report ==
    /\ period /\ distance # triggered /\ Len(reports) < MaxReports
    /\ triggered' = distance
    /\ IF sensor_pc \in {"period", "register"}
       THEN missed' = TRUE /\ UNCHANGED reports
       ELSE reports' = Append(reports, distance) /\ missed' = FALSE
    /\ UNCHANGED <<distance, changes, period, sensor_pc, m_lastValue, silent>>

-----------------------------------------------------------------------------
(* registerCallback: the period first.  The result of the call is ignored.  *)
SetPeriod ==
    /\ sensor_pc = "period" /\ sensor_pc' = "register"
    /\ period' \in {TRUE, period}
    /\ UNCHANGED <<distance, changes, triggered, reports, m_lastValue, silent, missed>>

RegisterCallback ==
    /\ sensor_pc = "register" /\ sensor_pc' = "idle"
    /\ UNCHANGED <<distance, changes, triggered, period, reports, m_lastValue, silent, missed>>

(* valueUpdated, up to m_callback.                                          *)
Cut(v) == IF v > MAXIMUM_VALUE THEN MAXIMUM_VALUE ELSE v

ValueUpdatedUncut ==                   \* mutant: compares before it cuts off
    /\ sensor_pc = "idle" /\ reports # <<>> /\ reports' = Tail(reports)
    /\ IF Head(reports) = m_lastValue \/ Head(reports) > MAXIMUM_VALUE
       THEN UNCHANGED <<m_lastValue, silent, sensor_pc>>
       ELSE m_lastValue' = Head(reports) /\ silent' = FALSE /\ sensor_pc' = "publish"
    /\ UNCHANGED <<distance, changes, triggered, period, missed>>

ValueUpdated ==
    /\ sensor_pc = "idle" /\ reports # <<>> /\ reports' = Tail(reports)
    /\ IF Cut(Head(reports)) = m_lastValue
       THEN UNCHANGED <<m_lastValue, silent, sensor_pc>>
       ELSE m_lastValue' = Cut(Head(reports)) /\ silent' = FALSE /\ sensor_pc' = "publish"
    /\ UNCHANGED <<distance, changes, triggered, period, missed>>

(* m_callback has published m_lastValue.                                    *)
Published ==
    /\ sensor_pc = "publish" /\ sensor_pc' = "idle"
    /\ UNCHANGED <<distance, changes, triggered, period, reports, m_lastValue, silent, missed>>

DistanceTypeOK ==
    /\ distance \in Distances /\ changes \in 0 .. MaxChanges
    /\ triggered \in Distances \cup {-1} /\ period \in BOOLEAN
    /\ sensor_pc \in {"period", "register", "idle", "publish"}
    /\ reports \in Seq(Distances) /\ m_lastValue \in 0 .. MAXIMUM_VALUE
    /\ {silent, missed} \subseteq BOOLEAN
=============================================================================
