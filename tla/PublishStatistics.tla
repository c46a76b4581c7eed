-------------------------- MODULE PublishStatistics --------------------------
(* The two counters of statistics.c and the reports made of them. Three parties   *)
(* touch them without a lock: the publisher thread counts an attempt after each    *)
(* MQTTClient_publish, the receive thread counts a success at each PUBACK, and the *)
(* 5 s timer interrupt samples both into publishQueue. The PUBACK can overtake the *)
(* count of its own attempt, since the publisher counts only once the call is back. *)
EXTENDS Integers, Sequences

CONSTANTS QueueLength,      \* length of publishQueue
          MaxAttempts       \* bound: messages published

ASSUME StatisticsAssumption == QueueLength \in Nat \ {0} /\ MaxAttempts \in Nat

VARIABLES publishAttempts, publishSuccesses,
          publishQueue,     \* samples, and NoSample for a message of another kind
          publisher,        \* "receive", "publish" or "count"
          msg,              \* the message being published
          unacked,          \* publications whose PUBACK has not been handled
          reported          \* the last sample handed to the MQTT library

vars == <<publishAttempts, publishSuccesses, publishQueue, publisher, msg, unacked, reported>>

Samples == Nat \X Nat        \* attempts and successes
NoSample == <<>>
Messages == Samples \cup {NoSample}

TypeOK ==
    /\ publishAttempts \in Nat /\ publishSuccesses \in Nat
    /\ publishQueue \in Seq(Messages) /\ Len(publishQueue) <= QueueLength
    /\ publisher \in {"receive", "publish", "count"}
    /\ msg \in Messages
    /\ unacked \in Nat
    /\ reported \in Samples

\* initStatistics
Init ==
    /\ publishAttempts = 0 /\ publishSuccesses = 0
    /\ publishQueue = <<>>
    /\ publisher = "receive" /\ msg = NoSample
    /\ unacked = 0
    /\ reported = <<0, 0>>

-----------------------------------------------------------------------------
(* The publisher thread (MqttClient).                                             *)

Receive ==
    /\ publisher = "receive" /\ publishQueue # <<>> /\ publishAttempts < MaxAttempts
    /\ msg' = Head(publishQueue) /\ publishQueue' = Tail(publishQueue)
    /\ publisher' = "publish"
    /\ UNCHANGED <<publishAttempts, publishSuccesses, unacked, reported>>

\* MQTTClient_publish at QoS 1; a failure is not looked at.
Publish(sentOut) ==
    /\ publisher = "publish" /\ publisher' = "count"
    /\ unacked' = IF sentOut THEN unacked + 1 ELSE unacked
    /\ reported' = IF msg # NoSample THEN msg ELSE reported
    /\ UNCHANGED <<publishAttempts, publishSuccesses, publishQueue, msg>>

\* Fault: only the publication of a report counted.
CountReportsOnly ==
    /\ publisher = "count" /\ publisher' = "receive"
    /\ publishAttempts' = IF msg # NoSample THEN publishAttempts + 1 ELSE publishAttempts
    /\ msg' = NoSample
    /\ UNCHANGED <<publishSuccesses, publishQueue, unacked, reported>>

incrementPublishAttempts ==
    /\ publisher = "count" /\ publisher' = "receive"
    /\ publishAttempts' = publishAttempts + 1
    /\ msg' = NoSample
    /\ UNCHANGED <<publishSuccesses, publishQueue, unacked, reported>>

-----------------------------------------------------------------------------
(* The receive thread and the interrupts.                                         *)

\* Fault: any acknowledgement counted, a SUBACK too.
AnyAck ==
    /\ publishSuccesses' = publishSuccesses + 1
    /\ publishSuccesses < MaxAttempts
    /\ UNCHANGED <<publishAttempts, publishQueue, publisher, msg, unacked, reported>>

\* MQTTCLIENT_OPERATION_EVT_PUBACK: incrementPublishSuccesses.
PubAck ==
    /\ unacked > 0 /\ unacked' = unacked - 1
    /\ publishSuccesses' = publishSuccesses + 1
    /\ UNCHANGED <<publishAttempts, publishQueue, publisher, msg, reported>>

Sample == <<publishAttempts, publishSuccesses>>

\* Fault: the sample put at the head of the queue.
SendToFrontFromISR(message) ==
    /\ publishQueue' = IF Len(publishQueue) < QueueLength
                       THEN <<message>> \o publishQueue ELSE publishQueue
    /\ UNCHANGED <<publishAttempts, publishSuccesses, publisher, msg, unacked, reported>>

\* Fault: the room in the queue not looked at.
SendUnchecked(message) ==
    /\ publishQueue' = Append(publishQueue, message)
    /\ UNCHANGED <<publishAttempts, publishSuccesses, publisher, msg, unacked, reported>>

\* A full queue drops the message.
SendFromISR(message) ==
    /\ publishQueue' = IF Len(publishQueue) < QueueLength
                       THEN Append(publishQueue, message) ELSE publishQueue
    /\ UNCHANGED <<publishAttempts, publishSuccesses, publisher, msg, unacked, reported>>

statisticsTimerCallback == SendFromISR(Sample)

OtherMessage == SendFromISR(NoSample)

Next ==
    \/ Receive
    \/ \E sentOut \in BOOLEAN : Publish(sentOut)
    \/ incrementPublishAttempts
    \/ PubAck
    \/ statisticsTimerCallback
    \/ OtherMessage

Spec == Init /\ [][Next]_vars

-----------------------------------------------------------------------------
(* Properties                                                                     *)

(* Successes never get ahead of attempts by more than the one publication that is  *)
(* being counted, however PUBACKs and counts interleave.                           *)
SuccessesCovered ==
    publishSuccesses + unacked <= publishAttempts + (IF publisher = "count" THEN 1 ELSE 0)

(* A report shows at most one success more than attempts, although it is sampled   *)
(* between any two steps of both threads and published later.                      *)
ReportPlausible == reported[2] <= reported[1] + 1

(* Successive reports never show a counter going back.                             *)
ReportsNeverDecrease ==
    [][/\ reported'[1] >= reported[1]
       /\ reported'[2] >= reported[2]]_vars
=============================================================================
