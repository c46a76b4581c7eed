--------------------------- MODULE MessagePipeline ---------------------------
(* The path of a status message through the firmware's threads, and the boot     *)
(* sequence that creates them:                                                   *)
(*                                                                              *)
(*   broker -> receive thread (client_cbs.c) -> mainQueue -> main task            *)
(*          -> publishQueue -> publisher thread (main_task.c) -> MQTT library     *)
(*                                                                              *)
(* Both queues are bounded FreeRTOS queues (queues.c). A thread that sends to a   *)
(* full queue waits for room; the two timer interrupts (statistics.c,             *)
(* test_publish.c) share publishQueue and drop their message instead.             *)
(* A status is a number: the n-th that the callback accepted.                     *)
EXTENDS Integers, Sequences

CONSTANTS QueueLength,      \* length given to xQueueCreate
          MaxStatus         \* bound: status messages the broker sends

ASSUME QueueLengthAssumption == QueueLength \in Nat \ {0}
ASSUME MaxStatusAssumption == MaxStatus \in Nat

VARIABLES main,             \* where the main task is
          mainStatus,       \* the status it is passing on
          publisher,        \* where the publisher thread is
          publisherMsg,     \* the message it is publishing
          rx,               \* where the receive thread is
          rxStatus,         \* the status it is passing on
          ap,               \* gApConnectionState
          session,          \* with the broker
          mainQueue, publishQueue,
          accepted,         \* statuses the callback has accepted
          handed            \* statuses handed to MQTTClient_publish, in order

vars == <<main, mainStatus, publisher, publisherMsg, rx, rxStatus, ap, session,
          mainQueue, publishQueue, accepted, handed>>

mainVars == <<main, mainStatus>>
publisherVars == <<publisher, publisherMsg>>
rxVars == <<rx, rxStatus>>
network == <<ap, session>>
history == <<accepted, handed>>

\* Messages of publishQueue: a status is its number, negative ones are the timers'.
Statistics == -1
General == -2
NoMsg == 0

IsStatus(msg) == msg > NoMsg

TypeOK ==
    /\ main \in {"boot", "connectAP", "startMqtt", "receive", "send"}
    /\ mainStatus \in Nat
    /\ publisher \in {"none", "start", "createRx", "connect", "subscribe",
                      "receive", "publish", "exited"}
    /\ publisherMsg \in Int
    /\ rx \in {"none", "run", "send"}
    /\ rxStatus \in Nat
    /\ ap \in {"down", "up"}
    /\ session \in {"none", "up", "closed"}
    /\ mainQueue \in Seq(Nat) /\ Len(mainQueue) <= QueueLength
    /\ publishQueue \in Seq(Int) /\ Len(publishQueue) <= QueueLength
    /\ accepted \in Nat
    /\ handed \in Seq(Nat)

Init ==
    /\ main = "boot" /\ mainStatus = NoMsg
    /\ publisher = "none" /\ publisherMsg = NoMsg
    /\ rx = "none" /\ rxStatus = NoMsg
    /\ ap = "down" /\ session = "none"
    /\ mainQueue = <<>> /\ publishQueue = <<>>
    /\ accepted = 0 /\ handed = <<>>

-----------------------------------------------------------------------------
(* The main task: mainThread.                                                    *)

\* The queues exist and the timers run before anything reads the queues.
InitMsgQueues ==
    /\ main = "boot"
    /\ main' = "connectAP"
    /\ UNCHANGED <<mainStatus, publisherVars, rxVars, network, mainQueue, publishQueue, history>>

\* gApConnectionState = Mqtt_IF_Connect(), once, whatever it returns.
ConnectAP(result) ==
    /\ main = "connectAP"
    /\ main' = "startMqtt"
    /\ ap' = result
    /\ UNCHANGED <<mainStatus, publisherVars, rxVars, session, mainQueue, publishQueue, history>>

\* Mqtt_start only prints when the publisher thread cannot be created.
MqttStart(created) ==
    /\ main = "startMqtt"
    /\ main' = "receive"
    /\ publisher' = IF created THEN "start" ELSE "none"
    /\ UNCHANGED <<mainStatus, publisherMsg, rxVars, network, mainQueue, publishQueue, history>>

MainReceive ==
    /\ main = "receive" /\ mainQueue # <<>>
    /\ mainStatus' = Head(mainQueue) /\ mainQueue' = Tail(mainQueue)
    /\ main' = "send"
    /\ UNCHANGED <<publisherVars, rxVars, network, publishQueue, history>>

\* Fault: the room in the queue not looked at.
SendUnchecked ==
    /\ main = "send"
    /\ publishQueue' = Append(publishQueue, mainStatus)
    /\ main' = "receive" /\ mainStatus' = NoMsg
    /\ UNCHANGED <<publisherVars, rxVars, network, mainQueue, history>>

\* Fault: no waiting for room, as in the interrupts.
SendOrDrop ==
    /\ main = "send"
    /\ publishQueue' = IF Len(publishQueue) < QueueLength
                       THEN Append(publishQueue, mainStatus) ELSE publishQueue
    /\ main' = "receive" /\ mainStatus' = NoMsg
    /\ UNCHANGED <<publisherVars, rxVars, network, mainQueue, history>>

\* Fault: xQueueSendToFront for xQueueSend.
SendToFront ==
    /\ main = "send" /\ Len(publishQueue) < QueueLength
    /\ publishQueue' = <<mainStatus>> \o publishQueue
    /\ main' = "receive" /\ mainStatus' = NoMsg
    /\ UNCHANGED <<publisherVars, rxVars, network, mainQueue, history>>

\* publishBoardStatus waits for room (portMAX_DELAY).
MainSend ==
    /\ main = "send" /\ Len(publishQueue) < QueueLength
    /\ publishQueue' = Append(publishQueue, mainStatus)
    /\ main' = "receive" /\ mainStatus' = NoMsg
    /\ UNCHANGED <<publisherVars, rxVars, network, mainQueue, history>>

MainTask ==
    \/ InitMsgQueues
    \/ \E result \in {"up", "down"} : ConnectAP(result)
    \/ \E created \in BOOLEAN : MqttStart(created)
    \/ MainReceive
    \/ MainSend

-----------------------------------------------------------------------------
(* The publisher thread: MqttClient and MqttClient_start.                        *)

\* Fault: the publish call waits for its acknowledgement.
WaitForAck == TRUE

\* blockingSend of the client parameters: MQTTClient_publish of a QoS 1 message
\* does not wait for its PUBACK, which the receive thread would have to read.
blockingSend == FALSE

PublishReturns == blockingSend => rx # "send"

PublisherAlive == publisher \notin {"none", "exited"}

PublisherStep(from, to) == publisher = from /\ publisher' = to

\* Without an access point the loop is entered with no client.
CreateClient(created) ==
    /\ PublisherStep("start", IF ap = "down" THEN "receive"
                              ELSE IF created THEN "createRx" ELSE "exited")
    /\ UNCHANGED <<mainVars, publisherMsg, rxVars, network, mainQueue, publishQueue, history>>

\* The receive thread is created before the connection it will read.
CreateRxThread(created) ==
    /\ PublisherStep("createRx", IF created THEN "connect" ELSE "exited")
    /\ rx' = IF created THEN "run" ELSE "none"
    /\ UNCHANGED <<mainVars, publisherMsg, rxStatus, network, mainQueue, publishQueue, history>>

\* A refused connection is printed and forgotten.
ConnectBroker(accept) ==
    /\ PublisherStep("connect", IF accept THEN "subscribe" ELSE "receive")
    /\ session' = IF accept THEN "up" ELSE session
    /\ UNCHANGED <<mainVars, publisherMsg, rxVars, ap, mainQueue, publishQueue, history>>

\* Fault: the thread given up when the subscription fails.
SubscribeOrExit(granted) ==
    /\ PublisherStep("subscribe", IF granted THEN "receive" ELSE "exited")
    /\ session' = IF granted THEN session ELSE "closed"
    /\ UNCHANGED <<mainVars, publisherMsg, rxVars, ap, mainQueue, publishQueue, history>>

\* A failed subscription ends the session.
Subscribe(granted) ==
    /\ PublisherStep("subscribe", "receive")
    /\ session' = IF granted THEN session ELSE "closed"
    /\ UNCHANGED <<mainVars, publisherMsg, rxVars, ap, mainQueue, publishQueue, history>>

PublisherReceive ==
    /\ publishQueue # <<>>
    /\ PublisherStep("receive", "publish")
    /\ publisherMsg' = Head(publishQueue) /\ publishQueue' = Tail(publishQueue)
    /\ UNCHANGED <<mainVars, rxVars, network, mainQueue, history>>

\* MQTTClient_publish returns; its result is ignored.
Publish ==
    /\ PublishReturns
    /\ PublisherStep("publish", "receive")
    /\ handed' = IF IsStatus(publisherMsg) THEN Append(handed, publisherMsg) ELSE handed
    /\ publisherMsg' = NoMsg
    /\ UNCHANGED <<mainVars, rxVars, network, mainQueue, publishQueue, accepted>>

PublisherStart ==
    \E ok \in BOOLEAN : CreateClient(ok) \/ CreateRxThread(ok)
                     \/ ConnectBroker(ok) \/ Subscribe(ok)

Publisher == PublisherStart \/ PublisherReceive \/ Publish

-----------------------------------------------------------------------------
(* The receive thread: MqttClientThread, MqttClientCallback.                     *)

\* Fault: further statuses accepted while one is waiting for room.
AcceptAnyTime ==
    /\ rx # "none" /\ session = "up" /\ accepted < MaxStatus
    /\ accepted' = accepted + 1
    /\ rx' = "send" /\ rxStatus' = accepted + 1
    /\ UNCHANGED <<mainVars, publisherVars, network, mainQueue, publishQueue, handed>>

\* A start or stop status arrives and the callback calls updateStatus.
AcceptStatus ==
    /\ rx = "run" /\ session = "up" /\ accepted < MaxStatus
    /\ accepted' = accepted + 1
    /\ rx' = "send" /\ rxStatus' = accepted + 1
    /\ UNCHANGED <<mainVars, publisherVars, network, mainQueue, publishQueue, handed>>

\* updateStatus waits for room (portMAX_DELAY), and the thread with it.
UpdateStatus ==
    /\ rx = "send" /\ Len(mainQueue) < QueueLength
    /\ mainQueue' = Append(mainQueue, rxStatus)
    /\ rx' = "run" /\ rxStatus' = NoMsg
    /\ UNCHANGED <<mainVars, publisherVars, network, publishQueue, history>>

ReceiveThread == AcceptStatus \/ UpdateStatus

-----------------------------------------------------------------------------
(* Interrupts and the network.                                                   *)

\* Fault: xQueueOverwriteFromISR's effect, the newest entry replaced when full.
OverwriteWhenFull(msg) ==
    /\ main # "boot"
    /\ publishQueue' = IF Len(publishQueue) < QueueLength
                       THEN Append(publishQueue, msg)
                       ELSE [publishQueue EXCEPT ![QueueLength] = msg]
    /\ UNCHANGED <<mainVars, publisherVars, rxVars, network, mainQueue, history>>

\* publishStatisticsFromISR, publishGeneralMessageFromISR: a full queue drops it.
TimerInterrupt(msg) ==
    /\ main # "boot"
    /\ publishQueue' = IF Len(publishQueue) < QueueLength
                       THEN Append(publishQueue, msg) ELSE publishQueue
    /\ UNCHANGED <<mainVars, publisherVars, rxVars, network, mainQueue, history>>

SessionLost ==
    /\ session = "up"
    /\ session' = "closed"
    /\ UNCHANGED <<mainVars, publisherVars, rxVars, ap, mainQueue, publishQueue, history>>

Next ==
    \/ MainTask
    \/ Publisher
    \/ ReceiveThread
    \/ \E msg \in {Statistics, General} : TimerInterrupt(msg)
    \/ SessionLost

(* Every thread that can run does. The publisher has the higher priority and     *)
(* empties publishQueue before the main task runs, and the timers are slow        *)
(* (500 ms and 5 s), so a sender woken by free room is not outrun by interrupts   *)
(* forever: strong fairness of MainSend. Interrupts and the broker owe nothing.   *)
Fairness ==
    /\ WF_vars(InitMsgQueues)
    /\ WF_vars(\E result \in {"up", "down"} : ConnectAP(result))
    /\ WF_vars(\E created \in BOOLEAN : MqttStart(created))
    /\ WF_vars(MainReceive)
    /\ SF_vars(MainSend)
    /\ WF_vars(Publisher)
    /\ WF_vars(UpdateStatus)

Spec == Init /\ [][Next]_vars /\ Fairness

-----------------------------------------------------------------------------
(* Properties                                                                    *)

Entries(queue) == {queue[i] : i \in 1..Len(queue)}

InTransit ==
    {publisherMsg, mainStatus, rxStatus} \cup Entries(mainQueue) \cup Entries(publishQueue)

(* No status is lost, repeated or overtaken on its way through three threads and *)
(* two queues, although interrupts drop messages of their own between them: what *)
(* the library was given is a prefix of what was accepted, and the rest is        *)
(* still on its way.                                                             *)
NothingLost ==
    /\ handed = [n \in 1..Len(handed) |-> n]
    /\ \A n \in (Len(handed) + 1)..accepted : n \in InTransit

(* Statuses are accepted only while a thread drains publishQueue: no failure of  *)
(* the boot sequence leaves the main task waiting for a publisher that is gone.  *)
SomeoneDrains == accepted > 0 => PublisherAlive

(* At most two full queues and one message in each thread's hands are pending:   *)
(* the callback takes no further status before its last one is in mainQueue.     *)
Capacity == 2 * QueueLength + 3
BacklogBounded == accepted - Len(handed) <= Capacity

(* Every accepted status is eventually handed to the MQTT library.               *)
AcceptedIsHanded == \A n \in 1..MaxStatus : accepted >= n ~> Len(handed) >= n

(* The receive thread, on which stop commands arrive, never waits for ever for   *)
(* room in mainQueue.                                                            *)
ReceiveThreadReturns == rx = "send" ~> rx = "run"

(* The guide's promise that a failed access point is tried again (README.md,      *)
(* "tries to connect again"). mainThread calls Mqtt_IF_Connect once: not kept.    *)
ApRetried == (main = "startMqtt" /\ ap = "down") ~> main = "connectAP"

(* The threads implement the channel of StatusChannel.                           *)
Channel == INSTANCE StatusChannel WITH
    Capacity <- Capacity, accepted <- accepted, handed <- handed

ImplementsStatusChannel == Channel!ChannelSpec
=============================================================================
