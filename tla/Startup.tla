------------------------------- MODULE Startup -------------------------------
(* The device from main (main.c) to the publisher thread's decision to create a    *)
(* client: mainThread (main_task.c) makes the queues, starts the timers that send   *)
(* to them, creates sl_Task, starts the network processor once to read its address, *)
(* stops it, joins the access point (NetworkIf) and creates the publisher. A step   *)
(* that fails ends in epicFail (debug.c), which stops everything, or is ignored.    *)
(* The result is what MessagePipeline starts from.                                  *)
EXTENDS Integers, Sequences

CONSTANTS QueueLength, ConnectWait, MaxDrops,       \* of MessagePipeline and NetworkIf
          Macs              \* the addresses of the boards there are

Byte == 0..255
MacLen == 6

ASSUME QueueLengthAssumption == QueueLength \in Nat \ {0}
ASSUME ConnectWaitAssumption == ConnectWait \in Nat \ {0}
ASSUME MaxDropsAssumption == MaxDrops \in Nat
ASSUME MacsAssumption == Macs # {} /\ Macs \subseteq [1..MacLen -> Byte]

VARIABLES boot,             \* how far mainThread is in BootOrder
          halted,           \* epicFail
          queues,           \* both message queues exist
          publishQueue,
          timers,           \* running
          slTask,           \* sl_Task exists
          device,           \* the network processor: "off", "on"
          mac,              \* address of this board
          macRead,          \* sl_NetCfgGet has succeeded
          clientId,
          gApConnectionState,
          publisher,        \* where the publisher thread is
          joining, loaded, index, givingUp, result, status, events, link, drops

bootVars == <<boot, halted>>
queueVars == <<queues, publishQueue, timers>>
deviceVars == <<slTask, device>>
idVars == <<mac, macRead, clientId>>
clientVars == <<gApConnectionState, publisher>>
netVars == <<joining, loaded, index, givingUp, result, status, events, link, drops>>
vars == <<bootVars, queueVars, deviceVars, idVars, clientVars, netVars>>

\* Access points the network processor has in its memory: it is one that waits to be asked.
StoredProfiles == {}

Net == INSTANCE NetworkIf WITH
    ConnectWait <- ConnectWait, MaxDrops <- MaxDrops, profile <- StoredProfiles # {},
    main <- joining, loaded <- loaded, index <- index, givingUp <- givingUp,
    result <- result, status <- status, events <- events, link <- link, drops <- drops

-----------------------------------------------------------------------------

\* Fault: the address asked of a network processor that is not started.
IdBeforeStart ==
    <<"main", "initMsgQueues", "initStatistics", "init_publish", "sl_Task",
      "SetClientId", "sl_Start", "sl_Stop", "Mqtt_IF_Connect", "Mqtt_start", "receive">>

\* Fault: the timers started before the queues they send to are made.
TimersFirst ==
    <<"main", "initStatistics", "init_publish", "initMsgQueues", "sl_Task",
      "sl_Start", "SetClientId", "sl_Stop", "Mqtt_IF_Connect", "Mqtt_start", "receive">>

\* Fault: the publisher created before the access point is joined.
ClientFirst ==
    <<"main", "initMsgQueues", "initStatistics", "init_publish", "sl_Task",
      "sl_Start", "SetClientId", "sl_Stop", "Mqtt_start", "Mqtt_IF_Connect", "receive">>

\* main creates mainThread, which does the rest in this order.
BootOrder ==
    <<"main", "initMsgQueues", "initStatistics", "init_publish", "sl_Task",
      "sl_Start", "SetClientId", "sl_Stop", "Mqtt_IF_Connect", "Mqtt_start", "receive">>

At(step) == ~halted /\ BootOrder[boot] = step

Proceed == boot' = boot + 1 /\ UNCHANGED halted

\* The step, or epicFail.
ProceedIf(ok) ==
    /\ boot' = IF ok THEN boot + 1 ELSE boot
    /\ halted' = ~ok

StartupTypeOK ==
    /\ boot \in 1..Len(BootOrder)
    /\ {halted, queues, slTask, macRead} \subseteq BOOLEAN
    /\ publishQueue \in Seq({-1, -2}) /\ Len(publishQueue) <= QueueLength
    /\ timers \subseteq {-1, -2}
    /\ device \in {"off", "on"}
    /\ mac \in Macs
    /\ clientId \in Seq(Byte)
    /\ gApConnectionState \in {0, -1}
    /\ publisher \in {"none", "start", "createRx", "receive", "exited"}
    /\ Net!TypeOK

Init ==
    /\ boot = 1 /\ halted = FALSE
    /\ queues = FALSE /\ publishQueue = <<>> /\ timers = {}
    /\ slTask = FALSE /\ device = "off"
    /\ mac \in Macs /\ macRead = FALSE /\ clientId = <<>>
    /\ gApConnectionState = -1 /\ publisher = "none"
    /\ Net!Init

-----------------------------------------------------------------------------
(* Queues and timers. A timer is named by the message it sends.                     *)

Statistics == -1
General == -2

CreateMainThread(ok) ==
    /\ At("main") /\ ProceedIf(ok)
    /\ UNCHANGED <<queueVars, deviceVars, idVars, clientVars, netVars>>

\* xQueueCreate is not checked, but an allocation that fails ends in the hook of main.c.
InitMsgQueues(allocated) ==
    /\ At("initMsgQueues") /\ ProceedIf(allocated)
    /\ queues' = allocated
    /\ UNCHANGED <<publishQueue, timers, deviceVars, idVars, clientVars, netVars>>

\* Timer_open and Timer_start.
StartTimer(step, timer, ok) ==
    /\ At(step) /\ ProceedIf(ok)
    /\ timers' = IF ok THEN timers \cup {timer} ELSE timers
    /\ UNCHANGED <<queues, publishQueue, deviceVars, idVars, clientVars, netVars>>

\* Fault: the room in the queue not looked at.
TimerUnchecked(timer) ==
    /\ ~halted /\ timer \in timers
    /\ publishQueue' = Append(publishQueue, timer)
    /\ UNCHANGED <<bootVars, queues, timers, deviceVars, idVars, clientVars, netVars>>

\* publishStatisticsFromISR, publishGeneralMessageFromISR: a full queue drops it.
TimerInterrupt(timer) ==
    /\ ~halted /\ timer \in timers
    /\ publishQueue' = IF Len(publishQueue) < QueueLength
                       THEN Append(publishQueue, timer) ELSE publishQueue
    /\ UNCHANGED <<bootVars, queues, timers, deviceVars, idVars, clientVars, netVars>>

-----------------------------------------------------------------------------
(* The network processor started for its address, which becomes the client's name.   *)

CreateSlTask(ok) ==
    /\ At("sl_Task") /\ ProceedIf(ok)
    /\ slTask' = ok
    /\ UNCHANGED <<queueVars, device, idVars, clientVars, netVars>>

StartDevice(ok) ==
    /\ At("sl_Start") /\ ProceedIf(ok)
    /\ device' = IF ok THEN "on" ELSE device
    /\ UNCHANGED <<queueVars, slTask, idVars, clientVars, netVars>>

\* Fault: the more significant digit not shifted down.
LowNibbleTwice(bytes) ==
    [k \in 1..(2 * MacLen) |->
        LET digit == bytes[(k + 1) \div 2] % 16
        IN  IF digit > 9 THEN digit + 97 - 10 ELSE digit + 48]

\* Two hexadecimal digits a byte, the more significant first, in ASCII.
ClientIdOf(bytes) ==
    [k \in 1..(2 * MacLen) |->
        LET byte == bytes[(k + 1) \div 2]
            digit == IF k % 2 = 1 THEN byte \div 16 ELSE byte % 16
        IN  IF digit > 9 THEN digit + 97 - 10 ELSE digit + 48]

\* An error of sl_NetCfgGet is returned to a caller that ignores it: the name is then
\* made of an array that was never written, as good as the address of any board.
SetClientId(ok) ==
    /\ At("SetClientId") /\ Proceed
    /\ macRead' = ok
    /\ \E bytes \in (IF ok THEN {mac} ELSE Macs) : clientId' = ClientIdOf(bytes)
    /\ UNCHANGED <<queueVars, deviceVars, mac, clientVars, netVars>>

StopDevice(ok) ==
    /\ At("sl_Stop") /\ ProceedIf(ok)
    /\ device' = IF ok THEN "off" ELSE device
    /\ UNCHANGED <<queueVars, slTask, idVars, clientVars, netVars>>

-----------------------------------------------------------------------------
(* Mqtt_IF_Connect.                                                                  *)

\* The two starts, in Network_IF_InitDriver: one that is on already refuses.
JoinStart(started) ==
    /\ At("Mqtt_IF_Connect")
    /\ device = "on" => started = "failed"
    /\ Net!InitDriver(started) \/ Net!Restart(started)
    /\ device' = IF started = "failed" THEN device ELSE "on"
    /\ UNCHANGED <<bootVars, queueVars, slTask, idVars, clientVars>>

\* The stop between them; nobody looks whether it succeeded.
JoinStop(ok) ==
    /\ At("Mqtt_IF_Connect")
    /\ Net!StopDriver
    /\ device' = IF ok THEN "off" ELSE device
    /\ UNCHANGED <<bootVars, queueVars, slTask, idVars, clientVars>>

Join ==
    /\ At("Mqtt_IF_Connect")
    /\ joining \notin {"initDriver", "stopDriver", "restart"}
    /\ Net!MainTask
    /\ UNCHANGED <<bootVars, queueVars, deviceVars, idVars, clientVars>>

\* sl_Task and the network processor, then and later.
NetworkEvent ==
    /\ ~halted /\ slTask
    /\ Net!HandleEvent \/ Net!Associate \/ Net!AcquireAddress \/ Net!Drop
    /\ UNCHANGED <<bootVars, queueVars, deviceVars, idVars, clientVars>>

StoreConnectionState ==
    /\ At("Mqtt_IF_Connect") /\ joining = "returned"
    /\ Proceed
    /\ gApConnectionState' = result
    /\ UNCHANGED <<queueVars, deviceVars, idVars, publisher, netVars>>

-----------------------------------------------------------------------------
(* Mqtt_start, and the first decision of MqttClient.                                 *)

MqttStart(created) ==
    /\ At("Mqtt_start") /\ Proceed
    /\ publisher' = IF created THEN "start" ELSE "none"
    /\ UNCHANGED <<queueVars, deviceVars, idVars, gApConnectionState, netVars>>

MqttClient(created) ==
    /\ ~halted /\ publisher = "start"
    /\ publisher' = IF gApConnectionState >= 0
                    THEN IF created THEN "createRx" ELSE "exited"
                    ELSE "receive"
    /\ UNCHANGED <<bootVars, queueVars, deviceVars, idVars, gApConnectionState, netVars>>

\* vApplicationStackOverflowHook.
StackOverflow ==
    /\ ~halted /\ boot > 1
    /\ halted' = TRUE
    /\ UNCHANGED <<boot, queueVars, deviceVars, idVars, clientVars, netVars>>

Next ==
    \/ \E ok \in BOOLEAN :
          \/ CreateMainThread(ok) \/ InitMsgQueues(ok)
          \/ StartTimer("initStatistics", Statistics, ok)
          \/ StartTimer("init_publish", General, ok)
          \/ CreateSlTask(ok) \/ StartDevice(ok) \/ SetClientId(ok) \/ StopDevice(ok)
          \/ JoinStop(ok) \/ MqttStart(ok) \/ MqttClient(ok)
    \/ \E started \in {"station", "other", "failed"} : JoinStart(started)
    \/ Join \/ StoreConnectionState \/ NetworkEvent
    \/ \E timer \in {Statistics, General} : TimerInterrupt(timer)
    \/ StackOverflow

Spec == Init /\ [][Next]_vars

-----------------------------------------------------------------------------
(* Properties                                                                      *)

\* Where the main task is for MessagePipeline.
PipelineMain ==
    IF ~queues THEN "boot"
    ELSE CASE BootOrder[boot] = "Mqtt_start" -> "startMqtt"
           [] BootOrder[boot] = "receive"    -> "receive"
           [] OTHER                          -> "connectAP"

Pipeline == INSTANCE MessagePipeline WITH
    QueueLength <- QueueLength, MaxStatus <- 0,
    main <- PipelineMain,
    mainStatus <- 0, publisher <- publisher, publisherMsg <- 0,
    rx <- "none", rxStatus <- 0,
    ap <- IF gApConnectionState >= 0 THEN "up" ELSE "down", session <- "none",
    mainQueue <- <<>>, publishQueue <- publishQueue, accepted <- 0, handed <- <<>>

(* However the boot goes and wherever it ends, MessagePipeline sees one of its own    *)
(* beginnings: no interrupt sends to a queue that does not exist yet, and the         *)
(* publisher starts when the result of joining is there to be read.                   *)
ImplementsPipelineStart == Pipeline!Init /\ [][Pipeline!Next]_(Pipeline!vars)

(* The publisher creates a client only when the access point was joined, and goes     *)
(* without one only when joining failed: gApConnectionState, which holds              *)
(* "disconnected" from the beginning, is not read before it is written.                *)
ClientFollowsResult ==
    /\ publisher \in {"createRx", "exited"} => result = 0
    /\ publisher = "receive" => result = -1

\* The value of a hexadecimal digit in ASCII.
DigitValue(c) == IF c >= 97 THEN c - 87 ELSE c - 48

(* Two boards whose addresses could be read never share a client name, on which the   *)
(* broker would end the session of one of them: the name is twelve digits from which   *)
(* the address can be read back. Of an address that was not read nothing is said.       *)
ClientIdTellsBoard ==
    clientId # <<>> =>
        /\ Len(clientId) = 12
        /\ \A k \in 1..12 : clientId[k] \in (48..57 \cup 97..102)
        /\ macRead => \A i \in 1..MacLen :
               16 * DigitValue(clientId[2 * i - 1]) + DigitValue(clientId[2 * i]) = mac[i]

(* Each driver call finds the network processor as it needs it: off to be started,     *)
(* the first time and for joining, and on, with sl_Task there to take its answers, for *)
(* everything else. The exception is the third start, in another role: the stop before *)
(* it may have failed, and it is then refused. Joining is never reported a success      *)
(* with the processor off.                                                            *)
DeviceReady ==
    ~halted =>
        /\ (At("sl_Start") \/ (At("Mqtt_IF_Connect") /\ joining = "initDriver"))
               => device = "off" /\ slTask
        /\ (\/ At("SetClientId") \/ At("sl_Stop") \/ result = 0
            \/ joining \notin {"initDriver", "restart", "hung", "returned"})
               => device = "on" /\ slTask
=============================================================================
