--------------------------- MODULE Startup_proofs ---------------------------
(* Safety of Startup for every queue length, number of polls and losses, and set    *)
(* of boards. What exists at a step of the boot is read off how far it has got; the  *)
(* joining of the access point keeps the invariant that NetworkIf_proofs shows.      *)
EXTENDS Startup, SequenceTheorems, TLAPS

Joining == INSTANCE NetworkIf_proofs WITH
    ConnectWait <- ConnectWait, MaxDrops <- MaxDrops, profile <- StoredProfiles # {},
    main <- joining, loaded <- loaded, index <- index, givingUp <- givingUp,
    result <- result, status <- status, events <- events, link <- link, drops <- drops

-----------------------------------------------------------------------------
(* The inductive invariant.                                                         *)

\* What the boot has made, by how far it has got.
Made ==
    /\ queues <=> boot >= 3
    /\ timers # {} => boot >= 3
    /\ slTask <=> boot >= 6

\* The network processor is on for its address, off again, and on while joining.
DeviceKnown ==
    /\ boot <= 6 => device = "off"
    /\ boot \in {7, 8} => device = "on"
    /\ boot >= 9 /\ joining = "initDriver" => device = "off"
    /\ joining \notin {"initDriver", "restart", "hung", "returned"} => device = "on"
    /\ result = 0 => device = "on"

Progress ==
    /\ joining # "initDriver" => boot >= 9
    /\ boot >= 10 => joining = "returned"
    /\ publisher # "none" => boot = 11

\* The result of joining, and the copy of it that the publisher reads.
ResultKnown ==
    /\ joining = "returned" <=> result \in {0, -1}
    /\ gApConnectionState = IF boot >= 10 THEN result ELSE -1

OwnTypeOK ==
    /\ boot \in 1..11
    /\ {halted, queues, slTask, macRead} \subseteq BOOLEAN
    /\ publishQueue \in Seq({-1, -2}) /\ Len(publishQueue) <= QueueLength
    /\ timers \subseteq {-1, -2}
    /\ device \in {"off", "on"}
    /\ mac \in Macs
    /\ clientId \in Seq(Byte)
    /\ gApConnectionState \in {0, -1}
    /\ publisher \in {"none", "start", "createRx", "receive", "exited"}

IInv ==
    /\ OwnTypeOK
    /\ Joining!IInv
    /\ Made
    /\ DeviceKnown
    /\ Progress
    /\ ResultKnown
    /\ ClientFollowsResult
    /\ ClientIdTellsBoard

-----------------------------------------------------------------------------
(* Facts about the boot order and the client's name.                                *)

(* The name of the step the boot has reached tells how far it is.                   *)
LEMMA BootSteps ==
  ASSUME boot \in 1..11
  PROVE  /\ BootOrder[boot] = "main" <=> boot = 1
         /\ BootOrder[boot] = "initMsgQueues" <=> boot = 2
         /\ BootOrder[boot] = "initStatistics" <=> boot = 3
         /\ BootOrder[boot] = "init_publish" <=> boot = 4
         /\ BootOrder[boot] = "sl_Task" <=> boot = 5
         /\ BootOrder[boot] = "sl_Start" <=> boot = 6
         /\ BootOrder[boot] = "SetClientId" <=> boot = 7
         /\ BootOrder[boot] = "sl_Stop" <=> boot = 8
         /\ BootOrder[boot] = "Mqtt_IF_Connect" <=> boot = 9
         /\ BootOrder[boot] = "Mqtt_start" <=> boot = 10
         /\ BootOrder[boot] = "receive" <=> boot = 11
  BY DEF BootOrder

Digit(d) == IF d > 9 THEN d + 97 - 10 ELSE d + 48

(* A hexadecimal digit in ASCII is a digit or a small letter, and can be read back. *)
LEMMA DigitReadable ==
  ASSUME NEW d \in 0..15
  PROVE  Digit(d) \in (48..57 \cup 97..102) /\ DigitValue(Digit(d)) = d
  BY DEF Digit, DigitValue

LEMMA ByteDigits ==
  ASSUME NEW b \in Byte
  PROVE  b \div 16 \in 0..15 /\ b % 16 \in 0..15 /\ 16 * (b \div 16) + (b % 16) = b
  BY DEF Byte

(* The name of a board is twelve digits, two for each byte of its address.          *)
LEMMA ClientIdReadable ==
  ASSUME NEW bytes \in [1..6 -> Byte]
  PROVE  /\ ClientIdOf(bytes) \in Seq(Byte) /\ Len(ClientIdOf(bytes)) = 12
         /\ \A k \in 1..12 : ClientIdOf(bytes)[k] \in (48..57 \cup 97..102)
         /\ \A i \in 1..6 : 16 * DigitValue(ClientIdOf(bytes)[2 * i - 1])
                               + DigitValue(ClientIdOf(bytes)[2 * i]) = bytes[i]
<1> DEFINE half(k) == IF k % 2 = 1 THEN bytes[(k + 1) \div 2] \div 16
                                   ELSE bytes[(k + 1) \div 2] % 16
           id == ClientIdOf(bytes)
<1>1. id = [k \in 1..12 |-> Digit(half(k))]
  BY DEF ClientIdOf, Digit, MacLen
<1>2. ASSUME NEW k \in 1..12 PROVE half(k) \in 0..15
  <2>1. (k + 1) \div 2 \in 1..6
    OBVIOUS
  <2>2. bytes[(k + 1) \div 2] \in Byte
    BY <2>1
  <2>3. QED BY <2>2, ByteDigits
<1>3. ASSUME NEW i \in 1..6
      PROVE  /\ 2 * i - 1 \in 1..12 /\ half(2 * i - 1) = bytes[i] \div 16
             /\ 2 * i \in 1..12 /\ half(2 * i) = bytes[i] % 16
  <2>1. /\ (2 * i - 1) % 2 = 1 /\ ((2 * i - 1) + 1) \div 2 = i
        /\ (2 * i) % 2 = 0 /\ (2 * i + 1) \div 2 = i
    OBVIOUS
  <2>2. QED BY <2>1
<1> HIDE DEF half, id
<1>4. \A k \in 1..12 : id[k] \in (48..57 \cup 97..102) /\ DigitValue(id[k]) = half(k)
  BY <1>1, <1>2, DigitReadable
<1>5. id \in [1..12 -> Byte]
  BY <1>1, <1>4 DEF Byte
<1>6. id \in Seq(Byte) /\ Len(id) = 12
  <2>1. id \in Seq(Byte)
    <3>1. 12 \in Nat
      OBVIOUS
    <3>2. id \in UNION {[1..n -> Byte] : n \in Nat}
      BY <1>5, <3>1, Zenon
    <3>3. QED BY <3>2, SeqDef, Zenon
  <2>2. Len(id) \in Nat /\ DOMAIN id = 1..Len(id) /\ DOMAIN id = 1..12
    BY <1>5, <2>1, LenProperties
  <2>3. \A n \in Nat : 1..n = 1..12 => n = 12
    <3> SUFFICES ASSUME NEW n \in Nat, 1..n = 1..12 PROVE n = 12
      OBVIOUS
    <3>1. 12 \in 1..n
      BY 12 \in 1..12
    <3>2. n \in 1..12
      BY <3>1
    <3>3. QED BY <3>1, <3>2
  <2>4. QED BY <2>1, <2>2, <2>3
<1>7. ASSUME NEW i \in 1..6
      PROVE  16 * DigitValue(id[2 * i - 1]) + DigitValue(id[2 * i]) = bytes[i]
  <2>1. DigitValue(id[2 * i - 1]) = bytes[i] \div 16 /\ DigitValue(id[2 * i]) = bytes[i] % 16
    BY <1>3, <1>4
  <2>2. bytes[i] \in Byte
    OBVIOUS
  <2>3. QED BY <2>1, <2>2, ByteDigits
<1>8. QED BY <1>4, <1>6, <1>7 DEF id

-----------------------------------------------------------------------------
(* Joining inside the boot is NetworkIf.                                            *)

LEMMA SameTypes == Joining!IInv => Net!TypeOK
  BY DEF Joining!IInv, Joining!TypeOK, Net!TypeOK, Joining!Bits, Net!Bits,
         Joining!Events, Net!Events, Joining!Running, Net!Running

LEMMA NetInit == Net!Init => Joining!IInv
<1>1. Net!Init => Joining!Init
  BY DEF Net!Init, Joining!Init, Net!Running, Joining!Running
<1>2. QED BY <1>1, Joining!InitInvariant, ConnectWaitAssumption, MaxDropsAssumption

(* Whatever the device does, NetworkIf takes one of its steps or none.              *)
LEMMA NetStep == [Next]_vars => Net!Next \/ UNCHANGED netVars
<1> SUFFICES ASSUME [Next]_vars PROVE Net!Next \/ UNCHANGED netVars
  OBVIOUS
<1>1. CASE \/ \E started \in {"station", "other", "failed"} : JoinStart(started)
           \/ \E ok \in BOOLEAN : JoinStop(ok)
  BY <1>1 DEF JoinStart, JoinStop, Net!Next, Net!MainTask
<1>2. CASE Join \/ NetworkEvent
  BY <1>2 DEF Join, NetworkEvent, Net!Next
<1>3. CASE UNCHANGED vars
  BY <1>3 DEF vars
<1>4. QED
  BY <1>1, <1>2, <1>3 DEF Next, CreateMainThread, InitMsgQueues, StartTimer, CreateSlTask,
     StartDevice, SetClientId, StopDevice, MqttStart, MqttClient, StoreConnectionState,
     TimerInterrupt, StackOverflow

LEMMA NetInvariant == Joining!IInv /\ [Next]_vars => Joining!IInv'
<1>1. Net!Next => Joining!Next
  BY DEF
         Net!Next, Joining!Next, Net!MainTask, Joining!MainTask, Net!HandleEvent,
         Joining!HandleEvent, Net!Associate, Joining!Associate, Net!AcquireAddress,
         Joining!AcquireAddress, Net!Drop, Joining!Drop, Net!InitDriver,
         Joining!InitDriver, Net!SetMode, Joining!SetMode, Net!StopDriver,
         Joining!StopDriver, Net!Restart, Joining!Restart, Net!LinkAfterStart,
         Joining!LinkAfterStart, Net!IsConnected,
         Joining!IsConnected, Net!WlanDisconnect, Joining!WlanDisconnect, Net!WlanConnect,
         Joining!WlanConnect, Net!IpConfigGet, Joining!IpConfigGet, Net!SpinEnds,
         Joining!SpinEnds, Net!Load, Joining!Load, Net!StoreConnection,
         Joining!StoreConnection, Net!StoreIp, Joining!StoreIp, Net!PollConnection,
         Joining!PollConnection, Net!PollIp, Joining!PollIp, Net!Check, Joining!Check,
         Net!Tick, Joining!Tick, Net!Report, Joining!Report, Net!Goto, Joining!Goto,
         Net!LinkUp, Joining!LinkUp, Net!Handled, Joining!Handled, Net!nwp, Joining!nwp,
         Net!mainVars, Joining!mainVars, Net!Running, Joining!Running, Net!vars,
         Joining!vars
<1>2. UNCHANGED netVars => UNCHANGED Joining!vars
  BY DEF netVars, Joining!vars
<1>3. Joining!IInv /\ [Joining!Next]_(Joining!vars) => Joining!IInv'
  BY Joining!InductiveStep, ConnectWaitAssumption, MaxDropsAssumption DEF StoredProfiles
<1>4. QED BY <1>1, <1>2, <1>3, NetStep

(* The main task's part of it: it does not begin twice, and it returns with a result. *)
LEMMA MainTaskResult ==
  ASSUME Net!TypeOK, Net!MainTask, joining = "returned" <=> result \in {0, -1}
  PROVE  /\ joining \notin {"hung", "returned"} /\ joining' # "initDriver"
         /\ joining' = "returned" <=> result' \in {0, -1}
  BY DEF Net!TypeOK,
         Net!MainTask, Net!InitDriver, Net!SetMode, Net!StopDriver, Net!Restart, Net!IsConnected,
         Net!WlanDisconnect,
         Net!WlanConnect, Net!IpConfigGet, Net!SpinEnds, Net!Load, Net!StoreConnection,
         Net!StoreIp, Net!PollConnection, Net!PollIp, Net!Check, Net!Tick, Net!Goto,
         Net!LinkUp, Net!nwp, Net!mainVars, Net!Running

-----------------------------------------------------------------------------
(* The invariant.                                                                   *)

LEMMA InitInvariant == Init => IInv
<1> SUFFICES ASSUME Init PROVE IInv
  OBVIOUS
<1>1. joining = "initDriver" /\ result = 1
  BY DEF Init, Net!Init, Net!Running
<1>2. OwnTypeOK
  <2>1. boot = 1 /\ halted = FALSE /\ queues = FALSE /\ slTask = FALSE /\ macRead = FALSE
    BY DEF Init
  <2>2. publishQueue = <<>> /\ timers = {} /\ device = "off" /\ mac \in Macs
    BY DEF Init
  <2>3. clientId = <<>> /\ gApConnectionState = -1 /\ publisher = "none"
    BY DEF Init
  <2>4. <<>> \in Seq({-1, -2}) /\ <<>> \in Seq(Byte) /\ Len(<<>>) <= QueueLength
    BY QueueLengthAssumption
  <2>5. {halted, queues, slTask, macRead} \subseteq BOOLEAN
    BY <2>1, Zenon
  <2>6. QED BY <2>1, <2>2, <2>3, <2>4, <2>5 DEF OwnTypeOK
<1>3. Joining!IInv
  BY NetInit DEF Init
<1>4. Made /\ DeviceKnown /\ Progress /\ ResultKnown
  <2>1. Made /\ DeviceKnown
    <3>1. boot = 1 /\ queues = FALSE /\ slTask = FALSE /\ timers = {} /\ device = "off"
      BY DEF Init
    <3>2. QED BY <1>1, <3>1 DEF Made, DeviceKnown
  <2>2. Progress /\ ResultKnown
    BY <1>1 DEF Init, Progress, ResultKnown
  <2>3. QED BY <2>1, <2>2
<1>5. ClientFollowsResult /\ ClientIdTellsBoard
  BY DEF Init, ClientFollowsResult, ClientIdTellsBoard
<1>6. QED BY <1>2, <1>3, <1>4, <1>5 DEF IInv

LEMMA NameKept == ClientIdTellsBoard /\ UNCHANGED idVars => ClientIdTellsBoard'
  BY DEF ClientIdTellsBoard, idVars

(* What the boot of the device, without the joining, has to keep.                   *)
Kept == OwnTypeOK /\ Made /\ DeviceKnown /\ Progress /\ ResultKnown /\ ClientFollowsResult

(* Steps up to the first start of the network processor, each of which can end the   *)
(* boot.                                                                            *)
LEMMA MakingSteps ==
  ASSUME IInv, NEW ok \in BOOLEAN,
         \/ CreateMainThread(ok) \/ InitMsgQueues(ok)
         \/ StartTimer("initStatistics", Statistics, ok)
         \/ StartTimer("init_publish", General, ok)
         \/ CreateSlTask(ok)
  PROVE  Kept' /\ ClientIdTellsBoard'
<1> USE DEF IInv, Kept, Proceed, ProceedIf, At, Statistics, General, queueVars, deviceVars,
           clientVars, netVars
<1>1. Kept'
  <2>1. CASE CreateMainThread(ok)
    BY <2>1, BootSteps DEF CreateMainThread, OwnTypeOK, Made, DeviceKnown, Progress,
       ResultKnown, ClientFollowsResult, idVars
  <2>2. CASE InitMsgQueues(ok)
    BY <2>2, BootSteps DEF InitMsgQueues, OwnTypeOK, Made, DeviceKnown, Progress,
       ResultKnown, ClientFollowsResult, idVars
  <2>3. CASE StartTimer("initStatistics", Statistics, ok)
    BY <2>3, BootSteps DEF StartTimer, OwnTypeOK, Made, DeviceKnown, Progress,
       ResultKnown, ClientFollowsResult, idVars
  <2>4. CASE StartTimer("init_publish", General, ok)
    BY <2>4, BootSteps DEF StartTimer, OwnTypeOK, Made, DeviceKnown, Progress,
       ResultKnown, ClientFollowsResult, idVars
  <2>5. CASE CreateSlTask(ok)
    BY <2>5, BootSteps DEF CreateSlTask, OwnTypeOK, Made, DeviceKnown, Progress,
       ResultKnown, ClientFollowsResult, idVars
  <2>6. QED BY <2>1, <2>2, <2>3, <2>4, <2>5
<1>2. ClientIdTellsBoard'
  BY NameKept DEF CreateMainThread, InitMsgQueues, StartTimer, CreateSlTask
<1>3. QED BY <1>1, <1>2

(* The start for the address, the reading of it, and the stop.                      *)
LEMMA AddressSteps ==
  ASSUME IInv, NEW ok \in BOOLEAN, StartDevice(ok) \/ SetClientId(ok) \/ StopDevice(ok)
  PROVE  Kept' /\ ClientIdTellsBoard'
<1> USE DEF IInv, Kept, Proceed, ProceedIf, At, queueVars, deviceVars, clientVars, netVars
<1>1. CASE StartDevice(ok)
  BY <1>1, BootSteps, NameKept DEF StartDevice, OwnTypeOK, Made, DeviceKnown, Progress,
     ResultKnown, ClientFollowsResult, idVars
<1>2. CASE StopDevice(ok)
  BY <1>2, BootSteps, NameKept DEF StopDevice, OwnTypeOK, Made, DeviceKnown, Progress,
     ResultKnown, ClientFollowsResult, idVars
<1>3. CASE SetClientId(ok)
  <2>1. PICK bytes \in (IF ok THEN {mac} ELSE Macs) : clientId' = ClientIdOf(bytes)
    BY <1>3 DEF SetClientId
  <2>2. bytes \in [1..6 -> Byte] /\ (ok => bytes = mac)
    BY MacsAssumption DEF OwnTypeOK, MacLen
  <2>3. /\ clientId' \in Seq(Byte) /\ Len(clientId') = 12
        /\ \A k \in 1..12 : clientId'[k] \in (48..57 \cup 97..102)
        /\ \A i \in 1..6 : 16 * DigitValue(clientId'[2 * i - 1])
                              + DigitValue(clientId'[2 * i]) = bytes[i]
    BY <2>1, <2>2, ClientIdReadable
  <2>4. mac' = mac /\ macRead' = ok
    BY <1>3 DEF SetClientId
  <2>5. ClientIdTellsBoard'
    BY <2>2, <2>3, <2>4 DEF ClientIdTellsBoard, MacLen
  <2>6. Kept'
    BY <1>3, <2>3, <2>4, BootSteps DEF SetClientId, OwnTypeOK, Made, DeviceKnown, Progress,
       ResultKnown, ClientFollowsResult
  <2>7. QED BY <2>5, <2>6
<1>4. QED BY <1>1, <1>2, <1>3

(* Joining the access point.                                                        *)
LEMMA JoinSteps ==
  ASSUME IInv,
         \/ \E started \in {"station", "other", "failed"} : JoinStart(started)
         \/ \E ok \in BOOLEAN : JoinStop(ok)
         \/ Join
  PROVE  Kept' /\ ClientIdTellsBoard'
<1>1. boot = 9
  BY BootSteps DEF IInv, OwnTypeOK, JoinStart, JoinStop, Join, At
<1>2. Net!MainTask
  BY DEF JoinStart, JoinStop, Join, Net!MainTask
<1>3. UNCHANGED <<bootVars, queueVars, slTask, idVars, clientVars>>
  BY DEF JoinStart, JoinStop, Join, deviceVars
<1>4. /\ joining \notin {"hung", "returned"} /\ joining' # "initDriver"
      /\ joining' = "returned" <=> result' \in {0, -1}
  BY <1>2, SameTypes, MainTaskResult DEF IInv, ResultKnown
<1>5. /\ device' \in {"off", "on"}
      /\ joining' \notin {"initDriver", "restart", "hung", "returned"} => device' = "on"
      /\ result' = 0 => device' = "on"
  <2>1. result # 0
    BY <1>4 DEF IInv, ResultKnown
  <2>2. CASE \E started \in {"station", "other", "failed"} : JoinStart(started)
    <3>1. PICK started \in {"station", "other", "failed"} : JoinStart(started)
      BY <2>2
    <3>2. result' # 0 /\ (started = "failed" => joining' \in {"hung", "returned"})
      BY <2>1, <3>1 DEF JoinStart, Net!InitDriver, Net!Restart, Net!Goto
    <3>3. device' \in {device, "on"} /\ (started # "failed" => device' = "on")
      BY <3>1 DEF JoinStart
    <3>4. QED BY <3>2, <3>3 DEF IInv, OwnTypeOK
  <2>3. CASE \E ok \in BOOLEAN : JoinStop(ok)
    <3>1. joining' = "restart" /\ result' = result /\ device' \in {device, "off"}
      BY <2>3 DEF JoinStop, Net!StopDriver, Net!Goto
    <3>2. QED BY <2>1, <3>1 DEF IInv, OwnTypeOK
  <2>4. CASE Join
    <3>1. /\ device' = device
          /\ joining \notin {"initDriver", "stopDriver", "restart", "hung", "returned"}
      BY <1>4, <2>4 DEF Join, deviceVars
    <3>2. QED BY <3>1 DEF IInv, OwnTypeOK, DeviceKnown
  <2>5. QED BY <2>2, <2>3, <2>4
<1>6. OwnTypeOK' /\ Made' /\ DeviceKnown' /\ Progress' /\ ResultKnown'
  BY <1>1, <1>3, <1>4, <1>5 DEF IInv, OwnTypeOK, Made, DeviceKnown, Progress, ResultKnown,
     bootVars, queueVars, idVars, clientVars
<1>7. ClientFollowsResult'
  BY <1>1, <1>3 DEF IInv, Progress, ClientFollowsResult, clientVars
<1>8. ClientIdTellsBoard'
  BY <1>3, NameKept DEF IInv
<1>9. QED BY <1>6, <1>7, <1>8 DEF Kept

(* The publisher is created once the result of joining is there.                    *)
LEMMA PublisherSteps ==
  ASSUME IInv, StoreConnectionState \/ \E ok \in BOOLEAN : MqttStart(ok) \/ MqttClient(ok)
  PROVE  Kept' /\ ClientIdTellsBoard'
<1> USE DEF IInv, Kept, Proceed, At, queueVars, deviceVars, clientVars, netVars
<1>1. CASE StoreConnectionState
  BY <1>1, BootSteps, NameKept DEF StoreConnectionState, OwnTypeOK, Made, DeviceKnown, Progress,
     ResultKnown, ClientFollowsResult, idVars
<1>2. CASE \E ok \in BOOLEAN : MqttStart(ok)
  BY <1>2, BootSteps, NameKept DEF MqttStart, OwnTypeOK, Made, DeviceKnown, Progress,
     ResultKnown, ClientFollowsResult, idVars
<1>3. CASE \E ok \in BOOLEAN : MqttClient(ok)
  BY <1>3, BootSteps, NameKept DEF MqttClient, OwnTypeOK, Made, DeviceKnown, Progress,
     ResultKnown, ClientFollowsResult, idVars, bootVars
<1>4. QED BY <1>1, <1>2, <1>3

(* Interrupts, events and the hook for a stack overflow.                            *)
LEMMA OtherSteps ==
  ASSUME IInv,
         \/ \E timer \in {Statistics, General} : TimerInterrupt(timer)
         \/ NetworkEvent \/ StackOverflow \/ UNCHANGED vars
  PROVE  Kept' /\ ClientIdTellsBoard'
<1> USE DEF IInv, Kept, queueVars, deviceVars, clientVars, netVars, bootVars
<1>1. CASE \E timer \in {Statistics, General} : TimerInterrupt(timer)
  <2>1. publishQueue' \in Seq({-1, -2}) /\ Len(publishQueue') <= QueueLength
    BY <1>1, QueueLengthAssumption DEF TimerInterrupt, OwnTypeOK, Statistics, General
  <2>2. UNCHANGED <<boot, halted, queues, timers, slTask, device, idVars, gApConnectionState,
                    publisher, joining, result>>
    BY <1>1 DEF TimerInterrupt
  <2>3. QED BY <2>1, <2>2, NameKept DEF OwnTypeOK, Made, DeviceKnown, Progress,
     ResultKnown, ClientFollowsResult, idVars
<1>2. CASE NetworkEvent
  <2>1. UNCHANGED <<boot, halted, queues, timers, publishQueue, slTask, device, idVars,
                    gApConnectionState, publisher, joining, result>>
    BY <1>2 DEF NetworkEvent, Net!HandleEvent, Net!Associate, Net!AcquireAddress, Net!Drop,
       Net!Report, Net!mainVars
  <2>2. QED BY <2>1, NameKept DEF OwnTypeOK, Made, DeviceKnown, Progress,
     ResultKnown, ClientFollowsResult, idVars
<1>3. CASE StackOverflow
  BY <1>3, NameKept DEF StackOverflow, OwnTypeOK, Made, DeviceKnown, Progress,
     ResultKnown, ClientFollowsResult, idVars
<1>4. CASE UNCHANGED vars
  BY <1>4, NameKept DEF vars, OwnTypeOK, Made, DeviceKnown, Progress,
     ResultKnown, ClientFollowsResult, idVars
<1>5. QED BY <1>1, <1>2, <1>3, <1>4

LEMMA InductiveStep == IInv /\ [Next]_vars => IInv'
<1> SUFFICES ASSUME IInv, [Next]_vars PROVE IInv'
  OBVIOUS
<1>1. Joining!IInv'
  BY NetInvariant DEF IInv
<1>2. Kept' /\ ClientIdTellsBoard'
  BY MakingSteps, AddressSteps, JoinSteps, PublisherSteps, OtherSteps DEF Next
<1>3. QED BY <1>1, <1>2 DEF IInv, Kept

LEMMA Invariance == Spec => []IInv
  BY InitInvariant, InductiveStep, PTL DEF Spec

-----------------------------------------------------------------------------
(* The theorems.                                                                    *)

(* Every variable keeps its type, for every set of boards.                          *)
THEOREM TypeCorrect == Spec => []StartupTypeOK
<1>1. IInv => StartupTypeOK
  <2>1. Len(BootOrder) = 11
    BY DEF BootOrder
  <2>2. QED BY <2>1, SameTypes DEF IInv, OwnTypeOK, StartupTypeOK
<1>2. QED BY <1>1, Invariance, PTL

(* A client is created only on a network, and done without only when joining failed. *)
THEOREM ClientIsRight == Spec => []ClientFollowsResult
  BY Invariance, PTL DEF IInv

(* A board's address can be read back from its client name: no two share one.        *)
THEOREM NameTellsBoard == Spec => []ClientIdTellsBoard
  BY Invariance, PTL DEF IInv

(* Each driver call finds the network processor as it needs it.                     *)
THEOREM DeviceIsReady == Spec => []DeviceReady
<1>1. IInv => DeviceReady
  <2> SUFFICES ASSUME IInv PROVE DeviceReady
    OBVIOUS
  <2>1. boot \in 1..11
    BY DEF IInv, OwnTypeOK
  <2>2. Made /\ DeviceKnown /\ Progress /\ slTask \in BOOLEAN
    BY DEF IInv, OwnTypeOK
  <2>3. ASSUME At("sl_Start") \/ (At("Mqtt_IF_Connect") /\ joining = "initDriver")
        PROVE  device = "off" /\ slTask
    BY <2>1, <2>2, <2>3, BootSteps DEF Made, DeviceKnown, At
  <2>4. ASSUME \/ At("SetClientId") \/ At("sl_Stop") \/ result = 0
               \/ joining \notin {"initDriver", "restart", "hung", "returned"}
        PROVE  device = "on" /\ slTask
    <3>1. result = 0 => joining = "returned"
      BY DEF IInv, ResultKnown
    <3>2. QED BY <2>1, <2>2, <2>4, <3>1, BootSteps DEF Made, DeviceKnown, Progress, At
  <2>5. QED BY <2>3, <2>4 DEF DeviceReady
<1>2. QED BY <1>1, Invariance, PTL

(* What holds of joining the access point holds of it inside the boot, with timers   *)
(* interrupting and the device stopping anywhere.                                   *)
THEOREM BootedLinkTracked == Spec => [](Net!BitsTrackLink /\ Net!SpinIsAnswered)
<1>1. Joining!IInv => Joining!BitsTrackLink /\ Joining!SpinIsAnswered
  BY Joining!LinkInvariant, Joining!SpinInvariant, ConnectWaitAssumption, MaxDropsAssumption
<1>2. Joining!BitsTrackLink => Net!BitsTrackLink
  BY DEF Joining!BitsTrackLink, Net!BitsTrackLink, Joining!Waiting, Net!Waiting,
         Joining!Handled, Net!Handled, Joining!After, Net!After, Joining!Announced,
         Net!Announced, Joining!BitsOf, Net!BitsOf, Joining!Bits, Net!Bits
<1>3. Joining!SpinIsAnswered => Net!SpinIsAnswered
  BY DEF Joining!SpinIsAnswered, Net!SpinIsAnswered
<1>4. QED BY <1>1, <1>2, <1>3, Invariance, PTL DEF IInv

-----------------------------------------------------------------------------
(* Startup ends in a beginning of MessagePipeline.                                  *)

\* Where the main task of MessagePipeline is, by how far the boot has got.
Stage(b) == IF b < 3 THEN "boot" ELSE IF b < 10 THEN "connectAP"
            ELSE IF b = 10 THEN "startMqtt" ELSE "receive"

LEMMA BootOrderEnd ==
  ASSUME NEW b \in 1..11
  PROVE  /\ BootOrder[b] = "Mqtt_start" <=> b = 10
         /\ BootOrder[b] = "receive" <=> b = 11
  BY DEF BootOrder

LEMMA StageShown == OwnTypeOK /\ Made => PipelineMain = Stage(boot)
  BY BootOrderEnd DEF OwnTypeOK, Made, PipelineMain, Stage

LEMMA StageShownNext == OwnTypeOK' /\ Made' => PipelineMain' = Stage(boot')
  BY BootOrderEnd DEF OwnTypeOK, Made, PipelineMain, Stage

ApShown == IF gApConnectionState >= 0 THEN "up" ELSE "down"

\* Steps that MessagePipeline does not see.
Unseen == UNCHANGED <<publisher, publishQueue, gApConnectionState>> /\ Stage(boot') = Stage(boot)

LEMMA UnseenStep ==
  ASSUME IInv, IInv', Unseen PROVE UNCHANGED Pipeline!vars
<1>1. PipelineMain' = PipelineMain
  BY StageShown, StageShownNext DEF IInv, Unseen
<1>2. QED BY <1>1 DEF Unseen, Pipeline!vars

LEMMA UnseenMaking ==
  ASSUME IInv, IInv', NEW ok \in BOOLEAN,
         \/ CreateMainThread(ok) \/ (InitMsgQueues(ok) /\ ~ok)
         \/ StartTimer("initStatistics", Statistics, ok)
         \/ StartTimer("init_publish", General, ok)
         \/ CreateSlTask(ok) \/ StartDevice(ok) \/ SetClientId(ok) \/ StopDevice(ok)
  PROVE  Unseen
<1>1. boot \in 1..11
  BY DEF IInv, OwnTypeOK
<1> USE <1>1, BootSteps DEF Unseen, Stage, At, Proceed, ProceedIf, queueVars, clientVars
<1>2. CASE CreateMainThread(ok) \/ (InitMsgQueues(ok) /\ ~ok)
  BY <1>2 DEF CreateMainThread, InitMsgQueues
<1>3. CASE \/ StartTimer("initStatistics", Statistics, ok)
           \/ StartTimer("init_publish", General, ok)
  BY <1>3 DEF StartTimer
<1>4. CASE CreateSlTask(ok) \/ StartDevice(ok) \/ SetClientId(ok) \/ StopDevice(ok)
  BY <1>4 DEF CreateSlTask, StartDevice, SetClientId, StopDevice
<1>5. QED BY <1>2, <1>3, <1>4

LEMMA UnseenJoining ==
  ASSUME \/ \E started \in {"station", "other", "failed"} : JoinStart(started)
         \/ \E ok \in BOOLEAN : JoinStop(ok)
         \/ Join \/ NetworkEvent \/ StackOverflow \/ UNCHANGED vars
  PROVE  Unseen
  BY DEF Unseen, Stage, JoinStart, JoinStop, Join, NetworkEvent, StackOverflow, vars,
     queueVars, clientVars, bootVars

(* However the boot goes, MessagePipeline sees its queues made, the result of         *)
(* joining stored, the publisher created and deciding, in this order, with           *)
(* interrupts between them, and nothing else.                                        *)
THEOREM BeginsPipeline == Spec => ImplementsPipelineStart
<1>1. Init => Pipeline!Init
  <2> SUFFICES ASSUME Init PROVE Pipeline!Init
    OBVIOUS
  <2>1. PipelineMain = "boot" /\ ~(gApConnectionState >= 0)
    BY DEF Init, PipelineMain
  <2>2. publisher = "none" /\ publishQueue = <<>>
    BY DEF Init
  <2>3. QED BY <2>1, <2>2 DEF Pipeline!Init, Pipeline!NoMsg
<1>2. IInv /\ IInv' /\ [Next]_vars => [Pipeline!Next]_(Pipeline!vars)
  <2> SUFFICES ASSUME IInv, IInv', [Next]_vars
               PROVE  Pipeline!Next \/ UNCHANGED Pipeline!vars
    OBVIOUS
  <2>1. PipelineMain = Stage(boot) /\ PipelineMain' = Stage(boot') /\ boot \in 1..11
    BY StageShown, StageShownNext DEF IInv, OwnTypeOK
  <2> USE DEF Pipeline!mainVars, Pipeline!publisherVars, Pipeline!rxVars, Pipeline!network,
              Pipeline!history
  <2>2. CASE InitMsgQueues(TRUE)
    <3>1. /\ Stage(boot) = "boot" /\ Stage(boot') = "connectAP"
          /\ UNCHANGED <<publisher, publishQueue, gApConnectionState>>
      BY <2>1, <2>2, BootSteps DEF InitMsgQueues, Stage, At, ProceedIf, clientVars
    <3>2. Pipeline!InitMsgQueues
      BY <2>1, <3>1 DEF Pipeline!InitMsgQueues
    <3>3. QED BY <3>2 DEF Pipeline!Next, Pipeline!MainTask
  <2>3. CASE StoreConnectionState
    <3>1. /\ Stage(boot) = "connectAP" /\ Stage(boot') = "startMqtt"
          /\ UNCHANGED <<publisher, publishQueue>>
      BY <2>1, <2>3, BootSteps DEF StoreConnectionState, Stage, At, Proceed, queueVars
    <3>2. PICK r \in {"up", "down"} : r = ApShown'
      BY DEF ApShown
    <3>3. Pipeline!ConnectAP(r)
      BY <2>1, <3>1, <3>2 DEF Pipeline!ConnectAP, ApShown
    <3>4. QED BY <3>3 DEF Pipeline!Next, Pipeline!MainTask
  <2>4. CASE \E created \in BOOLEAN : MqttStart(created)
    <3>1. PICK created \in BOOLEAN : MqttStart(created)
      BY <2>4
    <3>2. /\ Stage(boot) = "startMqtt" /\ Stage(boot') = "receive"
          /\ UNCHANGED <<publishQueue, gApConnectionState>>
          /\ publisher' = IF created THEN "start" ELSE "none"
      BY <2>1, <3>1, BootSteps DEF MqttStart, Stage, At, Proceed, queueVars
    <3>3. Pipeline!MqttStart(created)
      BY <2>1, <3>2 DEF Pipeline!MqttStart
    <3>4. QED BY <3>3 DEF Pipeline!Next, Pipeline!MainTask
  <2>5. CASE \E created \in BOOLEAN : MqttClient(created)
    <3>1. PICK created \in BOOLEAN : MqttClient(created)
      BY <2>5
    <3>2. /\ UNCHANGED <<boot, publishQueue, gApConnectionState>>
          /\ publisher = "start"
          /\ publisher' = IF ApShown = "down" THEN "receive"
                          ELSE IF created THEN "createRx" ELSE "exited"
      BY <3>1 DEF MqttClient, ApShown, bootVars, queueVars
    <3>3. Pipeline!CreateClient(created)
      BY <2>1, <3>2 DEF Pipeline!CreateClient, Pipeline!PublisherStep, ApShown
    <3>4. QED BY <3>3 DEF Pipeline!Next, Pipeline!Publisher, Pipeline!PublisherStart
  <2>6. CASE \E timer \in {Statistics, General} : TimerInterrupt(timer)
    <3>1. PICK timer \in {Statistics, General} : TimerInterrupt(timer)
      BY <2>6
    <3>2. /\ UNCHANGED <<boot, publisher, gApConnectionState>>
          /\ publishQueue' = IF Len(publishQueue) < QueueLength
                             THEN Append(publishQueue, timer) ELSE publishQueue
          /\ timers # {}
      BY <3>1 DEF TimerInterrupt, bootVars, clientVars
    <3>3. Stage(boot) # "boot"
      BY <2>1, <3>2 DEF IInv, Made, Stage
    <3>4. Pipeline!TimerInterrupt(timer)
      BY <2>1, <3>2, <3>3 DEF Pipeline!TimerInterrupt
    <3>5. timer \in {Pipeline!Statistics, Pipeline!General}
      BY <3>1 DEF Statistics, General, Pipeline!Statistics, Pipeline!General
    <3>6. QED BY <3>4, <3>5 DEF Pipeline!Next
  <2>7. CASE Unseen
    BY <2>7, UnseenStep
  <2>8. ASSUME NEW ok \in BOOLEAN,
               \/ CreateMainThread(ok) \/ InitMsgQueues(ok)
               \/ StartTimer("initStatistics", Statistics, ok)
               \/ StartTimer("init_publish", General, ok)
               \/ CreateSlTask(ok) \/ StartDevice(ok) \/ SetClientId(ok) \/ StopDevice(ok)
        PROVE  Pipeline!Next \/ UNCHANGED Pipeline!vars
    <3>1. CASE InitMsgQueues(ok) /\ ok
      <4>1. ok = TRUE
        BY <3>1
      <4>2. QED BY <2>2, <3>1, <4>1
    <3>2. CASE ~(InitMsgQueues(ok) /\ ok)
      BY <2>7, <2>8, <3>2, UnseenMaking
    <3>3. QED BY <3>1, <3>2
  <2>9. CASE \/ \E started \in {"station", "other", "failed"} : JoinStart(started)
             \/ \E ok \in BOOLEAN : JoinStop(ok)
             \/ Join \/ NetworkEvent \/ StackOverflow \/ UNCHANGED vars
    BY <2>7, <2>9, UnseenJoining
  <2>10. QED
    BY <2>3, <2>4, <2>5, <2>6, <2>8, <2>9 DEF Next
<1>3. QED BY <1>1, <1>2, Invariance, PTL DEF Spec, ImplementsPipelineStart

=============================================================================
