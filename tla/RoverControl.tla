---------------------------- MODULE RoverControl ----------------------------
(* How a command that arrives over MQTT becomes motion. The MQTT receive       *)
(* thread runs MqttClientCallback (client_cbs.c); the callback calls           *)
(* change_speed and moveRover (rover_state.c), which write one byte at a time   *)
(* to a blocking UART (debug.c). While it does, the 500 ms timer interrupt      *)
(* (test_publish.c) samples speed and direction, and the link to the broker     *)
(* can go away.                                                                *)
(*                                                                            *)
(* One step is one callback up to its first UART write, one UART write, or one  *)
(* interrupt. The thread is inside the callback exactly while Busy.            *)
EXTENDS MotorProtocol

CONSTANTS Digits,       \* first characters of a speed value: "0" .. "5" are 0 .. 5
          Words         \* values of a direction message

VARIABLES cbDir,        \* static dir of MqttClientCallback
          dir, speed,   \* statics of rover_state.c
          sendBaud,     \* static send_baud of moveRover
          sent,         \* bytes of the current move already written
          session,      \* of the MQTT client with the broker
          led,          \* Board_GPIO0
          bus,          \* the motor controllers
          report        \* what the timer interrupt last handed to the publish queue

vars == <<cbDir, dir, speed, sendBaud, sent, session, led, bus, report>>

Reports == [speed : 0..5, direction : Directions]

TypeOK ==
    /\ cbDir \in Directions
    /\ dir \in Directions
    /\ speed \in {SpeedByte[s + 1] : s \in 0..5}
    /\ sendBaud \in {0, 1}
    /\ sent \in 0..BytesPerMove
    /\ session \in {"none", "up", "lost", "closed"}
    /\ led \in {0, 1}
    /\ bus \in Receivers /\ Len(bus.held) <= 3
    /\ report \in Reports

Busy == sent < BytesPerMove

AllStopped == \A m \in Motors : bus.drive[m][2] = 0

-----------------------------------------------------------------------------
(* The receive thread.                                                         *)

\* moveRover up to its first UART write.
StartMove(d) == dir' = d /\ sent' = 0

Init ==
    /\ cbDir = "none" /\ dir = "none"
    /\ speed = InitialSpeed
    /\ sendBaud = 1
    /\ sent = BytesPerMove
    /\ session = "none"
    /\ led = 1
    /\ bus = IdleReceiver
    /\ report = [speed |-> getSpeed(InitialSpeed), direction |-> "none"]

\* Fault: a closed session is opened again, with the last direction remembered.
Reconnect ==
    /\ session \in {"none", "closed"}
    /\ session' = "up"
    /\ UNCHANGED <<cbDir, dir, speed, sendBaud, sent, led, bus, report>>

Connect ==
    /\ session = "none"
    /\ session' = "up"
    /\ UNCHANGED <<cbDir, dir, speed, sendBaud, sent, led, bus, report>>

\* Fault: a speed without a direction sets the rover going.
SpeedDrivesForward(c) ==
    /\ session = "up" /\ ~Busy
    /\ speed' = change_speed(Level(c), speed)
    /\ StartMove(IF cbDir = "none" THEN "forward" ELSE cbDir)
    /\ UNCHANGED <<cbDir, sendBaud, session, led, bus, report>>

\* A well-formed message on firefighter/rover/speed.
RecvSpeed(c) ==
    /\ session = "up" /\ ~Busy
    /\ speed' = change_speed(Level(c), speed)
    /\ StartMove(cbDir)
    /\ UNCHANGED <<cbDir, sendBaud, session, led, bus, report>>

\* A well-formed message on firefighter/sensor.
RecvSensor(w) ==
    /\ session = "up" /\ ~Busy
    /\ cbDir' = DirectionOf(w)
    /\ led' = 1
    /\ StartMove(DirectionOf(w))
    /\ UNCHANGED <<speed, sendBaud, session, bus, report>>

\* A message on firefighter/sensor that is not an object with one direction.
RecvMalformedSensor ==
    /\ session = "up" /\ ~Busy
    /\ led' = 0
    /\ UNCHANGED <<cbDir, dir, speed, sendBaud, sent, session, bus, report>>

\* The first call of moveRover announces the baud rate.
WriteBaud ==
    /\ Busy /\ sendBaud = 1
    /\ bus' = Receive(bus, baud)
    /\ sendBaud' = 0
    /\ UNCHANGED <<cbDir, dir, speed, sent, session, led, report>>

WriteByte ==
    /\ Busy /\ sendBaud = 0
    /\ bus' = Receive(bus, MoveByte(dir, speed, sent + 1))
    /\ sent' = sent + 1
    /\ UNCHANGED <<cbDir, dir, speed, sendBaud, session, led, report>>

\* Fault: the loss only noted.
DisconnectIgnored ==
    /\ session = "lost" /\ ~Busy
    /\ session' = "closed"
    /\ UNCHANGED <<cbDir, dir, speed, sendBaud, sent, led, bus, report>>

\* MQTTClient_DISCONNECT_CB_EVENT: the library has noticed the loss.
Disconnect ==
    /\ session = "lost" /\ ~Busy
    /\ session' = "closed"
    /\ StartMove("stop")
    /\ UNCHANGED <<cbDir, speed, sendBaud, led, bus, report>>

ReceiveThread ==
    \/ Connect
    \/ \E c \in Digits : RecvSpeed(c)
    \/ \E w \in Words : RecvSensor(w)
    \/ RecvMalformedSensor
    \/ WriteBaud
    \/ WriteByte
    \/ Disconnect

-----------------------------------------------------------------------------
(* The surroundings of that thread.                                            *)

\* No further message of the broker will reach the callback.
LinkLost ==
    /\ session = "up"
    /\ session' = "lost"
    /\ UNCHANGED <<cbDir, dir, speed, sendBaud, sent, led, bus, report>>

\* GenInfoTimerCallback interrupts the thread between any two of its steps.
GenInfoTimer ==
    /\ report' = [speed |-> getSpeed(speed), direction |-> dir]
    /\ UNCHANGED <<cbDir, dir, speed, sendBaud, sent, session, led, bus>>

Next == ReceiveThread \/ LinkLost \/ GenInfoTimer

(* UART_write returns once the byte is out, and the library calls back after    *)
(* its keep-alive runs out; neither a connection nor a message need ever come.  *)
Fairness ==
    /\ WF_vars(WriteBaud)
    /\ WF_vars(WriteByte)
    /\ WF_vars(Disconnect)

Spec == Init /\ [][Next]_vars /\ Fairness

-----------------------------------------------------------------------------
(* Properties                                                                  *)

(* Once moveRover has returned, every motor executes the command of the        *)
(* direction and speed in force: twelve separate writes, their checksums and    *)
(* the one-time baud byte have the effect of one command.                      *)
CommandInForce ==
    ~Busy => bus.drive = [m \in Motors |-> SentCommand(dir, speed)[m]]

(* The controllers never drop a byte and never refuse a packet: no data byte    *)
(* looks like an address, and checksums agree with the bytes they cover.        *)
NothingMisread == ~bus.misread

(* Half-way through a move a motor executes either its new command or the one   *)
(* of the move before it, never a command put together from both: a motor       *)
(* changes only to the command being sent.                                      *)
NoTornCommand ==
    [][\A m \in Motors : bus'.drive[m] # bus.drive[m]
                            => bus'.drive[m] = SentCommand(dir, speed)[m]]_vars

(* The rover does not move before it has been given a direction, however often  *)
(* its speed is changed.                                                        *)
StillWithoutDirection == cbDir = "none" => AllStopped

(* After the disconnect callback has returned the rover stands.                 *)
ClosedSessionStands == (session = "closed" /\ ~Busy) => AllStopped

(* Only a message that names a direction takes the rover out of a stop: a speed *)
(* change never does, although it repeats the last direction.                   *)
OnlyDirectionStarts ==
    [][(dir \in {"stop", "none"} /\ dir' \notin {"stop", "none"}) => cbDir' # cbDir]_vars

(* A report tells what the motors do, also one sampled between two writes of a   *)
(* move: its level and direction are the command of every motor whose packet is  *)
(* out, which between two moves is all of them.                                 *)
ReportTruth ==
    [][report' # report =>
        \A m \in Motors : m <= sent \div 4 =>
            bus.drive[m] = SentCommand(report'.direction,
                                       change_speed(report'.speed, speed))[m]]_vars

(* The twelve writes of a move, the baud byte before the first and the interrupts  *)
(* between them amount to what Motion promises: one whole order at a time, each     *)
(* carried out, and after the disconnect callback a halt and no other order. A      *)
(* motor has its part of an order when the fourth byte of its packet is out.        *)
Rover == INSTANCE Motion WITH
    NumMotors <- 3,
    Orders    <- {SentCommand(d, SpeedByte[s + 1]) : d \in Directions, s \in 0..5},
    Halt      <- SentCommand("stop", InitialSpeed),
    order     <- SentCommand(dir, speed),
    served    <- sent \div 4,
    drive     <- bus.drive,
    closed    <- session = "closed"

ImplementsMotion == Rover!MotionSpec

(* The guide's promise that a lost session is restarted (README.md, "Special     *)
(* handling"). The callback only stops the rover: the promise is not kept.       *)
BrokerLossRestarted == session = "closed" ~> session = "up"

(* Once the broker is out of reach the rover comes to rest and stays there.     *)
LostLinkStops == session = "lost" ~> []AllStopped
=============================================================================
