----------------------------- MODULE RoverSystem -----------------------------
(* The one receive thread of the firmware carries both motion and statuses: its   *)
(* callback (client_cbs.c) moves the rover, and the same callback waits for room    *)
(* in mainQueue. This module composes the threads and queues of MessagePipeline     *)
(* with the motors of Motion, which RoverControl implements byte by byte, over      *)
(* that thread, and adds the broker in front of it and the subscriptions            *)
(* (main_task.c) that decide which messages may be lost on the way.                 *)
EXTENDS MessagePipeline, MotorProtocol, FiniteSets

CONSTANTS Digits,           \* first characters of a speed value
          Words,            \* values of a direction message
          MaxInbox          \* bound: messages on the way to the callback

ASSUME MaxInboxAssumption == MaxInbox \in Nat \ {0}

VARIABLES inbox,            \* messages on the way, each <<topic, value>>
          cbDir,            \* static dir of MqttClientCallback
          speed,            \* static speed of rover_state.c
          order, served, drive, closed,     \* of Motion
          told              \* the direction and speed the broker published last

Rover == INSTANCE Motion WITH
    NumMotors <- 3,
    Orders    <- {SentCommand(d, SpeedByte[s + 1]) : d \in Directions, s \in 0..5},
    Halt      <- SentCommand("stop", InitialSpeed),
    order     <- order,
    served    <- served,
    drive     <- drive,
    closed    <- closed

motion == <<order, served, drive, closed>>
callback == <<cbDir, speed>>
systemVars == <<vars, inbox, callback, motion, told>>

\* What was published last of a topic is not known to the rover.
LostDir == "lost"
LostSpeed == -1

SystemTypeOK ==
    /\ TypeOK
    /\ inbox \in Seq(({"sensor"} \X Words) \cup ({"speed"} \X Digits) \cup {<<"status", 0>>})
    /\ Len(inbox) <= MaxInbox
    /\ cbDir \in Directions
    /\ speed \in {SpeedByte[s + 1] : s \in 0..5}
    /\ {order, drive} \subseteq [Motors -> {0, 1} \X (0..127)]
    /\ served \in 0..3
    /\ closed \in BOOLEAN
    /\ told \in [dir   : Directions \cup {LostDir},
                speed : {SpeedByte[s + 1] : s \in 0..5} \cup {LostSpeed}]

SystemInit ==
    /\ Init
    /\ Rover!MotionInit
    /\ inbox = <<>>
    /\ cbDir = "none" /\ speed = InitialSpeed
    /\ told = [dir |-> "none", speed |-> InitialSpeed]

-----------------------------------------------------------------------------
(* The broker. Topics are named by their last word.                               *)

topic == <<"status", "do_something", "sensor", "speed">>

\* Two values are given for four topics; C makes the others 0.
qos == <<1, 1, 0, 0>>

QosOf(t) == qos[CHOOSE i \in 1..4 : topic[i] = t]

Subscribed == session = "up" /\ publisher \in {"receive", "publish"}

Deliver(t, value) ==
    /\ Subscribed /\ Len(inbox) < MaxInbox
    /\ inbox' = Append(inbox, <<t, value>>)
    /\ told' = CASE t = "sensor" -> [told EXCEPT !.dir = DirectionOf(value)]
                 [] t = "speed"  -> [told EXCEPT !.speed = change_speed(Level(value), @)]
                 [] t = "status" -> told
    /\ UNCHANGED <<vars, callback, motion>>

\* A message of QoS 0 is sent once and nobody notices when it does not arrive.
Lose(t) ==
    /\ Subscribed /\ QosOf(t) = 0
    /\ told' = CASE t = "sensor" -> [told EXCEPT !.dir = LostDir]
                 [] t = "speed"  -> [told EXCEPT !.speed = LostSpeed]
    /\ UNCHANGED <<vars, inbox, callback, motion>>

StatusesOnTheWay == Cardinality({i \in 1..Len(inbox) : inbox[i][1] = "status"})

Broker ==
    \/ \E w \in Words : Deliver("sensor", w)
    \/ \E c \in Digits : Deliver("speed", c)
    \/ Lose("sensor") \/ Lose("speed")
    \/ accepted + StatusesOnTheWay < MaxStatus /\ Deliver("status", 0)

\* What has not reached the callback by then never does.
LoseSession ==
    /\ SessionLost
    /\ inbox' = <<>>
    /\ UNCHANGED <<callback, motion, told>>

-----------------------------------------------------------------------------
(* The receive thread, busy while it moves the rover or waits for room.           *)

Idle == rx = "run" /\ Rover!Resting

Received(t) ==
    /\ Idle /\ inbox # <<>> /\ Head(inbox)[1] = t
    /\ inbox' = Tail(inbox)

Value == Head(inbox)[2]

CallbackSensor ==
    /\ Received("sensor")
    /\ cbDir' = DirectionOf(Value)
    /\ Rover!Take(SentCommand(DirectionOf(Value), speed))
    /\ UNCHANGED <<vars, speed, told>>

\* Fault: the callback's direction not static, so forgotten between two messages.
SpeedForgetsDirection ==
    /\ Received("speed")
    /\ speed' = change_speed(Level(Value), speed)
    /\ Rover!Take(SentCommand("none", change_speed(Level(Value), speed)))
    /\ UNCHANGED <<vars, cbDir, told>>

CallbackSpeed ==
    /\ Received("speed")
    /\ speed' = change_speed(Level(Value), speed)
    /\ Rover!Take(SentCommand(cbDir, change_speed(Level(Value), speed)))
    /\ UNCHANGED <<vars, cbDir, told>>

CallbackStatus ==
    /\ Received("status")
    /\ AcceptStatus
    /\ UNCHANGED <<callback, motion, told>>

Callback == CallbackSensor \/ CallbackSpeed \/ CallbackStatus

MoveRover ==
    /\ Rover!Serve
    /\ UNCHANGED <<vars, inbox, callback, told>>

Disconnect ==
    /\ Idle /\ session = "closed"
    /\ Rover!Close
    /\ UNCHANGED <<vars, inbox, callback, told>>

-----------------------------------------------------------------------------

\* Threads and interrupts that have nothing to do with motion. The reports of the
\* two timers differ in what they say only: one stands for both.
Threads ==
    /\ MainTask \/ Publisher \/ UpdateStatus \/ TimerInterrupt(General)
    /\ UNCHANGED <<inbox, callback, motion, told>>

SystemNext ==
    \/ Threads
    \/ Broker \/ LoseSession
    \/ Callback \/ MoveRover \/ Disconnect

(* Besides the threads of MessagePipeline: the receive thread takes up what has     *)
(* arrived, its writes return, and the library reports the end of the session.      *)
SystemFairness ==
    /\ Fairness
    /\ WF_systemVars(Callback)
    /\ WF_systemVars(MoveRover)
    /\ WF_systemVars(Disconnect)

SystemSpec == SystemInit /\ [][SystemNext]_systemVars /\ SystemFairness

-----------------------------------------------------------------------------
(* Properties                                                                      *)

AllStopped == \A m \in Motors : drive[m][2] = 0

StopOnTheWay ==
    \E i \in 1..Len(inbox) : inbox[i][1] = "sensor" /\ DirectionOf(inbox[i][2]) = "stop"

(* When the callback has caught up, the motors execute the direction and the speed   *)
(* the broker published last. A message lost at QoS 0 spoils only its own topic, and *)
(* only until the next one of that topic: nothing else on the way, neither statuses  *)
(* that wait for room nor a change of the other topic, comes between.                *)
ObeysLastWord ==
    (Idle /\ inbox = <<>> /\ session = "up") =>
        /\ told.dir \in {LostDir, cbDir}
        /\ told.speed \in {LostSpeed, speed}
        /\ drive = SentCommand(cbDir, speed)

(* A stop that has reached the device stops the rover, although the thread that       *)
(* must carry it out may be waiting for a queue that is full behind another that is   *)
(* full, with interrupts filling the second.                                          *)
StopCarriesThrough == StopOnTheWay ~> AllStopped

(* Once the session has ended, for whatever reason and whatever the receive thread    *)
(* was waiting for, the rover comes to rest and stays there.                          *)
LossStopsRover == session = "closed" ~> []AllStopped
=============================================================================
