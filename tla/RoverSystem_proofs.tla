------------------------- MODULE RoverSystem_proofs -------------------------
(* Safety of RoverSystem for queues and inboxes of every length. A step of the   *)
(* system is a step of MessagePipeline or leaves its variables alone, so that     *)
(* everything proved of the pipeline holds inside the system. The rest of the     *)
(* argument follows a command through the inbox: of each topic, what the broker   *)
(* published last is the last message of it in the inbox, or, if there is none,   *)
(* what the callback has taken up, or it was lost. The last section shows that no  *)
(* message on the way is stuck: some thread can go on, and none does so for ever.   *)
EXTENDS RoverSystem, MessagePipeline_proofs, MotorProtocol_proofs

-----------------------------------------------------------------------------
(* The inductive invariant.                                                      *)

IsLast(q, t, i) ==
    /\ q[i][1] = t
    /\ \A j \in 1..Len(q) : j > i => q[j][1] # t

NoneOf(q, t) == \A i \in 1..Len(q) : q[i][1] # t

\* The byte that the speed message with value c stands for.
ByteOf(c) == SpeedByte[Level(c) + 1]

DirectionFollowed ==
    \/ told.dir = LostDir
    \/ NoneOf(inbox, "sensor") /\ told.dir = cbDir
    \/ \E i \in 1..Len(inbox) :
           IsLast(inbox, "sensor", i) /\ told.dir = DirectionOf(inbox[i][2])

SpeedFollowed ==
    \/ told.speed = LostSpeed
    \/ NoneOf(inbox, "speed") /\ told.speed = speed
    \/ \E i \in 1..Len(inbox) :
           IsLast(inbox, "speed", i) /\ told.speed = ByteOf(inbox[i][2])

Followed == session # "closed" => DirectionFollowed /\ SpeedFollowed

\* The motors served so far execute the order, which is the callback's unless it is
\* the halt that closed the session.
OrderInForce ==
    /\ \A m \in Motors : m <= served => drive[m] = order[m]
    /\ IF closed THEN session = "closed" /\ order = SentCommand("stop", InitialSpeed)
                 ELSE order = SentCommand(cbDir, speed)

SystemInv ==
    /\ IInv
    /\ SystemTypeOK
    /\ Followed
    /\ OrderInForce

-----------------------------------------------------------------------------
(* Messages on the way.                                                          *)

Messages == ({"sensor"} \X Words) \cup ({"speed"} \X Digits) \cup {<<"status", 0>>}

LEMMA Readings ==
  ASSUME NEW w, NEW c, NEW s
  PROVE  /\ DirectionOf(w) \in Directions
         /\ change_speed(Level(c), s) = ByteOf(c)
         /\ ByteOf(c) \in {SpeedByte[n + 1] : n \in 0..5}
<1>1. DirectionOf(w) \in Directions
  BY DEF DirectionOf, Directions
<1>2. Level(c) \in 0..5
  BY DEF Level
<1>3. QED BY <1>1, <1>2 DEF change_speed, ByteOf

(* A message at the end is the last of its topic; the other topics are as before. *)
LEMMA LastAfterAppend ==
  ASSUME NEW S, NEW q \in Seq(S), NEW e \in S
  PROVE  IsLast(Append(q, e), e[1], Len(q) + 1)
  BY AppendFacts DEF IsLast

LEMMA OthersAfterAppend ==
  ASSUME NEW S, NEW q \in Seq(S), NEW e \in S, NEW t, e[1] # t
  PROVE  /\ NoneOf(q, t) => NoneOf(Append(q, e), t)
         /\ \A i \in 1..Len(q) : IsLast(q, t, i) => IsLast(Append(q, e), t, i)
<1> DEFINE r == Append(q, e)
<1>1. /\ Len(r) = Len(q) + 1 /\ Len(q) \in Nat
      /\ \A i \in 1..Len(q) : r[i] = q[i]
      /\ r[Len(q) + 1] = e
  BY AppendFacts
<1> HIDE DEF r
<1>2. \A j \in 1..Len(r) : j \in 1..Len(q) \/ j = Len(q) + 1
  BY <1>1
<1>3. ASSUME NoneOf(q, t) PROVE NoneOf(r, t)
  BY <1>1, <1>2, <1>3 DEF NoneOf
<1>4. ASSUME NEW i \in 1..Len(q), IsLast(q, t, i) PROVE IsLast(r, t, i)
  BY <1>1, <1>2, <1>4 DEF IsLast
<1>5. QED BY <1>3, <1>4 DEF r

(* Without its head the messages move up; if the head was the last of its topic,  *)
(* none of that topic is left.                                                   *)
LEMMA LastAfterTail ==
  ASSUME NEW S, NEW q \in Seq(S), q # <<>>, NEW t
  PROVE  /\ NoneOf(q, t) => q[1][1] # t /\ NoneOf(Tail(q), t)
         /\ IsLast(q, t, 1) => NoneOf(Tail(q), t)
         /\ \A i \in 1..Len(q) : i # 1 /\ IsLast(q, t, i) => IsLast(Tail(q), t, i - 1)
<1> DEFINE r == Tail(q)
<1>1. /\ Len(q) \in Nat /\ Len(q) >= 1 /\ Len(r) = Len(q) - 1
      /\ \A i \in 1..(Len(q) - 1) : r[i] = q[i + 1]
  BY HeadTailFacts
<1> HIDE DEF r
<1>2. \A j \in 1..Len(r) : j + 1 \in 1..Len(q) /\ j + 1 > 1 /\ r[j] = q[j + 1]
  BY <1>1
<1>3. ASSUME NoneOf(q, t) PROVE q[1][1] # t /\ NoneOf(r, t)
  BY <1>1, <1>2, <1>3 DEF NoneOf
<1>4. ASSUME IsLast(q, t, 1) PROVE NoneOf(r, t)
  BY <1>2, <1>4 DEF NoneOf, IsLast
<1>5. ASSUME NEW i \in 1..Len(q), i # 1
      PROVE  i - 1 \in 1..Len(r) /\ r[i - 1] = q[i]
  BY <1>1, <1>5
<1>6. ASSUME NEW i \in 1..Len(q), i # 1, IsLast(q, t, i) PROVE IsLast(r, t, i - 1)
  <2>1. r[i - 1][1] = t
    BY <1>5, <1>6 DEF IsLast
  <2>2. ASSUME NEW j \in 1..Len(r), j > i - 1 PROVE r[j][1] # t
    BY <1>2, <1>6, <2>2 DEF IsLast
  <2>3. QED BY <2>1, <2>2 DEF IsLast
<1>7. QED BY <1>3, <1>4, <1>6 DEF r

-----------------------------------------------------------------------------
(* The pipeline inside the system.                                               *)

LEMMA PipelineStep == SystemNext => [Next]_vars
<1>1. CASE Threads
  BY <1>1 DEF Threads, Next, ReceiveThread
<1>2. CASE Broker
  BY <1>2 DEF Broker, Deliver, Lose
<1>3. CASE LoseSession
  BY <1>3 DEF LoseSession, Next
<1>4. CASE Callback
  BY <1>4 DEF Callback, CallbackSensor, CallbackSpeed, CallbackStatus, Next, ReceiveThread
<1>5. CASE MoveRover \/ Disconnect
  BY <1>5 DEF MoveRover, Disconnect
<1>6. QED BY <1>1, <1>2, <1>3, <1>4, <1>5 DEF SystemNext

(* A closed session stays closed: there is one attempt to connect.               *)
LEMMA ClosedForGood == ASSUME IInv, [Next]_vars, session = "closed" PROVE session' = "closed"
<1>1. publisher # "connect"
  BY DEF IInv, Drained
<1>2. QED
  BY <1>1 DEF Next, MainTask, Publisher, PublisherStart, ReceiveThread, InitMsgQueues,
     ConnectAP, MqttStart, MainReceive, MainSend, CreateClient, CreateRxThread, ConnectBroker,
     Subscribe, PublisherReceive, Publish, AcceptStatus, UpdateStatus, TimerInterrupt,
     SessionLost, PublisherStep, vars, network

-----------------------------------------------------------------------------
(* The invariant holds initially and is preserved.                               *)

LEMMA SystemInitInvariant == SystemInit => SystemInv
<1> SUFFICES ASSUME SystemInit PROVE SystemInv
  OBVIOUS
<1>1. /\ IInv /\ TypeOK /\ inbox = <<>> /\ cbDir = "none" /\ speed = InitialSpeed
      /\ told = [dir |-> "none", speed |-> InitialSpeed]
      /\ order = SentCommand("stop", InitialSpeed) /\ drive = SentCommand("stop", InitialSpeed)
      /\ served = 3 /\ closed = FALSE
  BY InitInvariant DEF SystemInit, Rover!MotionInit, IInv
<1>2. InitialSpeed \in {SpeedByte[s + 1] : s \in 0..5} /\ InitialSpeed \in 0..127
  <2>1. SpeedByte[4 + 1] = InitialSpeed /\ InitialSpeed \in 0..127
    BY DEF SpeedByte, InitialSpeed
  <2>2. QED BY <2>1
<1>3. SentCommand("stop", InitialSpeed) \in [Motors -> {0, 1} \X (0..127)]
  BY <1>2, CommandIsOrder DEF Directions
<1>4. inbox \in Seq(Messages) /\ Len(inbox) = 0
  BY <1>1
<1>5. SystemTypeOK
  <2>1. told \in [dir : Directions \cup {LostDir},
                 speed : {SpeedByte[s + 1] : s \in 0..5} \cup {LostSpeed}]
    BY <1>1, <1>2 DEF Directions
  <2>2. {order, drive} \subseteq [Motors -> {0, 1} \X (0..127)] /\ closed \in BOOLEAN
    BY <1>1, <1>3
  <2>3. cbDir \in Directions /\ served \in 0..3 /\ Len(inbox) <= MaxInbox
    BY <1>1, <1>4, MaxInboxAssumption DEF Directions
  <2>4. QED BY <1>1, <1>2, <1>4, <2>1, <2>2, <2>3 DEF SystemTypeOK, Messages
<1>6. Followed
  BY <1>1, <1>4 DEF Followed, DirectionFollowed, SpeedFollowed, NoneOf
<1>7. OrderInForce
  <2>1. SentCommand("none", InitialSpeed) = SentCommand("stop", InitialSpeed)
    BY HaltCommand
  <2>2. QED BY <1>1, <2>1 DEF OrderInForce
<1>8. QED BY <1>1, <1>5, <1>6, <1>7 DEF SystemInv

(* Steps that neither carry a message nor move the rover.                        *)
LEMMA ElsewhereInvariant ==
  ASSUME SystemInv, IInv', [Next]_vars, UNCHANGED <<inbox, callback, motion, told>>
  PROVE  SystemInv'
<1> USE DEF SystemInv, callback, motion
<1>1. session = "closed" => session' = "closed"
  BY ClosedForGood
<1>2. SystemTypeOK'
  BY DEF SystemTypeOK, IInv
<1>3. Followed'
  BY <1>1 DEF Followed, DirectionFollowed, SpeedFollowed
<1>4. OrderInForce'
  BY <1>1 DEF OrderInForce
<1>5. QED BY <1>2, <1>3, <1>4

(* The broker sends a message, or one is lost.                                   *)
LEMMA DeliverInvariant ==
  ASSUME SystemInv, NEW t \in {"sensor", "speed", "status"}, NEW value,
         <<t, value>> \in Messages, Deliver(t, value)
  PROVE  SystemInv'
<1> DEFINE e == <<t, value>>
<1>1. /\ SystemTypeOK /\ IInv /\ inbox \in Seq(Messages) /\ Len(inbox) < MaxInbox
      /\ inbox' = Append(inbox, e) /\ e \in Messages /\ e[1] = t /\ e[2] = value
      /\ UNCHANGED <<vars, cbDir, speed, order, served, drive, closed>>
  BY DEF Deliver, SystemInv, SystemTypeOK, Messages, callback, motion
<1>2. /\ told' \in [dir : Directions \cup {LostDir},
                    speed : {SpeedByte[s + 1] : s \in 0..5} \cup {LostSpeed}]
      /\ told'.dir = IF t = "sensor" THEN DirectionOf(value) ELSE told.dir
      /\ told'.speed = IF t = "speed" THEN ByteOf(value) ELSE told.speed
  BY <1>1, Readings DEF Deliver, SystemTypeOK
<1> HIDE DEF e
<1>3. /\ inbox' \in Seq(Messages) /\ Len(inbox') = Len(inbox) + 1 /\ Len(inbox) \in Nat
      /\ inbox'[Len(inbox) + 1] = e
      /\ \A i \in 1..Len(inbox) : i \in 1..Len(inbox') /\ inbox'[i] = inbox[i]
  BY <1>1, AppendFacts
<1>4. IInv' /\ TypeOK'
  BY <1>1, InductiveStep DEF IInv
<1>5. SystemTypeOK'
  BY <1>1, <1>2, <1>3, <1>4, MaxInboxAssumption DEF SystemTypeOK, Messages
<1>6. ASSUME DirectionFollowed PROVE DirectionFollowed'
  <2>1. CASE t = "sensor"
    <3>1. inbox \in Seq(Messages) /\ e \in Messages /\ inbox' = Append(inbox, e) /\ e[1] = "sensor"
      BY <1>1, <2>1
    <3>2. IsLast(inbox', "sensor", Len(inbox) + 1)
      BY <3>1, LastAfterAppend
    <3>3. Len(inbox) + 1 \in 1..Len(inbox') /\ told'.dir = DirectionOf(inbox'[Len(inbox) + 1][2])
      BY <1>1, <1>2, <1>3, <2>1
    <3>4. QED BY <3>2, <3>3 DEF DirectionFollowed
  <2>2. CASE t # "sensor"
    <3>1. inbox \in Seq(Messages) /\ e \in Messages /\ inbox' = Append(inbox, e) /\ e[1] # "sensor"
      BY <1>1, <2>2
    <3>2. /\ NoneOf(inbox, "sensor") => NoneOf(inbox', "sensor")
          /\ \A i \in 1..Len(inbox) : IsLast(inbox, "sensor", i) => IsLast(inbox', "sensor", i)
      BY <3>1, OthersAfterAppend
    <3>3. told'.dir = told.dir /\ cbDir' = cbDir
      BY <1>1, <1>2, <2>2
    <3>4. QED BY <1>3, <1>6, <3>2, <3>3 DEF DirectionFollowed
  <2>3. QED BY <2>1, <2>2
<1>7. ASSUME SpeedFollowed PROVE SpeedFollowed'
  <2>1. CASE t = "speed"
    <3>1. inbox \in Seq(Messages) /\ e \in Messages /\ inbox' = Append(inbox, e) /\ e[1] = "speed"
      BY <1>1, <2>1
    <3>2. IsLast(inbox', "speed", Len(inbox) + 1)
      BY <3>1, LastAfterAppend
    <3>3. Len(inbox) + 1 \in 1..Len(inbox') /\ told'.speed = ByteOf(inbox'[Len(inbox) + 1][2])
      BY <1>1, <1>2, <1>3, <2>1
    <3>4. QED BY <3>2, <3>3 DEF SpeedFollowed
  <2>2. CASE t # "speed"
    <3>1. inbox \in Seq(Messages) /\ e \in Messages /\ inbox' = Append(inbox, e) /\ e[1] # "speed"
      BY <1>1, <2>2
    <3>2. /\ NoneOf(inbox, "speed") => NoneOf(inbox', "speed")
          /\ \A i \in 1..Len(inbox) : IsLast(inbox, "speed", i) => IsLast(inbox', "speed", i)
      BY <3>1, OthersAfterAppend
    <3>3. told'.speed = told.speed /\ speed' = speed
      BY <1>1, <1>2, <2>2
    <3>4. QED BY <1>3, <1>7, <3>2, <3>3 DEF SpeedFollowed
  <2>3. QED BY <2>1, <2>2
<1>8. Followed'
  BY <1>1, <1>6, <1>7 DEF SystemInv, Followed, vars
<1>9. OrderInForce'
  BY <1>1 DEF SystemInv, OrderInForce, vars
<1>10. QED BY <1>4, <1>5, <1>8, <1>9 DEF SystemInv

LEMMA LoseInvariant ==
  ASSUME SystemInv, NEW t \in {"sensor", "speed"}, Lose(t) PROVE SystemInv'
<1>1. /\ SystemTypeOK /\ IInv
      /\ UNCHANGED <<vars, inbox, cbDir, speed, order, served, drive, closed>>
  BY DEF Lose, SystemInv, callback, motion
<1>2. /\ told' \in [dir : Directions \cup {LostDir},
                    speed : {SpeedByte[s + 1] : s \in 0..5} \cup {LostSpeed}]
      /\ told'.dir = IF t = "sensor" THEN LostDir ELSE told.dir
      /\ told'.speed = IF t = "speed" THEN LostSpeed ELSE told.speed
  BY <1>1 DEF Lose, SystemTypeOK
<1>3. IInv' /\ TypeOK'
  BY <1>1, InductiveStep DEF IInv
<1>4. SystemTypeOK'
  BY <1>1, <1>2, <1>3 DEF SystemTypeOK
<1>5. Followed'
  BY <1>1, <1>2 DEF SystemInv, Followed, DirectionFollowed, SpeedFollowed, vars
<1>6. OrderInForce'
  BY <1>1 DEF SystemInv, OrderInForce, vars
<1>7. QED BY <1>3, <1>4, <1>5, <1>6 DEF SystemInv
(* What the callback takes up is the message at the head of the inbox.            *)
LEMMA ReceivedFacts ==
  ASSUME SystemInv, NEW t, Received(t)
  PROVE  /\ inbox \in Seq(Messages) /\ inbox # <<>> /\ inbox' = Tail(inbox)
         /\ Value = inbox[1][2] /\ inbox[1][1] = t
         /\ inbox' \in Seq(Messages) /\ Len(inbox') <= MaxInbox
         /\ 1 \in 1..Len(inbox)
         /\ \A i \in 1..Len(inbox) :
                i # 1 => i - 1 \in 1..Len(inbox') /\ inbox'[i - 1] = inbox[i]
<1>1. /\ inbox \in Seq(Messages) /\ inbox # <<>> /\ inbox' = Tail(inbox)
      /\ Head(inbox)[1] = t /\ Len(inbox) <= MaxInbox
  BY DEF SystemInv, SystemTypeOK, Messages, Received
<1>2. /\ Tail(inbox) \in Seq(Messages) /\ Len(inbox) \in Nat /\ Len(inbox) >= 1
      /\ Head(inbox) = inbox[1] /\ Len(Tail(inbox)) = Len(inbox) - 1
      /\ \A i \in 1..(Len(inbox) - 1) : Tail(inbox)[i] = inbox[i + 1]
  BY <1>1, HeadTailFacts
<1>3. ASSUME NEW i \in 1..Len(inbox), i # 1
      PROVE  i - 1 \in 1..Len(inbox') /\ inbox'[i - 1] = inbox[i]
  BY <1>1, <1>2, <1>3
<1>4. QED BY <1>1, <1>2, <1>3, MaxInboxAssumption DEF Value

LEMMA ReceiveDirection ==
  ASSUME SystemInv, NEW t, Received(t), UNCHANGED told, DirectionFollowed,
         cbDir' = IF t = "sensor" THEN DirectionOf(Value) ELSE cbDir
  PROVE  DirectionFollowed'
<1>1. /\ inbox \in Seq(Messages) /\ inbox # <<>> /\ inbox' = Tail(inbox)
      /\ Value = inbox[1][2] /\ inbox[1][1] = t
      /\ \A i \in 1..Len(inbox) :
             i # 1 => i - 1 \in 1..Len(inbox') /\ inbox'[i - 1] = inbox[i]
  BY ReceivedFacts
<1>2. /\ NoneOf(inbox, "sensor") => inbox[1][1] # "sensor" /\ NoneOf(inbox', "sensor")
      /\ IsLast(inbox, "sensor", 1) => NoneOf(inbox', "sensor")
      /\ \A i \in 1..Len(inbox) :
             i # 1 /\ IsLast(inbox, "sensor", i) => IsLast(inbox', "sensor", i - 1)
  BY <1>1, LastAfterTail
<1>3. CASE told.dir = LostDir
  BY <1>3 DEF DirectionFollowed
<1>4. CASE NoneOf(inbox, "sensor") /\ told.dir = cbDir
  BY <1>1, <1>2, <1>4 DEF DirectionFollowed
<1>5. ASSUME NEW i \in 1..Len(inbox), IsLast(inbox, "sensor", i),
             told.dir = DirectionOf(inbox[i][2])
      PROVE  DirectionFollowed'
  <2>1. CASE i = 1
    <3>1. t = "sensor"
      BY <1>1, <1>5, <2>1 DEF IsLast
    <3>2. QED BY <1>1, <1>2, <1>5, <2>1, <3>1 DEF DirectionFollowed
  <2>2. CASE i # 1
    <3>1. /\ i - 1 \in 1..Len(inbox') /\ IsLast(inbox', "sensor", i - 1)
          /\ told'.dir = DirectionOf(inbox'[i - 1][2])
      BY <1>1, <1>2, <1>5, <2>2
    <3>2. QED BY <3>1 DEF DirectionFollowed
  <2>3. QED BY <2>1, <2>2
<1>6. QED BY <1>3, <1>4, <1>5 DEF DirectionFollowed

LEMMA ReceiveSpeed ==
  ASSUME SystemInv, NEW t, Received(t), UNCHANGED told, SpeedFollowed,
         speed' = IF t = "speed" THEN ByteOf(Value) ELSE speed
  PROVE  SpeedFollowed'
<1>1. /\ inbox \in Seq(Messages) /\ inbox # <<>> /\ inbox' = Tail(inbox)
      /\ Value = inbox[1][2] /\ inbox[1][1] = t
      /\ \A i \in 1..Len(inbox) :
             i # 1 => i - 1 \in 1..Len(inbox') /\ inbox'[i - 1] = inbox[i]
  BY ReceivedFacts
<1>2. /\ NoneOf(inbox, "speed") => inbox[1][1] # "speed" /\ NoneOf(inbox', "speed")
      /\ IsLast(inbox, "speed", 1) => NoneOf(inbox', "speed")
      /\ \A i \in 1..Len(inbox) :
             i # 1 /\ IsLast(inbox, "speed", i) => IsLast(inbox', "speed", i - 1)
  BY <1>1, LastAfterTail
<1>3. CASE told.speed = LostSpeed
  BY <1>3 DEF SpeedFollowed
<1>4. CASE NoneOf(inbox, "speed") /\ told.speed = speed
  BY <1>1, <1>2, <1>4 DEF SpeedFollowed
<1>5. ASSUME NEW i \in 1..Len(inbox), IsLast(inbox, "speed", i),
             told.speed = ByteOf(inbox[i][2])
      PROVE  SpeedFollowed'
  <2>1. CASE i = 1
    <3>1. t = "speed"
      BY <1>1, <1>5, <2>1 DEF IsLast
    <3>2. QED BY <1>1, <1>2, <1>5, <2>1, <3>1 DEF SpeedFollowed
  <2>2. CASE i # 1
    <3>1. /\ i - 1 \in 1..Len(inbox') /\ IsLast(inbox', "speed", i - 1)
          /\ told'.speed = ByteOf(inbox'[i - 1][2])
      BY <1>1, <1>2, <1>5, <2>2
    <3>2. QED BY <3>1 DEF SpeedFollowed
  <2>3. QED BY <2>1, <2>2
<1>6. QED BY <1>3, <1>4, <1>5 DEF SpeedFollowed

(* The callback turns a message on direction or speed into an order.              *)
LEMMA MotionMessageInvariant ==
  ASSUME SystemInv, NEW t \in {"sensor", "speed"}, Received(t), UNCHANGED <<vars, told>>,
         cbDir' = IF t = "sensor" THEN DirectionOf(Value) ELSE cbDir,
         speed' = IF t = "speed" THEN ByteOf(Value) ELSE speed,
         Rover!Take(SentCommand(cbDir', speed'))
  PROVE  SystemInv'
<1>1. inbox' \in Seq(Messages) /\ Len(inbox') <= MaxInbox
  BY ReceivedFacts
<1>2. /\ ~closed /\ order' = SentCommand(cbDir', speed') /\ served' = 0
      /\ UNCHANGED <<drive, closed>>
  BY DEF Rover!Take
<1>3. cbDir' \in Directions /\ speed' \in {SpeedByte[s + 1] : s \in 0..5}
  BY Readings DEF SystemInv, SystemTypeOK
<1>4. speed' \in 0..127
  BY <1>3, SpeedRange
<1>5. order' \in [Motors -> {0, 1} \X (0..127)]
  BY <1>2, <1>3, <1>4, CommandIsOrder
<1>6. IInv' /\ TypeOK'
  BY InductiveStep DEF SystemInv, IInv
<1>7. SystemTypeOK'
  BY <1>1, <1>2, <1>3, <1>5, <1>6 DEF SystemInv, SystemTypeOK, Messages
<1>8. DirectionFollowed => DirectionFollowed'
  BY ReceiveDirection
<1>9. SpeedFollowed => SpeedFollowed'
  BY ReceiveSpeed
<1>10. Followed'
  BY <1>8, <1>9 DEF SystemInv, Followed, vars
<1>11. OrderInForce'
  BY <1>2 DEF OrderInForce, Motors
<1>12. QED BY <1>6, <1>7, <1>10, <1>11 DEF SystemInv

LEMMA CallbackStatusInvariant == ASSUME SystemInv, CallbackStatus PROVE SystemInv'
<1>1. /\ Received("status") /\ AcceptStatus
      /\ UNCHANGED <<cbDir, speed, order, served, drive, closed, told>>
  BY DEF CallbackStatus, callback, motion
<1>2. inbox' \in Seq(Messages) /\ Len(inbox') <= MaxInbox
  BY <1>1, ReceivedFacts
<1>3. IInv' /\ TypeOK'
  BY <1>1, InductiveStep DEF SystemInv, IInv, Next, ReceiveThread
<1>4. SystemTypeOK'
  BY <1>1, <1>2, <1>3 DEF SystemInv, SystemTypeOK, Messages
<1>5. session' = session
  BY <1>1 DEF AcceptStatus, network
<1>6. DirectionFollowed => DirectionFollowed'
  BY <1>1, ReceiveDirection
<1>7. SpeedFollowed => SpeedFollowed'
  BY <1>1, ReceiveSpeed
<1>8. Followed'
  BY <1>5, <1>6, <1>7 DEF SystemInv, Followed
<1>9. OrderInForce'
  BY <1>1, <1>5 DEF SystemInv, OrderInForce
<1>10. QED BY <1>3, <1>4, <1>8, <1>9 DEF SystemInv

LEMMA LoseSessionInvariant == ASSUME SystemInv, LoseSession PROVE SystemInv'
<1>1. /\ SessionLost /\ inbox' = <<>>
      /\ UNCHANGED <<cbDir, speed, order, served, drive, closed, told>>
  BY DEF LoseSession, callback, motion
<1>2. IInv' /\ TypeOK'
  BY <1>1, InductiveStep DEF SystemInv, IInv, Next
<1>3. SystemTypeOK'
  BY <1>1, <1>2, MaxInboxAssumption DEF SystemInv, SystemTypeOK
<1>4. Followed' /\ OrderInForce'
  BY <1>1 DEF SystemInv, Followed, OrderInForce, SessionLost
<1>5. QED BY <1>2, <1>3, <1>4 DEF SystemInv

(* One motor more executes its part of the order.                                *)
LEMMA MoveRoverInvariant == ASSUME SystemInv, MoveRover PROVE SystemInv'
<1>1. /\ served # 3 /\ served \in 0..3 /\ served' = served + 1
      /\ drive' = [drive EXCEPT ![served + 1] = order[served + 1]]
      /\ UNCHANGED <<vars, inbox, cbDir, speed, told, order, closed>>
  BY DEF MoveRover, Rover!Serve, Rover!Resting, callback, SystemInv, SystemTypeOK
<1>2. {order, drive} \subseteq [Motors -> {0, 1} \X (0..127)] /\ served + 1 \in Motors
  BY <1>1 DEF SystemInv, SystemTypeOK, Motors
<1>3. IInv' /\ TypeOK'
  BY <1>1, InductiveStep DEF SystemInv, IInv
<1>4. drive' \in [Motors -> {0, 1} \X (0..127)]
  BY <1>1, <1>2
<1>5. SystemTypeOK'
  BY <1>1, <1>2, <1>3, <1>4 DEF SystemInv, SystemTypeOK
<1>6. Followed'
  BY <1>1 DEF SystemInv, Followed, DirectionFollowed, SpeedFollowed, vars
<1>7. OrderInForce'
  <2>1. ASSUME NEW m \in Motors, m <= served + 1 PROVE drive'[m] = order[m]
    BY <1>1, <1>2, <2>1 DEF SystemInv, OrderInForce, Motors
  <2>2. QED BY <1>1, <2>1 DEF SystemInv, OrderInForce, vars
<1>8. QED BY <1>3, <1>5, <1>6, <1>7 DEF SystemInv

LEMMA DisconnectInvariant == ASSUME SystemInv, Disconnect PROVE SystemInv'
<1>1. /\ session = "closed" /\ closed' = TRUE /\ served' = 0
      /\ order' = SentCommand("stop", InitialSpeed)
      /\ UNCHANGED <<vars, inbox, cbDir, speed, told, drive>>
  BY DEF Disconnect, Rover!Close, callback
<1>2. IInv' /\ TypeOK'
  BY <1>1, InductiveStep DEF SystemInv, IInv
<1>3. order' \in [Motors -> {0, 1} \X (0..127)]
  <2>1. "stop" \in Directions /\ InitialSpeed \in 0..127
    BY DEF InitialSpeed, Directions
  <2>2. QED BY <1>1, <2>1, CommandIsOrder
<1>4. SystemTypeOK'
  BY <1>1, <1>2, <1>3 DEF SystemInv, SystemTypeOK
<1>5. Followed' /\ OrderInForce'
  BY <1>1 DEF SystemInv, Followed, OrderInForce, Motors, vars
<1>6. QED BY <1>2, <1>4, <1>5 DEF SystemInv

LEMMA SystemStep == SystemInv /\ [SystemNext]_systemVars => SystemInv'
<1> SUFFICES ASSUME SystemInv, [SystemNext]_systemVars PROVE SystemInv'
  OBVIOUS
<1>1. CASE Threads
  <2>1. [Next]_vars
    BY <1>1, PipelineStep DEF SystemNext
  <2>2. IInv'
    BY <2>1, InductiveStep DEF SystemInv
  <2>3. QED BY <1>1, <2>1, <2>2, ElsewhereInvariant DEF Threads
<1>2. CASE Broker
  <2>1. ASSUME NEW w \in Words, Deliver("sensor", w) PROVE SystemInv'
    BY <2>1, DeliverInvariant DEF Messages
  <2>2. ASSUME NEW c \in Digits, Deliver("speed", c) PROVE SystemInv'
    BY <2>2, DeliverInvariant DEF Messages
  <2>3. ASSUME Deliver("status", 0) PROVE SystemInv'
    BY <2>3, DeliverInvariant DEF Messages
  <2>4. QED BY <1>2, <2>1, <2>2, <2>3, LoseInvariant DEF Broker
<1>3. CASE LoseSession
  BY <1>3, LoseSessionInvariant
<1>4. CASE CallbackSensor
  <2>1. cbDir' = DirectionOf(Value) /\ speed' = speed
    BY <1>4 DEF CallbackSensor
  <2>2. QED BY <1>4, <2>1, MotionMessageInvariant DEF CallbackSensor
<1>5. CASE CallbackSpeed
  <2>1. cbDir' = cbDir /\ speed' = ByteOf(Value)
        /\ change_speed(Level(Value), speed) = ByteOf(Value)
    BY <1>5, Readings DEF CallbackSpeed
  <2>2. QED BY <1>5, <2>1, MotionMessageInvariant DEF CallbackSpeed
<1>6. CASE CallbackStatus
  BY <1>6, CallbackStatusInvariant
<1>7. CASE MoveRover
  BY <1>7, MoveRoverInvariant
<1>8. CASE Disconnect
  BY <1>8, DisconnectInvariant
<1>9. CASE UNCHANGED systemVars
  <2>1. UNCHANGED vars /\ UNCHANGED <<inbox, callback, motion, told>>
    BY <1>9 DEF systemVars
  <2>2. IInv'
    BY <2>1, InductiveStep DEF SystemInv
  <2>3. QED BY <2>1, <2>2, ElsewhereInvariant
<1>10. QED
  BY <1>1, <1>2, <1>3, <1>4, <1>5, <1>6, <1>7, <1>8, <1>9 DEF SystemNext, Callback

LEMMA SystemInvariance == SystemSpec => []SystemInv
  BY SystemInitInvariant, SystemStep, PTL DEF SystemSpec

-----------------------------------------------------------------------------
(* The theorems.                                                                *)

(* Every variable keeps its type and the inbox its length, whatever values the    *)
(* messages have.                                                               *)
THEOREM SystemTypeCorrect == SystemSpec => []SystemTypeOK
  BY SystemInvariance, PTL DEF SystemInv

(* When the callback has caught up with the broker, the motors execute what was   *)
(* published last, except for the topics whose last message was lost.            *)
THEOREM LastWordObeyed == SystemSpec => []ObeysLastWord
<1>1. SystemInv => ObeysLastWord
  <2> SUFFICES ASSUME SystemInv, Idle, inbox = <<>>, session = "up"
               PROVE  /\ told.dir \in {LostDir, cbDir}
                      /\ told.speed \in {LostSpeed, speed}
                      /\ drive = SentCommand(cbDir, speed)
    BY DEF ObeysLastWord
  <2>1. 1..Len(inbox) = {}
    OBVIOUS
  <2>2. told.dir \in {LostDir, cbDir} /\ told.speed \in {LostSpeed, speed}
    BY <2>1 DEF SystemInv, Followed, DirectionFollowed, SpeedFollowed
  <2>3. /\ served = 3 /\ order = SentCommand(cbDir, speed)
        /\ {order, drive} \subseteq [Motors -> {0, 1} \X (0..127)]
        /\ \A m \in Motors : m <= served => drive[m] = order[m]
    BY DEF SystemInv, SystemTypeOK, OrderInForce, Idle, Rover!Resting
  <2>4. \A m \in Motors : drive[m] = order[m]
    BY <2>3 DEF Motors
  <2>5. drive = order
    BY <2>3, <2>4
  <2>6. QED BY <2>2, <2>3, <2>5
<1>2. QED BY <1>1, SystemInvariance, PTL

HaltServed == closed /\ Rover!Resting

(* The halt that follows the end of a session is the last word to the motors:     *)
(* once it is served they are all stopped, and no later step sets one going. This  *)
(* is the part of LossStopsRover that needs no fairness.                         *)
THEOREM HaltStands ==
    SystemSpec => [](HaltServed => AllStopped) /\ [][HaltServed => HaltServed']_systemVars
<1>1. SystemInv => (HaltServed => AllStopped)
  <2> SUFFICES ASSUME SystemInv, closed, served = 3, NEW m \in Motors PROVE drive[m][2] = 0
    BY DEF HaltServed, AllStopped, Rover!Resting
  <2>1. drive[m] = SentCommand("stop", InitialSpeed)[m]
    BY DEF SystemInv, OrderInForce, Motors
  <2>2. QED BY <2>1, StopTable
<1>2. [SystemNext]_systemVars => [HaltServed => HaltServed']_systemVars
  <2> SUFFICES ASSUME [SystemNext]_systemVars, HaltServed PROVE HaltServed'
    OBVIOUS
  <2>1. QED
    BY DEF HaltServed, SystemNext, Threads, Broker, Deliver, Lose, LoseSession, Callback,
       CallbackSensor, CallbackSpeed, CallbackStatus, MoveRover, Disconnect, Rover!Resting,
       Rover!Take, Rover!Serve, Rover!Close, motion, systemVars
<1>3. QED BY <1>1, <1>2, SystemInvariance, PTL DEF SystemSpec

(* Motion and statuses share the receive thread, and yet the system loses,        *)
(* repeats and overtakes no status and keeps the bound on their number: its steps  *)
(* are steps of the pipeline, which a move of the rover delays and nothing more.   *)
THEOREM StatusesUndisturbed ==
    SystemSpec => /\ Init /\ [][Next]_vars
                  /\ [](NothingLost /\ BacklogBounded /\ SomeoneDrains)
<1>1. SystemInv => NothingLost /\ BacklogBounded /\ SomeoneDrains
  BY StatusesHeld, BacklogFits, PublisherStays DEF SystemInv
<1>2. [SystemNext]_systemVars => [Next]_vars
  BY PipelineStep DEF systemVars
<1>3. SystemInit => Init
  BY DEF SystemInit
<1>4. QED BY <1>1, <1>2, <1>3, SystemInvariance, PTL DEF SystemSpec

-----------------------------------------------------------------------------
(* Deadlock and livelock of the whole system: what StopCarriesThrough and        *)
(* LossStopsRover need besides fair scheduling.                                  *)

\* Places in a sequence of messages that hold a status.
StatusPlaces(q) == {i \in 1..Len(q) : q[i][1] = "status"}

LEMMA StatusPlacesFinite ==
  ASSUME NEW S, NEW q \in Seq(S)
  PROVE  /\ IsFiniteSet(StatusPlaces(q))
         /\ Cardinality(StatusPlaces(q)) \in Nat
<1>1. IsFiniteSet(1..Len(q)) /\ StatusPlaces(q) \in SUBSET (1..Len(q))
  BY FS_Interval DEF StatusPlaces
<1>2. QED BY <1>1, FS_Subset, FS_CardinalityType

LEMMA StatusesAfterAppend ==
  ASSUME NEW S, NEW q \in Seq(S), NEW e \in S
  PROVE  Cardinality(StatusPlaces(Append(q, e)))
             = Cardinality(StatusPlaces(q)) + (IF e[1] = "status" THEN 1 ELSE 0)
<1> DEFINE r == Append(q, e)
<1>1. /\ Len(q) \in Nat /\ Len(r) = Len(q) + 1 /\ r[Len(q) + 1] = e
      /\ \A i \in 1..Len(q) : r[i] = q[i]
  BY AppendFacts
<1> HIDE DEF r
<1>2. StatusPlaces(r) = IF e[1] = "status" THEN StatusPlaces(q) \cup {Len(q) + 1}
                                         ELSE StatusPlaces(q)
  <2>1. \A i : i \in 1..Len(r) <=> i \in 1..Len(q) \/ i = Len(q) + 1
    BY <1>1
  <2>2. QED BY <1>1, <2>1 DEF StatusPlaces
<1>3. Len(q) + 1 \notin StatusPlaces(q)
  BY <1>1 DEF StatusPlaces
<1>4. IsFiniteSet(StatusPlaces(q)) /\ Cardinality(StatusPlaces(q)) \in Nat
  BY StatusPlacesFinite
<1>5. Cardinality(StatusPlaces(q) \cup {Len(q) + 1}) = Cardinality(StatusPlaces(q)) + 1
  BY <1>3, <1>4, FS_AddElement
<1>6. CASE e[1] = "status"
  BY <1>2, <1>5, <1>6 DEF r
<1>7. CASE e[1] # "status"
  BY <1>2, <1>4, <1>7 DEF r
<1>8. QED BY <1>6, <1>7

LEMMA StatusesAfterTail ==
  ASSUME NEW S, NEW q \in Seq(S), q # <<>>
  PROVE  Cardinality(StatusPlaces(Tail(q)))
             <= Cardinality(StatusPlaces(q)) - (IF q[1][1] = "status" THEN 1 ELSE 0)
<1> DEFINE r == Tail(q)
           rest == StatusPlaces(q) \ {1}
           place == [i \in StatusPlaces(r) |-> i + 1]
<1>1. /\ Len(q) \in Nat /\ Len(q) >= 1 /\ Len(r) = Len(q) - 1 /\ r \in Seq(S)
      /\ \A i \in 1..(Len(q) - 1) : r[i] = q[i + 1]
  BY HeadTailFacts
<1> HIDE DEF r
<1>2. ASSUME NEW i \in StatusPlaces(r) PROVE i + 1 \in rest /\ i \in Nat
  <2>1. i \in 1..(Len(q) - 1) /\ r[i][1] = "status"
    BY <1>1 DEF StatusPlaces
  <2>2. i + 1 \in 1..Len(q) /\ i + 1 # 1 /\ q[i + 1][1] = "status"
    BY <1>1, <2>1
  <2>3. QED BY <2>1, <2>2 DEF StatusPlaces
<1>3. place \in Injection(StatusPlaces(r), rest)
  BY <1>2 DEF Injection, IsInjective
<1>4. IsFiniteSet(StatusPlaces(q)) /\ Cardinality(StatusPlaces(q)) \in Nat
  BY StatusPlacesFinite
<1>5. /\ IsFiniteSet(rest)
      /\ Cardinality(rest) = IF 1 \in StatusPlaces(q) THEN Cardinality(StatusPlaces(q)) - 1
                                                     ELSE Cardinality(StatusPlaces(q))
  BY <1>4, FS_RemoveElement
<1> HIDE DEF place, rest
<1>6. Cardinality(StatusPlaces(r)) <= Cardinality(rest)
  BY <1>3, <1>5, FS_Injection
<1>7. 1 \in StatusPlaces(q) <=> q[1][1] = "status"
  <2>1. 1 \in 1..Len(q)
    BY <1>1
  <2>2. QED BY <2>1 DEF StatusPlaces
<1>8. CASE q[1][1] = "status"
  BY <1>5, <1>6, <1>7, <1>8 DEF r
<1>9. CASE q[1][1] # "status"
  BY <1>4, <1>5, <1>6, <1>7, <1>9 DEF r
<1>10. QED BY <1>8, <1>9

\* Messages are on the way only to a subscriber, the receive thread is there before
\* the session it reads, and the broker sends no more statuses than MaxStatus.
ReceiverThere == (publisher \in {"connect", "subscribe"} \/ session # "none") => rx # "none"
DeliveryInv ==
    /\ inbox # <<>> => Subscribed
    /\ ReceiverThere
    /\ accepted + StatusesOnTheWay <= MaxStatus

LEMMA OnTheWay == SystemInv => /\ StatusesOnTheWay = Cardinality(StatusPlaces(inbox))
                               /\ StatusesOnTheWay \in Nat /\ accepted \in Nat
<1> SUFFICES ASSUME SystemInv
             PROVE  /\ StatusesOnTheWay = Cardinality(StatusPlaces(inbox))
                    /\ StatusesOnTheWay \in Nat /\ accepted \in Nat
  OBVIOUS
<1>1. inbox \in Seq(Messages) /\ accepted \in Nat
  BY DEF SystemInv, SystemTypeOK, TypeOK, Messages
<1>2. StatusesOnTheWay = Cardinality(StatusPlaces(inbox))
  BY DEF StatusesOnTheWay, StatusPlaces
<1>3. QED BY <1>1, <1>2, StatusPlacesFinite

LEMMA DeliveryInit == SystemInit => DeliveryInv
<1> SUFFICES ASSUME SystemInit PROVE DeliveryInv
  OBVIOUS
<1>1. inbox = <<>> /\ accepted = 0 /\ publisher = "none" /\ session = "none"
  BY DEF SystemInit, Init
<1>2. {i \in 1..Len(inbox) : inbox[i][1] = "status"} = {}
  BY <1>1
<1>3. StatusesOnTheWay = 0
  BY <1>2, FS_EmptySet DEF StatusesOnTheWay
<1>4. QED BY <1>1, <1>3, MaxStatusAssumption DEF DeliveryInv, ReceiverThere

LEMMA ReceiverStays ==
  ASSUME IInv, ReceiverThere, [Next]_vars
  PROVE  ReceiverThere'
<1>1. CASE MainTask
  BY <1>1 DEF MainTask, InitMsgQueues, ConnectAP, MqttStart, MainReceive, MainSend,
     ReceiverThere, publisherVars, rxVars, network, IInv, Creation, Drained
<1>2. CASE PublisherStart
  BY <1>2 DEF PublisherStart, CreateClient, CreateRxThread, ConnectBroker, Subscribe,
     PublisherStep, ReceiverThere, rxVars, network, IInv, Drained
<1>3. CASE PublisherReceive \/ Publish
  BY <1>3 DEF PublisherReceive, Publish, PublisherStep, ReceiverThere, rxVars, network
<1>4. CASE ReceiveThread
  BY <1>4 DEF ReceiveThread, AcceptStatus, UpdateStatus, ReceiverThere, publisherVars, network
<1>5. CASE SessionLost \/ \E msg \in {Statistics, General} : TimerInterrupt(msg)
  BY <1>5 DEF SessionLost, TimerInterrupt, ReceiverThere, publisherVars, rxVars, network
<1>6. CASE UNCHANGED vars
  BY <1>6 DEF vars, publisherVars, rxVars, network, ReceiverThere
<1>7. QED BY <1>1, <1>2, <1>3, <1>4, <1>5, <1>6 DEF Next, Publisher

\* The threads take nothing out of the inbox and leave the subscription alone.
LEMMA ThreadsDeliver ==
  ASSUME SystemInv, DeliveryInv, Threads
  PROVE  (inbox # <<>> => Subscribed)' /\ inbox' = inbox /\ accepted' = accepted
<1>1. inbox' = inbox
  BY DEF Threads
<1>2. accepted' = accepted
  BY DEF Threads, MainTask, Publisher, PublisherStart, UpdateStatus, TimerInterrupt,
     InitMsgQueues, ConnectAP, MqttStart, MainReceive, MainSend, CreateClient, CreateRxThread,
     ConnectBroker, Subscribe, PublisherReceive, Publish, history
<1>3. Subscribed => Subscribed'
  <2>1. CASE MainTask
    BY <2>1 DEF MainTask, InitMsgQueues, ConnectAP, MqttStart, MainReceive, MainSend,
       Subscribed, publisherVars, network, SystemInv, IInv, Creation
  <2>2. CASE Publisher
    BY <2>2 DEF Publisher, PublisherStart, CreateClient, CreateRxThread, ConnectBroker, Subscribe,
       PublisherReceive, Publish, PublisherStep, Subscribed, network
  <2>3. CASE UpdateStatus \/ TimerInterrupt(General)
    BY <2>3 DEF UpdateStatus, TimerInterrupt, Subscribed, publisherVars, network
  <2>4. QED BY <2>1, <2>2, <2>3 DEF Threads
<1>4. QED BY <1>1, <1>2, <1>3 DEF DeliveryInv

LEMMA DeliveryStep == SystemInv /\ DeliveryInv /\ [SystemNext]_systemVars => DeliveryInv'
<1> SUFFICES ASSUME SystemInv, DeliveryInv, [SystemNext]_systemVars PROVE DeliveryInv'
  OBVIOUS
<1>1. ReceiverThere'
  <2>1. [Next]_vars
    BY PipelineStep DEF systemVars
  <2>2. QED BY <2>1, ReceiverStays DEF SystemInv, DeliveryInv
<1>2. /\ StatusesOnTheWay = Cardinality(StatusPlaces(inbox))
      /\ StatusesOnTheWay \in Nat /\ accepted \in Nat
      /\ inbox \in Seq(Messages) /\ MaxStatus \in Nat
      /\ accepted + StatusesOnTheWay <= MaxStatus
  BY OnTheWay, MaxStatusAssumption DEF SystemInv, SystemTypeOK, DeliveryInv, Messages
<1>3. StatusesOnTheWay' = Cardinality(StatusPlaces(inbox'))
  BY DEF StatusesOnTheWay, StatusPlaces
<1>4. CASE Threads
  <2>1. StatusesOnTheWay' = StatusesOnTheWay
    BY <1>2, <1>3, <1>4, ThreadsDeliver
  <2>2. QED BY <1>1, <1>2, <1>4, <2>1, ThreadsDeliver DEF DeliveryInv
<1>5. ASSUME NEW t \in {"sensor", "speed", "status"}, NEW value, <<t, value>> \in Messages,
             Deliver(t, value), t = "status" => accepted + StatusesOnTheWay < MaxStatus
      PROVE  DeliveryInv'
  <2>1. inbox' = Append(inbox, <<t, value>>) /\ Subscribed' /\ accepted' = accepted
    BY <1>5 DEF Deliver, Subscribed, vars, publisherVars, network, history
  <2>2. StatusesOnTheWay' = StatusesOnTheWay + (IF t = "status" THEN 1 ELSE 0)
    <3> DEFINE e == <<t, value>>
    <3>1. e \in Messages /\ e[1] = t /\ inbox' = Append(inbox, e)
      BY <1>5, <2>1
    <3> HIDE DEF e
    <3>2. QED BY <1>2, <1>3, <3>1, StatusesAfterAppend
  <2>3. accepted' + StatusesOnTheWay' <= MaxStatus
    BY <1>2, <1>5, <2>1, <2>2
  <2>4. QED BY <1>1, <2>1, <2>3 DEF DeliveryInv
<1>6. CASE Broker
  <2>1. CASE \E t \in {"sensor", "speed"} : Lose(t)
    <3>1. UNCHANGED <<vars, inbox>>
      BY <2>1 DEF Lose
    <3>2. StatusesOnTheWay' = StatusesOnTheWay /\ accepted' = accepted /\ Subscribed' = Subscribed
      BY <1>2, <1>3, <3>1 DEF vars, history, network, publisherVars, Subscribed
    <3>3. QED BY <1>1, <1>2, <3>1, <3>2 DEF DeliveryInv
  <2>2. ASSUME NEW w \in Words, Deliver("sensor", w) PROVE DeliveryInv'
    BY <1>5, <2>2 DEF Messages
  <2>3. ASSUME NEW c \in Digits, Deliver("speed", c) PROVE DeliveryInv'
    BY <1>5, <2>3 DEF Messages
  <2>4. ASSUME accepted + StatusesOnTheWay < MaxStatus, Deliver("status", 0) PROVE DeliveryInv'
    BY <1>5, <2>4 DEF Messages
  <2>5. QED BY <1>6, <2>1, <2>2, <2>3, <2>4 DEF Broker
<1>7. CASE LoseSession
  <2>1. inbox' = <<>> /\ accepted' = accepted
    BY <1>7 DEF LoseSession, SessionLost, history
  <2>2. StatusPlaces(inbox') = {}
    BY <2>1 DEF StatusPlaces
  <2>3. StatusesOnTheWay' = 0
    BY <1>3, <2>2, FS_EmptySet
  <2>4. QED BY <1>1, <1>2, <2>1, <2>3 DEF DeliveryInv
<1>8. CASE Callback
  <2>1. PICK t \in {"sensor", "speed", "status"} :
            /\ Received(t)
            /\ accepted' = accepted + (IF t = "status" THEN 1 ELSE 0)
            /\ UNCHANGED <<session, publisher>>
    BY <1>2, <1>8 DEF Callback, CallbackSensor, CallbackSpeed, CallbackStatus, AcceptStatus, vars,
       publisherVars, network, history
  <2>2. inbox # <<>> /\ inbox' = Tail(inbox) /\ inbox[1][1] = t
    BY <2>1, ReceivedFacts
  <2>3. StatusesOnTheWay' <= StatusesOnTheWay - (IF t = "status" THEN 1 ELSE 0)
    BY <1>2, <1>3, <2>2, StatusesAfterTail
  <2>4. StatusesOnTheWay' \in Nat
    <3>1. Tail(inbox) \in Seq(Messages)
      BY <1>2, <2>2, HeadTailFacts
    <3>2. QED BY <1>3, <2>2, <3>1, StatusPlacesFinite
  <2>5. accepted' + StatusesOnTheWay' <= MaxStatus
    <3> DEFINE a == accepted'
               o == StatusesOnTheWay'
    <3>1. CASE t = "status"
      <4>1. a = accepted + 1 /\ o <= StatusesOnTheWay - 1 /\ o \in Nat
        BY <2>1, <2>3, <2>4, <3>1
      <4> HIDE DEF a, o
      <4>2. a + o <= MaxStatus
        BY <1>2, <4>1
      <4>3. QED BY <4>2 DEF a, o
    <3>2. CASE t # "status"
      <4>1. a = accepted /\ o <= StatusesOnTheWay /\ o \in Nat
        BY <1>2, <2>1, <2>3, <2>4, <3>2
      <4> HIDE DEF a, o
      <4>2. a + o <= MaxStatus
        BY <1>2, <4>1
      <4>3. QED BY <4>2 DEF a, o
    <3>3. QED BY <3>1, <3>2
  <2>6. Subscribed'
    BY <2>1, <2>2 DEF DeliveryInv, Subscribed
  <2>7. QED BY <1>1, <2>5, <2>6 DEF DeliveryInv
<1>9. CASE MoveRover \/ Disconnect \/ UNCHANGED systemVars
  <2>1. UNCHANGED <<vars, inbox>>
    BY <1>9 DEF MoveRover, Disconnect, systemVars
  <2>2. StatusesOnTheWay' = StatusesOnTheWay /\ accepted' = accepted /\ Subscribed' = Subscribed
    BY <1>2, <1>3, <2>1 DEF vars, history, network, publisherVars, Subscribed
  <2>3. QED BY <1>1, <1>2, <2>1, <2>2 DEF DeliveryInv
<1>10. QED BY <1>4, <1>6, <1>7, <1>8, <1>9 DEF SystemNext

LEMMA DeliveryInvariance == SystemSpec => []DeliveryInv
  BY DeliveryInit, DeliveryStep, SystemInvariance, PTL DEF SystemSpec

\* The receive thread serves a motor, takes up what has arrived, or ends the session.
ReceiverCanGo ==
    \/ ~Rover!Resting
    \/ /\ rx = "run" /\ inbox # <<>> /\ ~closed
       /\ Head(inbox)[1] = "status" => session = "up" /\ accepted < MaxStatus
    \/ rx = "run" /\ session = "closed" /\ ~closed

\* A message has reached the device, or the end of a session has not stopped the rover.
Outstanding == inbox # <<>> \/ (session = "closed" /\ ~closed)

LEMMA ReceiverOrThreads ==
  ASSUME SystemInv, DeliveryInv, Outstanding
  PROVE  ReceiverCanGo \/ ThreadCanGo
<1>1. session # "none" /\ rx \in {"run", "send"}
  BY DEF Outstanding, DeliveryInv, Subscribed, ReceiverThere, SystemInv, IInv, TypeOK
<1>2. CASE rx = "send"
  <2>1. Taken <= Passed /\ Len(handed) \in Nat /\ accepted \in Nat /\ Len(mainQueue) \in Nat
    BY DEF SystemInv, IInv, TypeOK, Counting
  <2>2. Taken >= Len(handed) /\ Taken \in Int
    BY <2>1 DEF Taken
  <2>3. Enqueued = accepted - 1
    BY <1>2, <2>1 DEF Enqueued
  <2>4. Passed <= accepted - 1 /\ Passed \in Int
    BY <2>1, <2>3 DEF Passed
  <2>5. accepted > Len(handed)
    BY <2>1, <2>2, <2>4
  <2>6. QED BY <2>5, SomeoneGoes DEF SystemInv
<1>3. CASE rx = "run" /\ inbox = <<>>
  BY <1>3 DEF Outstanding, ReceiverCanGo
<1>4. CASE rx = "run" /\ inbox # <<>>
  <2>1. session = "up" /\ ~closed
    BY <1>4 DEF DeliveryInv, Subscribed, SystemInv, OrderInForce
  <2>2. ASSUME Head(inbox)[1] = "status" PROVE accepted < MaxStatus
    <3>1. /\ inbox \in Seq(Messages) /\ StatusesOnTheWay = Cardinality(StatusPlaces(inbox))
          /\ StatusesOnTheWay \in Nat /\ accepted \in Nat
          /\ accepted + StatusesOnTheWay <= MaxStatus
      BY OnTheWay DEF SystemInv, SystemTypeOK, Messages, DeliveryInv
    <3>2. inbox[1][1] = "status" /\ Tail(inbox) \in Seq(Messages)
      BY <1>4, <2>2, <3>1, HeadTailFacts
    <3>3. Cardinality(StatusPlaces(Tail(inbox))) <= StatusesOnTheWay - 1
      BY <1>4, <3>1, <3>2, StatusesAfterTail
    <3>4. Cardinality(StatusPlaces(Tail(inbox))) \in Nat
      BY <3>2, StatusPlacesFinite
    <3>5. QED BY <3>1, <3>3, <3>4, MaxStatusAssumption
  <2>3. QED BY <1>4, <2>1, <2>2 DEF ReceiverCanGo
<1>5. QED BY <1>1, <1>2, <1>3, <1>4

(* A message that has reached the device, or the end of the session, is never stuck   *)
(* behind threads that wait for one another: the receive thread can go on, and when    *)
(* it waits for room in mainQueue, another thread can, for all queue lengths and       *)
(* whatever the interrupts have put into publishQueue.                               *)
THEOREM NothingStuck ==
    SystemSpec => [](Outstanding => ReceiverCanGo \/ ThreadCanGo)
<1>1. SystemInv /\ DeliveryInv => (Outstanding => ReceiverCanGo \/ ThreadCanGo)
  BY ReceiverOrThreads
<1>2. QED BY <1>1, SystemInvariance, DeliveryInvariance, PTL

\* Steps that are left of all there is to do: serving the motors, the halt at the end of
\* the session, and for each message on the way a callback and what it sets off.
SystemWork == Work + 6 * Len(inbox) + (3 - served) + (IF closed THEN 0 ELSE 4)

SystemThreadStep == Callback \/ MoveRover \/ Disconnect \/ (Threads /\ ThreadStep)

LEMMA SystemWorkIsNatural == ASSUME SystemInv PROVE SystemWork \in Nat
<1>1. Work \in Nat /\ Len(inbox) \in Nat /\ served \in 0..3
  BY WorkIsNatural DEF SystemInv, SystemTypeOK
<1>2. QED BY <1>1 DEF SystemWork

LEMMA SystemStepsLowerWork ==
  ASSUME SystemInv, SystemThreadStep
  PROVE  SystemWork' < SystemWork
<1>1. /\ TypeOK /\ Work \in Nat /\ served \in 0..3 /\ Len(inbox) \in Nat
  BY WorkIsNatural DEF SystemInv, SystemTypeOK
<1>2. ASSUME NEW t, Received(t)
      PROVE  Len(inbox') = Len(inbox) - 1 /\ served = 3
  BY <1>2, ReceivedFacts, HeadTailFacts DEF Received, Idle, Rover!Resting
<1>3. CASE Threads /\ ThreadStep
  <2>1. Work' < Work /\ Work' \in Int
    <3>1. Work' < Work
      BY <1>1, <1>3, ThreadStepLowersWork
    <3>2. TypeOK'
      BY <1>3, PipelineStep, InductiveStep DEF SystemNext, SystemInv, IInv
    <3>3. QED BY <3>1, <3>2, WorkStaysNatural
  <2>2. UNCHANGED <<inbox, served, closed>>
    BY <1>3 DEF Threads, motion
  <2>3. QED BY <1>1, <2>1, <2>2 DEF SystemWork
<1>4. CASE CallbackSensor \/ CallbackSpeed
  <2>1. Work' = Work
    BY <1>4 DEF CallbackSensor, CallbackSpeed, vars, mainVars, publisherVars, rxVars, Work,
       MainWork, PublisherWork, RxWork
  <2>2. /\ served' = 0 /\ closed' = closed
        /\ Len(inbox') = Len(inbox) - 1 /\ served = 3
    BY <1>2, <1>4 DEF CallbackSensor, CallbackSpeed, Rover!Take
  <2>3. QED BY <1>1, <2>1, <2>2 DEF SystemWork
<1>5. CASE CallbackStatus
  <2>1. Work' <= Work + 5 /\ Work' \in Int
    <3>1. Work' <= Work + 5
      BY <1>1, <1>5, OtherStepsAddWork DEF CallbackStatus
    <3>2. TypeOK'
      BY <1>5, PipelineStep, InductiveStep DEF SystemNext, Callback, SystemInv, IInv
    <3>3. QED BY <3>1, <3>2, WorkStaysNatural
  <2>2. served' = served /\ closed' = closed /\ Len(inbox') = Len(inbox) - 1
    BY <1>2, <1>5 DEF CallbackStatus, motion
  <2>3. QED BY <1>1, <2>1, <2>2 DEF SystemWork
<1>6. CASE MoveRover
  <2>1. Work' = Work
    BY <1>6 DEF MoveRover, vars, mainVars, publisherVars, rxVars, Work, MainWork,
       PublisherWork, RxWork
  <2>2. served' = served + 1 /\ UNCHANGED <<closed, inbox>>
    BY <1>6 DEF MoveRover, Rover!Serve
  <2>3. QED BY <1>1, <2>1, <2>2 DEF SystemWork
<1>7. CASE Disconnect
  <2>1. Work' = Work
    BY <1>7 DEF Disconnect, vars, mainVars, publisherVars, rxVars, Work, MainWork,
       PublisherWork, RxWork
  <2>2. served = 3 /\ served' = 0 /\ ~closed /\ closed' /\ inbox' = inbox
    BY <1>7 DEF Disconnect, Idle, Rover!Resting, Rover!Close
  <2>3. QED BY <1>1, <2>1, <2>2 DEF SystemWork
<1>8. QED BY <1>3, <1>4, <1>5, <1>6, <1>7 DEF SystemThreadStep, Callback

LEMMA SystemWorkStaysNatural == ASSUME SystemInv' PROVE SystemWork' \in Nat
<1>1. Work' \in Nat /\ Len(inbox') \in Nat /\ served' \in 0..3
  BY WorkStaysNatural DEF SystemInv, SystemTypeOK
<1>2. QED BY <1>1 DEF SystemWork

LEMMA OthersAddSystemWork ==
  ASSUME SystemInv, SystemInv', SystemNext, ~SystemThreadStep
  PROVE  SystemWork' <= SystemWork + (IF Broker THEN 6 ELSE 2)
<1>1. /\ TypeOK /\ Work \in Nat /\ served \in 0..3 /\ Len(inbox) \in Nat
      /\ Work' \in Nat /\ served' \in 0..3 /\ Len(inbox') \in Nat
  BY WorkIsNatural, WorkStaysNatural DEF SystemInv, SystemTypeOK
<1>2. CASE Broker
  <2>1. Work' = Work /\ served' = served /\ closed' = closed
    BY <1>2 DEF Broker, Deliver, Lose, motion, vars, mainVars, publisherVars, rxVars, Work,
       MainWork, PublisherWork, RxWork
  <2>2. Len(inbox') <= Len(inbox) + 1
    BY <1>1, <1>2, AppendFacts DEF Broker, Deliver, Lose, SystemInv, SystemTypeOK, Messages
  <2>3. QED BY <1>1, <1>2, <2>1, <2>2 DEF SystemWork
<1>3. CASE ~Broker /\ Threads
  <2>1. Work' <= Work + 2
    <3>1. TimerInterrupt(General) /\ ~AcceptStatus
      BY <1>3 DEF Threads, ThreadStep, SystemThreadStep, TimerInterrupt, AcceptStatus, rxVars,
         history
    <3>2. QED BY <1>1, <3>1, OtherStepsAddWork
  <2>2. UNCHANGED <<inbox, served, closed>>
    BY <1>3 DEF Threads, motion
  <2>3. QED BY <1>1, <1>3, <2>1, <2>2 DEF SystemWork
<1>4. CASE ~Broker /\ LoseSession
  <2>1. Work' <= Work + 2
    <3>1. SessionLost /\ ~AcceptStatus
      BY <1>4 DEF LoseSession, SessionLost, AcceptStatus, network, rxVars
    <3>2. QED BY <1>1, <3>1, OtherStepsAddWork
  <2>2. Len(inbox') <= Len(inbox) /\ UNCHANGED <<served, closed>>
    BY <1>1, <1>4 DEF LoseSession, motion
  <2>3. QED BY <1>1, <1>4, <2>1, <2>2 DEF SystemWork
<1>5. QED BY <1>2, <1>3, <1>4 DEF SystemNext, SystemThreadStep

(* The threads never work for ever on what there is: every step of theirs, moves of   *)
(* the rover included, leaves less to do, and only a message from the broker and a      *)
(* timer interrupt, or the end of the session, add to it, and no more than a few steps. *)
(* With NothingStuck: no stop on the way waits for ever unless the scheduling is unfair *)
(* or new messages or interrupts outrun the threads for ever.                          *)
THEOREM SystemWorkIsFinite ==
    SystemSpec => [][/\ SystemWork \in Nat /\ SystemWork' \in Nat
                     /\ SystemThreadStep => SystemWork' < SystemWork
                     /\ \/ SystemThreadStep
                        \/ SystemWork' <= SystemWork + (IF Broker THEN 6 ELSE 2)]_systemVars
<1>1. SystemInv /\ SystemInv' /\ [SystemNext]_systemVars
          => [/\ SystemWork \in Nat /\ SystemWork' \in Nat
              /\ SystemThreadStep => SystemWork' < SystemWork
              /\ \/ SystemThreadStep
                 \/ SystemWork' <= SystemWork + (IF Broker THEN 6 ELSE 2)]_systemVars
  <2> SUFFICES ASSUME SystemInv, SystemInv', SystemNext
               PROVE  /\ SystemWork \in Nat /\ SystemWork' \in Nat
                      /\ SystemThreadStep => SystemWork' < SystemWork
                      /\ \/ SystemThreadStep
                         \/ SystemWork' <= SystemWork + (IF Broker THEN 6 ELSE 2)
    OBVIOUS
  <2>1. SystemWork \in Nat /\ SystemWork' \in Nat
    BY SystemWorkIsNatural, SystemWorkStaysNatural
  <2>2. SystemThreadStep => SystemWork' < SystemWork
    BY SystemStepsLowerWork
  <2>3. SystemThreadStep \/ SystemWork' <= SystemWork + (IF Broker THEN 6 ELSE 2)
    BY OthersAddSystemWork
  <2>4. QED BY <2>1, <2>2, <2>3
<1>2. QED BY <1>1, SystemInvariance, PTL DEF SystemSpec
=============================================================================
