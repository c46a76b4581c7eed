------------------------- MODULE RoverControl_proofs -------------------------
(* Safety of RoverControl for every set of digits and words. The argument is    *)
(* one inductive invariant, IInv: it says which bytes of the move in progress    *)
(* the controllers hold, and that the motors already served by the move obey it. *)
EXTENDS RoverControl, MotorProtocol_proofs

-----------------------------------------------------------------------------
(* The inductive invariant.                                                     *)

(* Before the baud byte nothing has been sent, so the controllers are untouched. *)
Unannounced ==
    sendBaud = 1 => /\ bus = IdleReceiver
                    /\ sent \in {0, BytesPerMove}
                    /\ (~Busy => dir = "none")

Announced == sendBaud = 0 => bus.ready

(* The controllers hold the bytes of the packet in progress and nothing else.   *)
HeldPrefix ==
    \A m \in Motors :
        LET p == Packet(dir, speed, m) IN
        /\ sent = 4 * (m - 1)     => bus.held = <<>>
        /\ sent = 4 * (m - 1) + 1 => bus.held = <<p[1]>>
        /\ sent = 4 * (m - 1) + 2 => bus.held = <<p[1], p[2]>>
        /\ sent = 4 * (m - 1) + 3 => bus.held = <<p[1], p[2], p[3]>>
        /\ ~Busy                  => bus.held = <<>>

(* Motors whose packet is complete obey the move in progress.                   *)
Served ==
    \A m \in Motors : sent >= 4 * m => bus.drive[m] = SentCommand(dir, speed)[m]

(* The callback's direction and moveRover's differ only after a disconnect.     *)
DirectionsAgree ==
    IF session = "closed" THEN dir = "stop" ELSE dir = cbDir

IInv ==
    /\ TypeOK
    /\ NothingMisread
    /\ StillWithoutDirection
    /\ Unannounced
    /\ Announced
    /\ HeldPrefix
    /\ Served
    /\ DirectionsAgree

-----------------------------------------------------------------------------
(* Init => IInv                                                                 *)

LEMMA InitInvariant == Init => IInv
<1> SUFFICES ASSUME Init PROVE IInv
  OBVIOUS
<1>1. SpeedByte[4 + 1] = InitialSpeed /\ getSpeed(InitialSpeed) \in 0..5
  BY DEF SpeedByte, InitialSpeed, getSpeed
<1>2. IdleReceiver \in Receivers /\ Len(IdleReceiver.held) <= 3
  BY DEF IdleReceiver, Receivers, Motors
<1>3. TypeOK
  BY <1>1, <1>2 DEF Init, TypeOK, Directions, BytesPerMove, Reports
<1>4. NothingMisread /\ Unannounced /\ Announced /\ DirectionsAgree
  BY DEF Init, NothingMisread, Unannounced, Announced, DirectionsAgree, IdleReceiver, Busy
<1>5. StillWithoutDirection
  BY DEF Init, StillWithoutDirection, AllStopped, IdleReceiver
<1>6. HeldPrefix
  BY DEF Init, HeldPrefix, IdleReceiver, BytesPerMove, Motors
<1>7. Served
  BY StopTable DEF Init, Served, IdleReceiver
<1>8. QED BY <1>3, <1>4, <1>5, <1>6, <1>7 DEF IInv

-----------------------------------------------------------------------------
(* Starting a move: the controllers hold nothing, and no motor is served yet.    *)

LEMMA StartMoveInvariant ==
  ASSUME IInv, ~Busy,
         NEW d \in Directions, NEW v \in {SpeedByte[s + 1] : s \in 0..5},
         dir' = d, speed' = v, sent' = 0, UNCHANGED <<sendBaud, bus, report>>,
         cbDir' \in Directions, cbDir' = "none" => cbDir = "none",
         session' \in {"none", "up", "lost", "closed"}, led' \in {0, 1},
         IF session' = "closed" THEN d = "stop" ELSE d = cbDir'
  PROVE  IInv'
<1> USE DEF IInv
<1>1. TypeOK'
  BY DEF TypeOK, BytesPerMove
<1>2. NothingMisread'
  BY DEF NothingMisread
<1>3. StillWithoutDirection'
  BY DEF StillWithoutDirection, AllStopped
<1>4. Unannounced'
  BY DEF Unannounced, Busy, BytesPerMove
<1>5. Announced'
  BY DEF Announced
<1>6. bus.held = <<>>
  BY DEF HeldPrefix, Motors
<1>7. HeldPrefix'
  BY <1>6 DEF HeldPrefix, Busy, BytesPerMove, Motors
<1>8. Served'
  BY DEF Served, Motors
<1>9. DirectionsAgree'
  BY DEF DirectionsAgree
<1>10. QED BY <1>1, <1>2, <1>3, <1>4, <1>5, <1>7, <1>8, <1>9

-----------------------------------------------------------------------------
(* Writing one byte of a move.                                                  *)

LEMMA SpeedInRange == ASSUME TypeOK PROVE speed \in 0..127
  BY SpeedRange DEF TypeOK

(* The effect of one write on the controllers, by its place j in packet m.       *)
LEMMA WriteByteEffect ==
  ASSUME IInv, WriteByte, NEW m \in Motors, NEW j \in 0..3, sent = 4 * (m - 1) + j
  PROVE  LET p == Packet(dir, speed, m) IN
         /\ j = 0 => bus' = Hold(bus, <<p[1]>>)
         /\ j = 1 => bus' = Hold(bus, <<p[1], p[2]>>)
         /\ j = 2 => bus' = Hold(bus, <<p[1], p[2], p[3]>>)
         /\ j = 3 => bus' = Obey(bus, m, SentCommand(dir, speed)[m])
<1> USE DEF IInv
<1> DEFINE p == Packet(dir, speed, m)
<1>1. speed \in 0..127 /\ dir \in Directions
  BY SpeedInRange DEF TypeOK
<1>2. /\ p[1] = Address(m)
      /\ p[2] \in {0, 1} /\ p[3] \in 0..127 /\ p[4] \in 0..127
      /\ SentCommand(dir, speed)[m] = <<p[2], p[3]>>
      /\ Sums(m, p[2], p[3], p[4])
  BY <1>1, PacketBytes
<1>3. sent + 1 = 4 * (m - 1) + j + 1
  OBVIOUS
<1>4. bus' = Receive(bus, p[j + 1])
  BY <1>3, MoveByteInPacket DEF WriteByte
<1>5. bus \in Receivers /\ bus.ready /\ ~bus.misread
  BY DEF WriteByte, Announced, TypeOK, NothingMisread
<1>6. /\ sent = 4 * (m - 1)     => bus.held = <<>>
      /\ sent = 4 * (m - 1) + 1 => bus.held = <<p[1]>>
      /\ sent = 4 * (m - 1) + 2 => bus.held = <<p[1], p[2]>>
      /\ sent = 4 * (m - 1) + 3 => bus.held = <<p[1], p[2], p[3]>>
  BY DEF HeldPrefix
<1>7. sent = 4 * (m - 1) + j /\ m \in Int
  BY DEF Motors
<1> HIDE DEF p, IInv
<1>8. /\ bus.held = <<>> => Receive(bus, Address(m)) = Hold(bus, <<Address(m)>>)
      /\ bus.held = <<Address(m)>> => Receive(bus, p[2]) = Hold(bus, <<Address(m), p[2]>>)
      /\ bus.held = <<Address(m), p[2]>> =>
             Receive(bus, p[3]) = Hold(bus, <<Address(m), p[2], p[3]>>)
      /\ bus.held = <<Address(m), p[2], p[3]>> =>
             Receive(bus, p[4]) = Obey(bus, m, <<p[2], p[3]>>)
  <2>1. ASSUME NEW c \in {0, 1}, NEW x \in 0..127, NEW k \in 0..127, Sums(m, c, x, k)
        PROVE  /\ bus.held = <<>> => Receive(bus, Address(m)) = Hold(bus, <<Address(m)>>)
               /\ bus.held = <<Address(m)>> => Receive(bus, c) = Hold(bus, <<Address(m), c>>)
               /\ bus.held = <<Address(m), c>> =>
                      Receive(bus, x) = Hold(bus, <<Address(m), c, x>>)
               /\ bus.held = <<Address(m), c, x>> => Receive(bus, k) = Obey(bus, m, <<c, x>>)
    BY <1>5, <2>1, ReceivePacket
  <2>2. QED BY <1>2, <2>1, Zenon
<1>9. j = 0 => bus' = Hold(bus, <<p[1]>>)
  BY <1>2, <1>4, <1>6, <1>7, <1>8
<1>10. j = 1 => bus' = Hold(bus, <<p[1], p[2]>>)
  BY <1>2, <1>4, <1>6, <1>7, <1>8
<1>11. j = 2 => bus' = Hold(bus, <<p[1], p[2], p[3]>>)
  BY <1>2, <1>4, <1>6, <1>7, <1>8
<1>12. j = 3 => bus' = Obey(bus, m, SentCommand(dir, speed)[m])
  BY <1>2, <1>4, <1>6, <1>7, <1>8
<1>13. QED BY <1>9, <1>10, <1>11, <1>12 DEF p

LEMMA WriteByteInvariant ==
  ASSUME IInv, WriteByte
  PROVE  /\ IInv'
         /\ \A m \in Motors : bus'.drive[m] # bus.drive[m]
                                => bus'.drive[m] = SentCommand(dir, speed)[m]
<1> USE DEF IInv
<1>1. /\ sent \in 0..11 /\ sent' = sent + 1 /\ sendBaud = 0
      /\ UNCHANGED <<cbDir, dir, speed, sendBaud, session, led, report>>
  BY DEF WriteByte, Busy, TypeOK, BytesPerMove
<1>2. PICK m \in Motors, j \in 0..3 : sent = 4 * (m - 1) + j
  BY <1>1, BytePosition
<1> DEFINE p == Packet(dir, speed, m)
           q == SentCommand(dir, speed)
<1>3. speed \in 0..127 /\ dir \in Directions
  BY SpeedInRange DEF TypeOK
<1>4. /\ p[1] \in 0..255 /\ p[2] \in 0..255 /\ p[3] \in 0..255
  <2>1. p[1] = Address(m) /\ p[2] \in {0, 1} /\ p[3] \in 0..127
    BY <1>3, PacketBytes
  <2>2. QED BY <2>1 DEF Address, Motors
<1>5. \A n \in Motors : q[n] \in {0, 1} \X (0..127)
  BY <1>3, CommandTable
<1>6. /\ j = 0 => bus' = Hold(bus, <<p[1]>>)
      /\ j = 1 => bus' = Hold(bus, <<p[1], p[2]>>)
      /\ j = 2 => bus' = Hold(bus, <<p[1], p[2], p[3]>>)
      /\ j = 3 => bus' = Obey(bus, m, q[m])
  BY <1>2, WriteByteEffect
<1>7. bus \in Receivers /\ bus.ready /\ ~bus.misread
  BY <1>1 DEF Announced, TypeOK, NothingMisread
<1>8. /\ bus' \in Receivers /\ bus'.ready /\ ~bus'.misread
      /\ j = 0 => bus'.held = <<p[1]>>
      /\ j = 1 => bus'.held = <<p[1], p[2]>>
      /\ j = 2 => bus'.held = <<p[1], p[2], p[3]>>
      /\ j = 3 => bus'.held = <<>>
      /\ bus'.drive = IF j = 3 THEN [bus.drive EXCEPT ![m] = q[m]] ELSE bus.drive
  <2> HIDE DEF p, q
  <2>1. CASE j \in {0, 1, 2}
    <3>1. <<p[1]>> \in Seq(0..255) /\ <<p[1], p[2]>> \in Seq(0..255)
          /\ <<p[1], p[2], p[3]>> \in Seq(0..255)
      BY <1>4
    <3>2. PICK bytes \in Seq(0..255) : /\ bus' = Hold(bus, bytes)
                                       /\ j = 0 => bytes = <<p[1]>>
                                       /\ j = 1 => bytes = <<p[1], p[2]>>
                                       /\ j = 2 => bytes = <<p[1], p[2], p[3]>>
      <4>1. CASE j = 0
        <5>1. <<p[1]>> \in Seq(0..255)
          BY <3>1
        <5> WITNESS <<p[1]>> \in Seq(0..255)
        <5>2. QED BY <1>6, <4>1
      <4>2. CASE j = 1
        <5>1. <<p[1], p[2]>> \in Seq(0..255)
          BY <3>1
        <5> WITNESS <<p[1], p[2]>> \in Seq(0..255)
        <5>2. QED BY <1>6, <4>2
      <4>3. CASE j = 2
        <5>1. <<p[1], p[2], p[3]>> \in Seq(0..255)
          BY <3>1
        <5> WITNESS <<p[1], p[2], p[3]>> \in Seq(0..255)
        <5>2. QED BY <1>6, <4>3
      <4>4. QED BY <2>1, <4>1, <4>2, <4>3
    <3>3. /\ bus' \in Receivers /\ bus'.ready /\ ~bus'.misread
          /\ bus'.held = bytes /\ bus'.drive = bus.drive
      BY <1>7, <3>2, HoldFields
    <3>4. QED BY <2>1, <3>2, <3>3
  <2>2. CASE j = 3
    <3>1. bus' = Obey(bus, m, q[m]) /\ q[m] \in {0, 1} \X (0..127)
      BY <1>5, <1>6, <2>2
    <3>2. QED BY <1>7, <2>2, <3>1, ObeyFields
  <2>3. QED BY <2>1, <2>2
<1>9. Len(bus'.held) <= 3
  <2> DEFINE h == bus'.held
  <2>1. h = <<p[1]>> \/ h = <<p[1], p[2]>> \/ h = <<p[1], p[2], p[3]>> \/ h = <<>>
    BY <1>8
  <2> HIDE DEF p, h
  <2>2. Len(h) <= 3
    BY <2>1, ShortTuples
  <2>3. QED BY <2>2 DEF h
<1>10. TypeOK'
  BY <1>1, <1>8, <1>9 DEF TypeOK, BytesPerMove
<1>11. NothingMisread' /\ Unannounced' /\ Announced' /\ DirectionsAgree'
  BY <1>1, <1>8 DEF NothingMisread, Unannounced, Announced, DirectionsAgree
<1>12. StillWithoutDirection'
  <2> SUFFICES ASSUME cbDir = "none", NEW n \in Motors PROVE bus'.drive[n][2] = 0
    BY <1>1 DEF StillWithoutDirection, AllStopped
  <2>1. dir \in {"stop", "none"} /\ bus.drive[n][2] = 0
    BY DEF DirectionsAgree, StillWithoutDirection, AllStopped
  <2>2. q[m] = <<0, 0>>
    BY <2>1, StopTable
  <2> HIDE DEF q
  <2>3. QED BY <1>7, <1>8, <2>1, <2>2 DEF Receivers
<1>13. HeldPrefix'
  <2> SUFFICES ASSUME NEW n \in Motors
               PROVE  LET r == Packet(dir, speed, n) IN
                      /\ sent' = 4 * (n - 1)     => bus'.held = <<>>
                      /\ sent' = 4 * (n - 1) + 1 => bus'.held = <<r[1]>>
                      /\ sent' = 4 * (n - 1) + 2 => bus'.held = <<r[1], r[2]>>
                      /\ sent' = 4 * (n - 1) + 3 => bus'.held = <<r[1], r[2], r[3]>>
                      /\ sent' = BytesPerMove     => bus'.held = <<>>
    BY <1>1 DEF HeldPrefix, Busy, BytesPerMove
  <2>1. sent' = 4 * (m - 1) + j + 1 /\ m \in 1..3 /\ n \in 1..3
    BY <1>1, <1>2 DEF Motors
  <2>2. CASE n = m
    <3>1. p = Packet(dir, speed, n)
      BY <2>2
    <3> HIDE DEF p
    <3>2. QED BY <1>8, <2>1, <2>2, <3>1 DEF BytesPerMove
  <2>3. CASE n # m
    <3> HIDE DEF p
    <3>1. QED BY <1>8, <2>1, <2>3 DEF BytesPerMove
  <2>4. QED BY <2>2, <2>3
<1>14. Served'
  <2> SUFFICES ASSUME NEW n \in Motors, sent' >= 4 * n PROVE bus'.drive[n] = q[n]
    BY <1>1 DEF Served
  <2>1. sent' = 4 * (m - 1) + j + 1 /\ m \in 1..3 /\ n \in 1..3
    BY <1>1, <1>2 DEF Motors
  <2>2. sent >= 4 * n => bus.drive[n] = q[n]
    BY DEF Served
  <2> HIDE DEF q
  <2>3. QED BY <1>1, <1>7, <1>8, <2>1, <2>2 DEF Receivers, Motors
<1>15. \A n \in Motors : bus'.drive[n] # bus.drive[n] => bus'.drive[n] = q[n]
  <2> HIDE DEF q
  <2>1. QED BY <1>7, <1>8 DEF Receivers
<1>16. QED BY <1>10, <1>11, <1>12, <1>13, <1>14, <1>15

-----------------------------------------------------------------------------
(* Announcing the baud rate: the controllers wake up holding nothing.           *)

LEMMA WriteBaudInvariant == ASSUME IInv, WriteBaud PROVE IInv'
<1> USE DEF IInv
<1>1. /\ sent = 0 /\ bus = IdleReceiver /\ sendBaud' = 0
      /\ UNCHANGED <<cbDir, dir, speed, sent, session, led, report>>
  BY DEF WriteBaud, Busy, Unannounced, BytesPerMove
<1>2. bus' = [IdleReceiver EXCEPT !.ready = TRUE]
  BY <1>1 DEF WriteBaud, Receive, IdleReceiver
<1>3. /\ bus' \in Receivers /\ bus'.ready /\ ~bus'.misread
      /\ bus'.held = <<>> /\ bus'.drive = bus.drive
  <2>1. IdleReceiver \in Receivers /\ ~IdleReceiver.misread /\ IdleReceiver.held = <<>>
    BY DEF IdleReceiver, Receivers, Motors
  <2>2. QED BY <1>1, <1>2, <2>1 DEF Receivers
<1>4. TypeOK'
  BY <1>1, <1>3, ShortTuples DEF TypeOK
<1>5. NothingMisread' /\ Unannounced' /\ Announced' /\ DirectionsAgree'
  BY <1>1, <1>3 DEF NothingMisread, Unannounced, Announced, DirectionsAgree
<1>6. StillWithoutDirection'
  BY <1>1, <1>3 DEF StillWithoutDirection, AllStopped
<1>7. HeldPrefix'
  BY <1>1, <1>3 DEF HeldPrefix, Motors
<1>8. Served'
  BY <1>1, <1>3 DEF Served, Motors
<1>9. QED BY <1>4, <1>5, <1>6, <1>7, <1>8

-----------------------------------------------------------------------------
(* Steps that leave the move, the controllers and the directions alone.         *)

LEMMA AsideInvariant ==
  ASSUME IInv, UNCHANGED <<cbDir, dir, speed, sendBaud, sent, bus>>,
         session' \in {"none", "up", "lost", "closed"},
         session' = "closed" <=> session = "closed",
         led' \in {0, 1}, report' \in Reports
  PROVE  IInv'
<1> USE DEF IInv
<1>1. TypeOK'
  BY DEF TypeOK
<1>2. NothingMisread' /\ Unannounced' /\ Announced' /\ DirectionsAgree'
  BY DEF NothingMisread, Unannounced, Announced, DirectionsAgree, Busy
<1>3. StillWithoutDirection' /\ HeldPrefix' /\ Served'
  BY DEF StillWithoutDirection, AllStopped, HeldPrefix, Served, Busy
<1>4. QED BY <1>1, <1>2, <1>3

LEMMA InductiveStep == IInv /\ [Next]_vars => IInv'
<1> SUFFICES ASSUME IInv, [Next]_vars PROVE IInv'
  OBVIOUS
<1>1. TypeOK /\ DirectionsAgree
  BY DEF IInv
<1>2. CASE Connect
  BY <1>1, <1>2, AsideInvariant DEF Connect, TypeOK
<1>3. CASE \E c \in Digits : RecvSpeed(c)
  <2>1. PICK c \in Digits : RecvSpeed(c)
    BY <1>3
  <2>2. speed' \in {SpeedByte[s + 1] : s \in 0..5}
    BY <2>1 DEF RecvSpeed, Level, change_speed
  <2>3. QED BY <1>1, <2>1, <2>2, StartMoveInvariant
            DEF RecvSpeed, StartMove, TypeOK, DirectionsAgree
<1>4. CASE \E w \in Words : RecvSensor(w)
  <2>1. PICK w \in Words : RecvSensor(w)
    BY <1>4
  <2>2. DirectionOf(w) \in Directions \ {"none"}
    BY DEF DirectionOf, Directions
  <2>3. QED BY <1>1, <2>1, <2>2, StartMoveInvariant DEF RecvSensor, StartMove, TypeOK
<1>5. CASE RecvMalformedSensor
  BY <1>1, <1>5, AsideInvariant DEF RecvMalformedSensor, TypeOK
<1>6. CASE WriteBaud
  BY <1>6, WriteBaudInvariant
<1>7. CASE WriteByte
  BY <1>7, WriteByteInvariant
<1>8. CASE Disconnect
  BY <1>1, <1>8, StartMoveInvariant DEF Disconnect, StartMove, TypeOK, Directions
<1>9. CASE LinkLost
  BY <1>1, <1>9, AsideInvariant DEF LinkLost, TypeOK
<1>10. CASE GenInfoTimer
  <2>1. getSpeed(speed) \in 0..5
    BY DEF getSpeed
  <2>2. report' \in Reports
    BY <1>1, <1>10, <2>1 DEF GenInfoTimer, Reports, TypeOK
  <2>3. QED BY <1>1, <1>10, <2>2, AsideInvariant DEF GenInfoTimer, TypeOK
<1>11. CASE UNCHANGED vars
  BY <1>1, <1>11, AsideInvariant DEF vars, TypeOK
<1>12. QED
  BY <1>2, <1>3, <1>4, <1>5, <1>6, <1>7, <1>8, <1>9, <1>10, <1>11 DEF Next, ReceiveThread

LEMMA Invariance == Spec => []IInv
  BY InitInvariant, InductiveStep, PTL DEF Spec

(* Between two moves all motors are served.                                     *)
LEMMA ServedCommand ==
  ASSUME IInv, ~Busy PROVE bus.drive = [m \in Motors |-> SentCommand(dir, speed)[m]]
<1>1. \A m \in Motors : bus.drive[m] = SentCommand(dir, speed)[m]
  BY DEF IInv, Served, Busy, TypeOK, BytesPerMove, Motors
<1>2. bus.drive \in [Motors -> {0, 1} \X (0..127)]
  BY DEF IInv, TypeOK, Receivers
<1>3. QED BY <1>1, <1>2

-----------------------------------------------------------------------------
(* The theorems.                                                                *)

(* Every variable keeps its type, whatever digits and words arrive.             *)
THEOREM TypeCorrect == Spec => []TypeOK
  BY Invariance, PTL DEF IInv

(* The controllers never drop a byte or refuse a packet of moveRover.            *)
THEOREM NeverMisread == Spec => []NothingMisread
  BY Invariance, PTL DEF IInv

(* When moveRover has returned, all motors execute the direction and speed in    *)
(* force.                                                                       *)
THEOREM CommandTaken == Spec => []CommandInForce
<1>1. IInv => CommandInForce
  BY ServedCommand DEF CommandInForce
<1>2. QED BY <1>1, Invariance, PTL

(* Changing the speed never moves a rover that has no direction yet.            *)
THEOREM NoDirectionNoMotion == Spec => []StillWithoutDirection
  BY Invariance, PTL DEF IInv

(* After the disconnect callback has returned the rover stands.                 *)
THEOREM ClosedStands == Spec => []ClosedSessionStands
<1>1. IInv => ClosedSessionStands
  <2> SUFFICES ASSUME IInv, session = "closed", ~Busy, NEW m \in Motors
               PROVE  bus.drive[m][2] = 0
    BY DEF ClosedSessionStands, AllStopped
  <2>1. bus.drive[m] = SentCommand(dir, speed)[m]
    BY DEF IInv, Served, Busy, TypeOK, BytesPerMove, Motors
  <2>2. dir = "stop"
    BY DEF IInv, DirectionsAgree
  <2>3. QED BY <2>1, <2>2, StopTable
<1>2. QED BY <1>1, Invariance, PTL

(* A motor's command changes only to the one being sent.                        *)
THEOREM NeverTorn == Spec => NoTornCommand
<1> DEFINE Step == \A m \in Motors : bus'.drive[m] # bus.drive[m]
                                        => bus'.drive[m] = SentCommand(dir, speed)[m]
<1>1. IInv /\ [Next]_vars => Step
  <2> SUFFICES ASSUME IInv, [Next]_vars PROVE Step
    OBVIOUS
  <2>1. CASE WriteByte
    BY <2>1, WriteByteInvariant
  <2>2. CASE WriteBaud
    <3>1. bus'.drive = bus.drive
      BY <2>2 DEF WriteBaud, IInv, TypeOK, Receivers, Receive, baud, Unannounced, IdleReceiver
    <3>2. QED BY <3>1
  <2>3. CASE bus' = bus
    BY <2>3
  <2>4. QED
    BY <2>1, <2>2, <2>3 DEF Next, ReceiveThread, Connect, RecvSpeed, RecvSensor,
       RecvMalformedSensor, Disconnect, LinkLost, GenInfoTimer, vars
<1>2. QED BY <1>1, Invariance, PTL DEF Spec, NoTornCommand

(* Only a message that names a direction takes the rover out of a stop.         *)
THEOREM DirectionStarts == Spec => OnlyDirectionStarts
<1> DEFINE Step == (dir \in {"stop", "none"} /\ dir' \notin {"stop", "none"}) => cbDir' # cbDir
<1>1. IInv /\ [Next]_vars => Step
  <2> SUFFICES ASSUME IInv, [Next]_vars, dir \in {"stop", "none"}, dir' \notin {"stop", "none"}
               PROVE  cbDir' # cbDir
    OBVIOUS
  <2>1. session = "up" => dir = cbDir
    BY DEF IInv, DirectionsAgree
  <2>2. QED
    BY <2>1 DEF Next, ReceiveThread, Connect, RecvSpeed, RecvSensor, RecvMalformedSensor,
       WriteBaud, WriteByte, Disconnect, LinkLost, GenInfoTimer, StartMove, vars
<1>2. QED BY <1>1, Invariance, PTL DEF Spec, OnlyDirectionStarts

-----------------------------------------------------------------------------
(* Reports.                                                                     *)

(* The level and direction published are enough to say what every motor executes *)
(* that the current move has served, all of them between two moves.              *)
THEOREM ReportsTrue == Spec => ReportTruth
<1> DEFINE Step == report' # report =>
                      \A m \in Motors : m <= sent \div 4 =>
                          bus.drive[m] = SentCommand(report'.direction,
                                                     change_speed(report'.speed, speed))[m]
<1>1. IInv /\ [Next]_vars => Step
  <2> SUFFICES ASSUME IInv, [Next]_vars, report' # report, NEW m \in Motors, m <= sent \div 4
               PROVE  bus.drive[m] = SentCommand(report'.direction,
                                                 change_speed(report'.speed, speed))[m]
    OBVIOUS
  <2>1. report' = [speed |-> getSpeed(speed), direction |-> dir]
    BY DEF Next, ReceiveThread, Connect, RecvSpeed, RecvSensor, RecvMalformedSensor,
       WriteBaud, WriteByte, Disconnect, LinkLost, GenInfoTimer, vars
  <2>2. change_speed(getSpeed(speed), speed) = speed
    BY LevelRoundTrip DEF IInv, TypeOK
  <2>3. sent >= 4 * m
    BY DEF IInv, TypeOK, BytesPerMove, Motors
  <2>4. bus.drive[m] = SentCommand(dir, speed)[m]
    BY <2>3 DEF IInv, Served
  <2>5. QED BY <2>1, <2>2, <2>4
<1>2. QED BY <1>1, Invariance, PTL DEF Spec, ReportTruth

-----------------------------------------------------------------------------
(* RoverControl implements the safety part of Motion.                           *)

LEMMA InitialMotion == Init => Rover!MotionInit
<1> SUFFICES ASSUME Init PROVE Rover!MotionInit
  OBVIOUS
<1>1. SentCommand(dir, speed) = SentCommand("stop", InitialSpeed)
  BY HaltCommand DEF Init
<1>2. bus.drive = SentCommand("stop", InitialSpeed)
  BY DEF Init, IdleReceiver, SentCommand, Motors
<1>3. sent \div 4 = 3 /\ (session = "closed") = FALSE
  BY DEF Init, BytesPerMove
<1>4. QED BY <1>1, <1>2, <1>3 DEF Rover!MotionInit

LEMMA RestingBetweenMoves ==
  ASSUME TypeOK PROVE ~Busy => Rover!Resting
  BY DEF TypeOK, Busy, BytesPerMove, Rover!Resting

(* A speed or a direction message is the taking of an order.                    *)
LEMMA StartMoveTakes ==
  ASSUME IInv, ~Busy, session # "closed", session' = session, bus' = bus, sent' = 0,
         dir' \in Directions, speed' \in {SpeedByte[s + 1] : s \in 0..5}
  PROVE  Rover!MotionNext
<1>1. Rover!Resting
  BY RestingBetweenMoves DEF IInv
<1>2. SentCommand(dir', speed') \in {SentCommand(e, SpeedByte[s + 1]) : e \in Directions, s \in 0..5}
  BY OrderOf
<1>3. Rover!Take(SentCommand(dir', speed'))
  BY <1>1 DEF Rover!Take
<1>4. QED BY <1>2, <1>3 DEF Rover!MotionNext

(* The fourth byte of a packet serves its motor; the other bytes are invisible.  *)
LEMMA WriteByteServes ==
  ASSUME IInv, WriteByte
  PROVE  Rover!MotionNext \/ UNCHANGED Rover!motionVars
<1>1. /\ sent \in 0..11 /\ sent' = sent + 1
      /\ UNCHANGED <<dir, speed, session>>
  BY DEF IInv, WriteByte, Busy, TypeOK, BytesPerMove
<1>2. PICK m \in Motors, j \in 0..3 : sent = 4 * (m - 1) + j
  BY <1>1, BytePosition
<1>3. sent \div 4 = m - 1 /\ m \in 1..3
  BY <1>2 DEF Motors
<1> DEFINE q == SentCommand(dir, speed)[m]
<1>4. q \in {0, 1} \X (0..127) /\ bus \in Receivers
  BY SpeedInRange, CommandTable DEF IInv, TypeOK
<1>5. CASE j = 3
  <2>1. bus' = Obey(bus, m, q)
    BY <1>2, <1>5, WriteByteEffect
  <2>2. bus'.drive = [bus.drive EXCEPT ![m] = q]
    BY <1>4, <2>1, ObeyFields
  <2>3. sent' \div 4 = m
    BY <1>1, <1>2, <1>5 DEF Motors
  <2> HIDE DEF q
  <2>4. /\ ~Rover!Resting
        /\ sent' \div 4 = sent \div 4 + 1
        /\ bus'.drive = [bus.drive EXCEPT ![sent \div 4 + 1] = q]
    BY <1>3, <2>2, <2>3 DEF Rover!Resting
  <2>5. q = SentCommand(dir, speed)[sent \div 4 + 1]
    BY <1>3 DEF q
  <2>6. Rover!Serve
    BY <1>1, <2>4, <2>5 DEF Rover!Serve
  <2>7. QED BY <2>6 DEF Rover!MotionNext
<1>6. CASE j # 3
  <2>1. sent' \div 4 = sent \div 4
    BY <1>1, <1>2, <1>6 DEF Motors
  <2> DEFINE p == Packet(dir, speed, m)
  <2>2. \/ bus' = Hold(bus, <<p[1]>>)
        \/ bus' = Hold(bus, <<p[1], p[2]>>)
        \/ bus' = Hold(bus, <<p[1], p[2], p[3]>>)
    <3>1. /\ j = 0 => bus' = Hold(bus, <<p[1]>>)
          /\ j = 1 => bus' = Hold(bus, <<p[1], p[2]>>)
          /\ j = 2 => bus' = Hold(bus, <<p[1], p[2], p[3]>>)
      BY <1>2, WriteByteEffect
    <3> HIDE DEF p
    <3>2. QED BY <1>6, <3>1
  <2>3. bus'.drive = bus.drive
    <3>1. \A bytes : Hold(bus, bytes).drive = bus.drive
      BY <1>4 DEF Hold, Receivers
    <3> HIDE DEF p
    <3>2. QED BY <2>2, <3>1
  <2>4. QED BY <1>1, <2>1, <2>3 DEF Rover!motionVars
<1>7. QED BY <1>5, <1>6

(* Twelve bytes amount to a whole order: each step takes an order, serves a motor *)
(* with its part of it, orders the last halt, or is invisible to the motors.      *)
THEOREM ImplementsMotionSafety ==
    Spec => Rover!MotionInit /\ [][Rover!MotionNext]_(Rover!motionVars)
<1>1. IInv /\ [Next]_vars => [Rover!MotionNext]_(Rover!motionVars)
  <2> SUFFICES ASSUME IInv, [Next]_vars
               PROVE  Rover!MotionNext \/ UNCHANGED Rover!motionVars
    OBVIOUS
  <2>1. TypeOK
    BY DEF IInv
  <2>2. CASE \E c \in Digits : RecvSpeed(c)
    <3>1. PICK c \in Digits : RecvSpeed(c)
      BY <2>2
    <3>2. speed' \in {SpeedByte[s + 1] : s \in 0..5}
      BY <3>1 DEF RecvSpeed, Level, change_speed
    <3>3. QED BY <2>1, <3>1, <3>2, StartMoveTakes DEF RecvSpeed, StartMove, TypeOK
  <2>3. CASE \E w \in Words : RecvSensor(w)
    <3>1. PICK w \in Words : RecvSensor(w)
      BY <2>3
    <3>2. DirectionOf(w) \in Directions
      BY DEF DirectionOf, Directions
    <3>3. QED BY <2>1, <3>1, <3>2, StartMoveTakes DEF RecvSensor, StartMove, TypeOK
  <2>4. CASE WriteByte
    BY <2>4, WriteByteServes
  <2>5. CASE Disconnect
    <3>1. SentCommand(dir', speed') = SentCommand("stop", InitialSpeed)
      BY <2>5, HaltCommand DEF Disconnect, StartMove
    <3>2. /\ Rover!Resting
          /\ sent' \div 4 = 0 /\ bus'.drive = bus.drive
          /\ session # "closed" /\ session' = "closed"
      BY <2>1, <2>5, RestingBetweenMoves DEF Disconnect, StartMove
    <3>3. Rover!Close
      BY <3>1, <3>2 DEF Rover!Close
    <3>4. QED BY <3>3 DEF Rover!MotionNext
  <2>6. CASE WriteBaud
    <3>1. bus'.drive = bus.drive
      BY <2>6 DEF WriteBaud, IInv, TypeOK, Receivers, Receive, baud, Unannounced, IdleReceiver
    <3>2. QED BY <2>6, <3>1 DEF WriteBaud, Rover!motionVars
  <2>7. CASE Connect \/ RecvMalformedSensor \/ LinkLost \/ GenInfoTimer \/ UNCHANGED vars
    BY <2>7 DEF Connect, RecvMalformedSensor, LinkLost, GenInfoTimer, vars, Rover!motionVars
  <2>8. QED
    BY <2>2, <2>3, <2>4, <2>5, <2>6, <2>7 DEF Next, ReceiveThread
<1>2. QED BY <1>1, InitialMotion, Invariance, PTL DEF Spec
=============================================================================
