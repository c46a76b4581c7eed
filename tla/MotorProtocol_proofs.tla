------------------------ MODULE MotorProtocol_proofs ------------------------
(* What the protocol tables say and what the controllers make of well-formed     *)
(* bytes, for every direction, speed and motor: the facts that the proofs about   *)
(* RoverControl and RoverSystem share.                                           *)
EXTENDS MotorProtocol, SequenceTheorems, TLAPS

-----------------------------------------------------------------------------
(* Facts about the protocol tables.                                             *)

(* The packet <<Address(m), c, x, k>> carries the right checksum.                *)
Sums(m, c, x, k) == k = Masked(Address(m) + c + x)

LEMMA SpeedRange == ASSUME NEW s \in 0..5 PROVE SpeedByte[s + 1] \in 0..127
  BY DEF SpeedByte

(* Whatever the direction, a motor is sent a command of one bit and a data byte  *)
(* below 128, and the checksum table covers exactly the bytes that are sent.     *)
LEMMA CommandTable ==
  ASSUME NEW d \in Directions, NEW v \in 0..127, NEW m \in Motors
  PROVE  /\ SentCommand(d, v)[m] \in {0, 1} \X (0..127)
         /\ SummedCommand(d, v)[m] = SentCommand(d, v)[m]
<1>1. CASE d = "forward" BY <1>1 DEF SentCommand, SummedCommand, Motors
<1>2. CASE d = "left"    BY <1>2 DEF SentCommand, SummedCommand, Motors
<1>3. CASE d = "right"   BY <1>3 DEF SentCommand, SummedCommand, Motors
<1>4. CASE d = "reverse" BY <1>4 DEF SentCommand, SummedCommand, Motors
<1>5. CASE d \in {"stop", "none"} BY <1>5 DEF SentCommand, SummedCommand, Motors
<1>6. QED BY <1>1, <1>2, <1>3, <1>4, <1>5 DEF Directions

(* "stop" and "none" send every motor data 0.                                   *)
LEMMA StopTable ==
  ASSUME NEW d \in {"stop", "none"}, NEW v, NEW m \in Motors
  PROVE  SentCommand(d, v)[m] = <<0, 0>>
  BY DEF SentCommand, Motors

LEMMA ChecksumRange ==
  ASSUME NEW d \in Directions, NEW v \in 0..127, NEW m \in Motors
  PROVE  /\ Checksum(d, v, m) \in 0..127
         /\ Checksum(d, v, m) = Masked(Address(m) + SentCommand(d, v)[m][1]
                                                  + SentCommand(d, v)[m][2])
<1>1. SentCommand(d, v)[m] \in {0, 1} \X (0..127) /\ SummedCommand(d, v)[m] = SentCommand(d, v)[m]
  BY CommandTable
<1>2. SentCommand(d, v)[m][1] \in {0, 1} /\ SentCommand(d, v)[m][2] \in 0..127
  BY <1>1
<1>3. \A a \in Int : a % 128 \in 0..127
  OBVIOUS
<1>4. Address(m) + SentCommand(d, v)[m][1] + SentCommand(d, v)[m][2] \in Int
  BY <1>2 DEF Address, Motors
<1>5. QED BY <1>1, <1>3, <1>4 DEF Checksum, Masked

(* Counting the twelve bytes by packet and by place in the packet.              *)
LEMMA BytePosition ==
  ASSUME NEW k \in 0..11
  PROVE  \E m \in Motors, j \in 0..3 : k = 4 * (m - 1) + j
<1>1. k \div 4 \in 0..2 /\ k % 4 \in 0..3 /\ k = 4 * (k \div 4) + (k % 4)
  OBVIOUS
<1>2. (k \div 4) + 1 \in Motors /\ k = 4 * (((k \div 4) + 1) - 1) + (k % 4)
  BY <1>1 DEF Motors
<1>3. QED BY <1>1, <1>2

LEMMA MoveByteInPacket ==
  ASSUME NEW d, NEW v, NEW m \in Motors, NEW j \in 0..3
  PROVE  MoveByte(d, v, 4 * (m - 1) + j + 1) = Packet(d, v, m)[j + 1]
<1>1. (((4 * (m - 1) + j + 1) - 1) \div 4) + 1 = m
  BY DEF Motors
<1>2. (((4 * (m - 1) + j + 1) - 1) % 4) + 1 = j + 1
  BY DEF Motors
<1>3. QED BY <1>1, <1>2 DEF MoveByte

-----------------------------------------------------------------------------
(* What the controllers make of one well-formed packet, byte by byte.           *)

LEMMA ReceiveAddress ==
  ASSUME NEW r \in Receivers, NEW m \in Motors, r.ready, r.held = <<>>
  PROVE  Receive(r, Address(m)) = Hold(r, <<Address(m)>>)
<1>1. Address(m) >= 128
  BY DEF Address, Motors
<1>2. QED BY <1>1 DEF Receive

LEMMA ReceiveOperand ==
  ASSUME NEW r \in Receivers, NEW b \in 0..127, r.ready, r.held # <<>>, Len(r.held) \in 1..2
  PROVE  Receive(r, b) = Hold(r, Append(r.held, b))
<1>1. ~(b >= 128) /\ b < 128 /\ r.held # <<>> /\ Len(r.held) # 3
  OBVIOUS
<1>2. QED BY <1>1 DEF Receive

LEMMA ReceiveChecksum ==
  ASSUME NEW r \in Receivers, NEW m \in Motors, r.ready,
         Len(r.held) = 3, r.held # <<>>, r.held[1] = Address(m),
         NEW b \in 0..127, Sums(m, r.held[2], r.held[3], b)
  PROVE  Receive(r, b) = Obey(r, m, <<r.held[2], r.held[3]>>)
<1>1. ~(b >= 128) /\ b < 128
  OBVIOUS
<1>2. Receive(r, b) = Complete(r, b)
  BY <1>1 DEF Receive
<1>3. r.held[1] - 127 = m
  BY DEF Address, Motors
<1>4. b = Masked(r.held[1] + r.held[2] + r.held[3])
  BY DEF Sums
<1>5. Complete(r, b) = Obey(r, r.held[1] - 127, <<r.held[2], r.held[3]>>)
  BY <1>3, <1>4 DEF Complete
<1>6. QED BY <1>2, <1>3, <1>5

-----------------------------------------------------------------------------
(* Whole packets.                                                              *)

LEMMA PacketBytes ==
  ASSUME NEW d \in Directions, NEW v \in 0..127, NEW m \in Motors
  PROVE  LET p == Packet(d, v, m) IN
         /\ p[1] = Address(m)
         /\ p[2] \in {0, 1} /\ p[3] \in 0..127 /\ p[4] \in 0..127
         /\ SentCommand(d, v)[m] = <<p[2], p[3]>>
         /\ Sums(m, p[2], p[3], p[4])
<1> DEFINE q == SentCommand(d, v)[m]
<1>1. q \in {0, 1} \X (0..127)
  BY CommandTable
<1>2. q = <<q[1], q[2]>> /\ q[1] \in {0, 1} /\ q[2] \in 0..127
  BY <1>1
<1>3. Checksum(d, v, m) \in 0..127 /\ Checksum(d, v, m) = Masked(Address(m) + q[1] + q[2])
  BY ChecksumRange
<1>4. Packet(d, v, m) = <<Address(m), q[1], q[2], Checksum(d, v, m)>>
  BY DEF Packet
<1> HIDE DEF q
<1>5. QED BY <1>2, <1>3, <1>4 DEF q, Sums

LEMMA AppendToOne ==
  ASSUME NEW a \in Int, NEW b \in Int PROVE Append(<<a>>, b) = <<a, b>>
<1>1. <<a>> \in Seq(Int) /\ <<a, b>> \in Seq(Int) /\ Append(<<a>>, b) \in Seq(Int)
  OBVIOUS
<1>2. Len(Append(<<a>>, b)) = 2 /\ Len(<<a, b>>) = 2
  OBVIOUS
<1>3. \A i \in 1..2 : Append(<<a>>, b)[i] = <<a, b>>[i]
  OBVIOUS
<1>4. QED BY <1>1, <1>2, <1>3, SeqEqual

LEMMA AppendToTwo ==
  ASSUME NEW a \in Int, NEW b \in Int, NEW c \in Int PROVE Append(<<a, b>>, c) = <<a, b, c>>
<1>1. <<a, b>> \in Seq(Int) /\ <<a, b, c>> \in Seq(Int) /\ Append(<<a, b>>, c) \in Seq(Int)
  OBVIOUS
<1>2. Len(Append(<<a, b>>, c)) = 3 /\ Len(<<a, b, c>>) = 3
  OBVIOUS
<1>3. \A i \in 1..3 : Append(<<a, b>>, c)[i] = <<a, b, c>>[i]
  OBVIOUS
<1>4. QED BY <1>1, <1>2, <1>3, SeqEqual

(* A whole packet, by what the controllers hold so far.                         *)
LEMMA ReceivePacket ==
  ASSUME NEW r \in Receivers, r.ready, ~r.misread,
         NEW m \in Motors, NEW c \in {0, 1}, NEW x \in 0..127,
         NEW k \in 0..127, Sums(m, c, x, k)
  PROVE  /\ r.held = <<>> =>
              Receive(r, Address(m)) = Hold(r, <<Address(m)>>)
         /\ r.held = <<Address(m)>> =>
              Receive(r, c) = Hold(r, <<Address(m), c>>)
         /\ r.held = <<Address(m), c>> =>
              Receive(r, x) = Hold(r, <<Address(m), c, x>>)
         /\ r.held = <<Address(m), c, x>> =>
              Receive(r, k) = Obey(r, m, <<c, x>>)
<1>1. ASSUME r.held = <<>>
      PROVE  Receive(r, Address(m)) = Hold(r, <<Address(m)>>)
  BY <1>1, ReceiveAddress
<1>2. ASSUME r.held = <<Address(m)>>
      PROVE  Receive(r, c) = Hold(r, <<Address(m), c>>)
  <2>1. Address(m) \in Int /\ c \in 0..127
    BY DEF Address, Motors
  <2>2. Append(r.held, c) = <<Address(m), c>>
    BY <1>2, <2>1, AppendToOne
  <2>3. Len(r.held) \in 1..2 /\ r.held # <<>>
    BY <1>2
  <2>4. QED BY <2>1, <2>2, <2>3, ReceiveOperand
<1>3. ASSUME r.held = <<Address(m), c>>
      PROVE  Receive(r, x) = Hold(r, <<Address(m), c, x>>)
  <2>1. Address(m) \in Int
    BY DEF Address, Motors
  <2>2. Append(r.held, x) = <<Address(m), c, x>>
    BY <1>3, <2>1, AppendToTwo
  <2>3. Len(r.held) \in 1..2 /\ r.held # <<>>
    BY <1>3
  <2>4. QED BY <2>2, <2>3, ReceiveOperand
<1>4. ASSUME r.held = <<Address(m), c, x>>
      PROVE  Receive(r, k) = Obey(r, m, <<c, x>>)
  <2>1. /\ Len(r.held) = 3 /\ r.held # <<>>
        /\ r.held[1] = Address(m) /\ r.held[2] = c /\ r.held[3] = x
    BY <1>4
  <2>2. Sums(m, r.held[2], r.held[3], k)
    BY <2>1
  <2>3. Receive(r, k) = Obey(r, m, <<r.held[2], r.held[3]>>)
    BY <2>1, <2>2, ReceiveChecksum
  <2>4. QED BY <2>1, <2>3
<1>5. QED BY <1>1, <1>2, <1>3, <1>4

LEMMA ShortTuples ==
  ASSUME NEW a, NEW b, NEW c
  PROVE  Len(<<>>) <= 3 /\ Len(<<a>>) <= 3 /\ Len(<<a, b>>) <= 3 /\ Len(<<a, b, c>>) <= 3
  OBVIOUS

LEMMA HoldFields ==
  ASSUME NEW r \in Receivers, NEW bytes \in Seq(0..255)
  PROVE  /\ Hold(r, bytes) \in Receivers
         /\ Hold(r, bytes).ready = r.ready /\ Hold(r, bytes).misread = r.misread
         /\ Hold(r, bytes).held = bytes /\ Hold(r, bytes).drive = r.drive
  BY DEF Receivers, Hold

LEMMA ObeyFields ==
  ASSUME NEW r \in Receivers, NEW m \in Motors, NEW command \in {0, 1} \X (0..127)
  PROVE  LET g == Obey(r, m, command) IN
         /\ g \in Receivers
         /\ g.ready = r.ready /\ g.misread = r.misread
         /\ g.held = <<>> /\ g.drive = [r.drive EXCEPT ![m] = command]
<1> DEFINE drive == [r.drive EXCEPT ![m] = command]
<1>1. drive \in [Motors -> {0, 1} \X (0..127)] /\ <<>> \in Seq(0..255)
  BY DEF Receivers
<1>2. Obey(r, m, command) = [r EXCEPT !.held = <<>>, !.drive = drive]
  BY DEF Receivers, Obey
<1> HIDE DEF drive
<1>3. QED BY <1>1, <1>2 DEF Receivers, drive

-----------------------------------------------------------------------------
(* Speeds and orders.                                                          *)

(* The level a data byte stands for leads back to that byte.                    *)
LEMMA LevelRoundTrip ==
  ASSUME NEW v \in {SpeedByte[s + 1] : s \in 0..5}
  PROVE  getSpeed(v) \in 0..5 /\ change_speed(getSpeed(v), v) = v
<1>1. \E s \in 0..5 : SpeedByte[s + 1] = v
  OBVIOUS
<1>2. getSpeed(v) = CHOOSE s \in 0..5 : SpeedByte[s + 1] = v
  BY <1>1 DEF getSpeed
<1>3. getSpeed(v) \in 0..5 /\ SpeedByte[getSpeed(v) + 1] = v
  BY <1>1, <1>2
<1>4. QED BY <1>3 DEF change_speed

LEMMA HaltCommand ==
  ASSUME NEW d \in {"stop", "none"}, NEW v
  PROVE  SentCommand(d, v) = SentCommand("stop", InitialSpeed)
  BY DEF SentCommand

LEMMA OrderOf ==
  ASSUME NEW d \in Directions, NEW v \in {SpeedByte[s + 1] : s \in 0..5}
  PROVE  SentCommand(d, v) \in {SentCommand(e, SpeedByte[s + 1]) : e \in Directions, s \in 0..5}
<1>1. PICK s \in 0..5 : v = SpeedByte[s + 1]
  OBVIOUS
<1>2. QED BY <1>1

(* The commands of the three motors, as one order.                              *)
LEMMA CommandIsOrder ==
  ASSUME NEW d \in Directions, NEW v \in 0..127
  PROVE  SentCommand(d, v) \in [Motors -> {0, 1} \X (0..127)]
<1>1. CASE d = "forward" BY <1>1 DEF SentCommand, Motors
<1>2. CASE d = "left"    BY <1>2 DEF SentCommand, Motors
<1>3. CASE d = "right"   BY <1>3 DEF SentCommand, Motors
<1>4. CASE d = "reverse" BY <1>4 DEF SentCommand, Motors
<1>5. CASE d \in {"stop", "none"} BY <1>5 DEF SentCommand, Motors
<1>6. QED BY <1>1, <1>2, <1>3, <1>4, <1>5 DEF Directions
=============================================================================
