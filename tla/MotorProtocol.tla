---------------------------- MODULE MotorProtocol ----------------------------
(* The byte protocol between the rover firmware and its three motor           *)
(* controllers (rover_state.c, rover_state.h), as constant operators.          *)
(*                                                                            *)
(* A drive command is three packets <<address, command, data, checksum>>, one  *)
(* per motor. moveRover writes the bytes and the checksums from two separately *)
(* hand-written tables, so the model keeps two tables as well: SentCommand for *)
(* the bytes, SummedCommand for the operands of the checksums. The receiving   *)
(* side (Receive) is hardware outside the repository: it is modelled from what *)
(* moveRover sends it.                                                         *)
EXTENDS Integers, Sequences

Directions == {"right", "left", "forward", "reverse", "stop", "none"}

Motors == 1..3

baud == 170                                   \* 0xaa, sent once before anything else

Address(m) == 127 + m                         \* motor1 == 0x80 .. motor3 == 0x82

Masked(n) == n % 128                          \* n & checkSumMask

-----------------------------------------------------------------------------
(* Speed levels 0..5 and the data byte each one stands for.                    *)

InitialSpeed == 66                            \* 0x42

SpeedByte == <<0, 17, 34, 50, 66, 82>>        \* 0x00, 0x11, 0x22, 0x32, 0x42, 0x52

\* Fault: the data byte computed from the level, although the table is not linear.
LinearSpeed(s, current) == IF s \in 0..5 THEN 17 * s ELSE current

\* Any other level falls through the switch and leaves the speed as it was.
change_speed(s, current) == IF s \in 0..5 THEN SpeedByte[s + 1] ELSE current

\* Fault: the case of the initial speed forgotten.
SpeedWithoutInitial(speed) ==
    IF \E s \in {0, 1, 2, 3, 5} : SpeedByte[s + 1] = speed
    THEN CHOOSE s \in 0..5 : SpeedByte[s + 1] = speed
    ELSE 0

getSpeed(speed) ==
    IF \E s \in 0..5 : SpeedByte[s + 1] = speed
    THEN CHOOSE s \in 0..5 : SpeedByte[s + 1] = speed
    ELSE 0

-----------------------------------------------------------------------------
(* Reading a payload (client_cbs.c). The topic and the JSON shape decide which      *)
(* branch of the callback runs; these operators are what the value itself becomes.  *)

Level(c) == IF c \in 0..5 THEN c ELSE 0

DirectionOf(w) ==
    CASE w = "forward" -> "forward"
      [] w = "re"      -> "reverse"
      [] w = "right"   -> "right"
      [] w = "left"    -> "left"
      [] OTHER         -> "stop"        \* "stop", "estop" and anything else

-----------------------------------------------------------------------------
(* moveRover: what each motor is told, <<command, data>>.                      *)

\* Fault: the stop case sends the speed to motor 3.
StopForgetsMotor3(d, v) ==
    CASE d = "forward" -> <<<<0, 0>>, <<1, v>>, <<0, v>>>>
      [] d = "left"    -> <<<<0, v>>, <<0, v>>, <<0, v>>>>
      [] d = "right"   -> <<<<1, v>>, <<1, v>>, <<1, v>>>>
      [] d = "reverse" -> <<<<0, 0>>, <<0, v>>, <<1, v>>>>
      [] OTHER         -> <<<<0, 0>>, <<0, 0>>, <<0, v>>>>

SentCommand(d, v) ==
    CASE d = "forward" -> <<<<0, 0>>, <<1, v>>, <<0, v>>>>
      [] d = "left"    -> <<<<0, v>>, <<0, v>>, <<0, v>>>>
      [] d = "right"   -> <<<<1, v>>, <<1, v>>, <<1, v>>>>
      [] d = "reverse" -> <<<<0, 0>>, <<0, v>>, <<1, v>>>>
      [] OTHER         -> <<<<0, 0>>, <<0, 0>>, <<0, 0>>>>

\* Fault: the left case's operands copied from the right case.
LeftSummedAsRight(d, v) ==
    CASE d = "forward" -> <<<<0, 0>>, <<1, v>>, <<0, v>>>>
      [] d \in {"left", "right"} -> <<<<1, v>>, <<1, v>>, <<1, v>>>>
      [] d = "reverse" -> <<<<0, 0>>, <<0, v>>, <<1, v>>>>
      [] OTHER         -> <<<<0, 0>>, <<0, 0>>, <<0, 0>>>>

\* The operands of checksum1..checksum3 at the head of each case.
SummedCommand(d, v) ==
    CASE d = "forward" -> <<<<0, 0>>, <<1, v>>, <<0, v>>>>
      [] d = "left"    -> <<<<0, v>>, <<0, v>>, <<0, v>>>>
      [] d = "right"   -> <<<<1, v>>, <<1, v>>, <<1, v>>>>
      [] d = "reverse" -> <<<<0, 0>>, <<0, v>>, <<1, v>>>>
      [] OTHER         -> <<<<0, 0>>, <<0, 0>>, <<0, 0>>>>

\* Fault: the mask forgotten.
UnmaskedSum(d, v, m) ==
    Address(m) + SummedCommand(d, v)[m][1] + SummedCommand(d, v)[m][2]

Checksum(d, v, m) ==
    Masked(Address(m) + SummedCommand(d, v)[m][1] + SummedCommand(d, v)[m][2])

\* Fault: command and data byte written in the wrong order.
DataBeforeCommand(d, v, m) ==
    <<Address(m), SentCommand(d, v)[m][2], SentCommand(d, v)[m][1], Checksum(d, v, m)>>

\* The four bytes written for motor m.
Packet(d, v, m) ==
    <<Address(m), SentCommand(d, v)[m][1], SentCommand(d, v)[m][2], Checksum(d, v, m)>>

BytesPerMove == 12

\* The k-th of the twelve bytes one call writes (k = 1..12).
MoveByte(d, v, k) == Packet(d, v, ((k - 1) \div 4) + 1)[((k - 1) % 4) + 1]

-----------------------------------------------------------------------------
(* The controllers on the shared serial line. A receiver is a record:           *)
(*   ready    the baud byte has been seen; nothing is understood before         *)
(*   held     the bytes of the packet being collected, at most three            *)
(*   drive    the command each motor is executing                               *)
(*   misread  some byte was dropped or some packet refused                      *)

IdleReceiver ==
    [ready   |-> FALSE,
     held    |-> <<>>,
     drive   |-> [m \in Motors |-> <<0, 0>>],
     misread |-> FALSE]

Receivers ==
    [ready   : BOOLEAN,
     held    : Seq(0..255),
     drive   : [Motors -> {0, 1} \X (0..127)],
     misread : BOOLEAN]

Hold(r, bytes) == [r EXCEPT !.held = bytes]

Misread(r) == [r EXCEPT !.misread = TRUE]

\* Motor m takes up a command.
Obey(r, m, command) == [r EXCEPT !.held = <<>>, !.drive[m] = command]

\* The packet of three held bytes is complete with checksum b.
Complete(r, b) ==
    IF /\ b = Masked(r.held[1] + r.held[2] + r.held[3])
       /\ r.held[1] - 127 \in Motors
    THEN Obey(r, r.held[1] - 127, <<r.held[2], r.held[3]>>)
    ELSE Misread(Hold(r, <<>>))

\* An address always starts a packet; any other byte continues one.
Receive(r, b) ==
    IF ~r.ready
    THEN IF b = baud THEN [r EXCEPT !.ready = TRUE] ELSE Misread(r)
    ELSE IF b >= 128
    THEN IF r.held = <<>> THEN Hold(r, <<b>>) ELSE Misread(Hold(r, <<b>>))
    ELSE CASE Len(r.held) = 0      -> Misread(r)
           [] Len(r.held) \in 1..2 -> Hold(r, Append(r.held, b))
           [] Len(r.held) = 3      -> Complete(r, b)
=============================================================================
