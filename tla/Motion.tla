------------------------------- MODULE Motion -------------------------------
(* What the firmware promises of the motors, whatever bytes carry it. One order    *)
(* at a time is taken, and every motor is served with its part of that order before *)
(* the next order is taken. The last order of all is the halt that closes the       *)
(* session: none is taken after it.                                                 *)
EXTENDS Naturals

CONSTANTS NumMotors,
          Orders,           \* an order gives each motor a command
          Halt              \* the order that stops every motor

VARIABLES order,            \* the order taken last
          served,           \* motors that have their part of it: 1 .. served
          drive,            \* the command each motor executes
          closed            \* the halt that ends the session has been ordered

motionVars == <<order, served, drive, closed>>

Resting == served = NumMotors

MotionInit ==
    /\ order = Halt /\ served = NumMotors
    /\ drive = Halt
    /\ closed = FALSE

Take(o) ==
    /\ Resting /\ ~closed
    /\ order' = o /\ served' = 0
    /\ UNCHANGED <<drive, closed>>

Close ==
    /\ Resting /\ ~closed
    /\ order' = Halt /\ served' = 0
    /\ closed' = TRUE
    /\ UNCHANGED drive

Serve ==
    /\ ~Resting
    /\ served' = served + 1
    /\ drive' = [drive EXCEPT ![served + 1] = order[served + 1]]
    /\ UNCHANGED <<order, closed>>

MotionNext == (\E o \in Orders : Take(o)) \/ Close \/ Serve

MotionSpec == MotionInit /\ [][MotionNext]_motionVars /\ WF_motionVars(Serve)
=============================================================================
