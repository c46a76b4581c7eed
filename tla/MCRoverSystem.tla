---------------------------- MODULE MCRoverSystem ----------------------------
(* RoverSystem with queues of one entry, a stop, a movement and a speed. *)
EXTENDS RoverSystem

MCDigits == {0}
MCWords == {"forward", "estop"}
=============================================================================
