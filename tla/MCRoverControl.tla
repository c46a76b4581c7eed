--------------------------- MODULE MCRoverControl ---------------------------
(* RoverControl with one digit of each kind and every direction word. *)
EXTENDS RoverControl

MCDigits == {0, 5, 9}
MCWords == {"forward", "re", "right", "left", "estop"}
=============================================================================
