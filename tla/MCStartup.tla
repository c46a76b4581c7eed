------------------------------ MODULE MCStartup ------------------------------
(* Startup with three boards whose addresses hold every digit in both places. *)
EXTENDS Startup

MCMacs == {<<1, 35, 69, 103, 137, 171>>,            \* 01 23 45 67 89 ab
           <<205, 239, 16, 50, 84, 118>>,           \* cd ef 10 32 54 76
           <<152, 186, 220, 254, 0, 255>>}          \* 98 ba dc fe 00 ff
=============================================================================
