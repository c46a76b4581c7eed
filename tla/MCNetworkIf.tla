---------------------------- MODULE MCNetworkIf ----------------------------
(* NetworkIf with two polls and an access point that is lost up to twice. *)
EXTENDS NetworkIf
=============================================================================
