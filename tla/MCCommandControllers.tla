-------------------------- MODULE MCCommandControllers --------------------------
(* Each of the four controllers, with three messages. *)
EXTENDS CommandControllers
=============================================================================
