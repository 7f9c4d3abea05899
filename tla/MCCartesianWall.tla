---------------------------- MODULE MCCartesianWall ----------------------------
(* The Cartesian wall as it is: its state space is finite. *)
EXTENDS CartesianWall
=============================================================================
