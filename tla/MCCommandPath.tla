--------------------------- MODULE MCCommandPath ----------------------------
(* Two joints, so that a target can be torn, three positions within the     *)
(* limits and one beyond, and a robot that moves by one position a sample.  *)
EXTENDS CommandPath, TLC

\* Nothing tells one joint from another.
Symmetry == Permutations(Joints)
=============================================================================
