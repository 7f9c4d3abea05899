---------------------------- MODULE MCTeachMode -----------------------------
(* Home, and three units away from it: a return takes several cycles, and a *)
(* jump of more than one unit shows.                                        *)
EXTENDS TeachMode
=============================================================================
