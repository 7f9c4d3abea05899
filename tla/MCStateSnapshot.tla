-------------------------- MODULE MCStateSnapshot ---------------------------
(* Two readers, snapshots of two words, three publish() calls: enough for   *)
(* every slot to change owner and for a publish() to fall between any two   *)
(* steps of a reader.                                                       *)
EXTENDS StateSnapshot
=============================================================================
