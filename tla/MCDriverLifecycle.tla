------------------------- MODULE MCDriverLifecycle --------------------------
(* Two activations: the second meets whatever the first left behind.        *)
EXTENDS DriverLifecycle
=============================================================================
