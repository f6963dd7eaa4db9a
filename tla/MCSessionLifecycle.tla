------------------------- MODULE MCSessionLifecycle -------------------------
(* Model-checking instance of SessionLifecycle, with its properties.       *)
EXTENDS SessionLifecycleProps

CONSTANT s1
=============================================================================
