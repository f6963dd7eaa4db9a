-------------------------- MODULE MCLauncherSessions --------------------------
(* The launcher model, for TLC: one launcher that reconnects, one that does not. *)
EXTENDS LauncherSessionsProps

CONSTANTS l1, l2

Conns2And1 == [l \in {l1, l2} |-> IF l = l1 THEN 2 ELSE 1]
=============================================================================
