------------------------------ MODULE MCCosTurns ------------------------------
(* The turns of one thread, for TLC.                                        *)
EXTENDS CosTurnsProps
=============================================================================
