------------------------------ MODULE MCWiggumRun ------------------------------
(* One run, for TLC.                                                        *)
EXTENDS WiggumRunProps
=============================================================================
