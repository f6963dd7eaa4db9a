---------------------------- MODULE MCOutputStream ----------------------------
(* Model-checking instance of OutputStream.                                *)
EXTENDS OutputStream

CONSTANTS v1, v2
=============================================================================
