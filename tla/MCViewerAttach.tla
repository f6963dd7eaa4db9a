---------------------------- MODULE MCViewerAttach ----------------------------
(* Model-checking instance of ViewerAttach.                                *)
EXTENDS ViewerAttach

CONSTANTS v1, v2, v3
=============================================================================
