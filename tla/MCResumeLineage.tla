--------------------------- MODULE MCResumeLineage ---------------------------
(* Small instances of the resume lineage for TLC. *)
EXTENDS ResumeLineageProps
=============================================================================
