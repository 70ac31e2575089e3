--------------------------- MODULE MCSystemConfig ---------------------------
(* Small instances of SystemConfig for TLC.                                *)
EXTENDS SystemConfig

=============================================================================
