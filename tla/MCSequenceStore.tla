--------------------------- MODULE MCSequenceStore ---------------------------
(* SequenceStore for TLC; the configuration gives all constants.           *)
EXTENDS SequenceStore
=============================================================================
