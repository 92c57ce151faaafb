---------------------------- MODULE MCShareLink ----------------------------
(* Instances of ShareLink for TLC. *)
EXTENDS ShareLink

============================================================================
