--------------------------- MODULE MCTerminalLife ---------------------------
(* Instances of TerminalLife for TLC. *)
EXTENDS TerminalLife
=============================================================================
