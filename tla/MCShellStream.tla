--------------------------- MODULE MCShellStream ---------------------------
(* ShellStream for TLC: the clients are interchangeable. *)
EXTENDS ShellStream, TLC

ClientSymmetry == Permutations(Client)
============================================================================
