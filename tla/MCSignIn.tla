------------------------------ MODULE MCSignIn ------------------------------
(* SignIn for TLC. *)
EXTENDS SignIn, TLC

MCStamp == 0..MaxEnrTime
Interchangeable == Permutations(Req) \cup Permutations(EnrSub) \cup Permutations(EnrSecret)
=============================================================================
