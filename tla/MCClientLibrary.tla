-------------------------- MODULE MCClientLibrary --------------------------
(* A small instance of ClientLibrary for TLC. *)
EXTENDS ClientLibrary, TLC

CONSTANTS s1, s2, s3, t1, t2

Symmetric == Permutations({s1, s2}) \cup Permutations({t1, t2})
=============================================================================
