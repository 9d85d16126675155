-------------------------- MODULE MCWriteCapability --------------------------
(* Instances of WriteCapability for TLC.                                   *)
EXTENDS WriteCapability, TLC

Symmetry == Permutations(Token \ {First}) \cup Permutations(Request)
=============================================================================
