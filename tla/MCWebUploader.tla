---------------------------- MODULE MCWebUploader ----------------------------
(* Instances of WebUploader for TLC.                                       *)
EXTENDS WebUploader, TLC

(* Ids are drawn in one order, files and contents are alike.               *)
Symmetry == Permutations(Doc) \cup Permutations(Version)
=============================================================================
