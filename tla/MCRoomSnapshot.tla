---------------------------- MODULE MCRoomSnapshot ----------------------------
(* Instances of RoomSnapshot for TLC.                                      *)
EXTENDS RoomSnapshot, TLC

Symmetry == Permutations(File)
=============================================================================
