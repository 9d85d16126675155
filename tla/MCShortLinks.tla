----------------------------- MODULE MCShortLinks -----------------------------
(* Instances of ShortLinks for TLC.                                        *)
EXTENDS ShortLinks, TLC

CONSTANTS l1, l2, l3

MCSingle == {l1, l2}

Symmetry == Permutations(Code) \cup Permutations(Creator) \cup Permutations(Client)
=============================================================================
