--------------------------- MODULE MCUploadLifecycle ---------------------------
(* Instances of UploadLifecycle for TLC.                                   *)
EXTENDS UploadLifecycle

CONSTANTS e1, s1

MCEntryOf == [u \in Upload |-> e1]
MCStripeOf == [u \in Upload |-> s1]
=============================================================================
