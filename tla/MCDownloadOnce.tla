---------------------------- MODULE MCDownloadOnce ----------------------------
(* Instances of DownloadOnce for TLC.                                      *)
EXTENDS DownloadOnce, TLC

CONSTANTS f1, f2

(* One file of a room of each kind.                                        *)
MCFile == {f1, f2}
MCEncrypted == {f2}
=============================================================================
