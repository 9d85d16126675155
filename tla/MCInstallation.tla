---------------------------- MODULE MCInstallation ----------------------------
(* Instances of Installation for TLC.                                      *)
EXTENDS Installation

(* The second release brings a new schema and is broken, the third one is  *)
(* not.                                                                    *)
MCSchemaOf == <<6, 7, 7>>
=============================================================================
