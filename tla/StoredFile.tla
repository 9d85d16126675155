------------------------------ MODULE StoredFile ------------------------------
(***************************************************************************)
(* What the file store promises to the readers of a room, without          *)
(* directories, chunks, locks or crashes.  An id is drawn once, collects   *)
(* bytes while it is open, is published with all of its bytes in one step  *)
(* or is given up, keeps exactly these bytes while it is stored, and once  *)
(* gone never comes back.  Every other event of the server is invisible.   *)
(***************************************************************************)
CONSTANTS File, Value, None

VARIABLES stage, bytes

Stages == {"unborn", "open", "stored", "gone"}

Init ==
  /\ stage = [f \in File |-> "unborn"]
  /\ bytes = [f \in File |-> None]

Create(f) ==
  /\ stage[f] = "unborn"
  /\ stage' = [stage EXCEPT ![f] = "open"]
  /\ UNCHANGED bytes

Publish(f) ==
  /\ stage[f] = "open"
  /\ stage' = [stage EXCEPT ![f] = "stored"]
  /\ \E v \in Value : bytes' = [bytes EXCEPT ![f] = v]

(* One transaction may give up many uploads and delete many files.         *)
Drop(S) ==
  /\ \A f \in S : stage[f] \in {"open", "stored"}
  /\ stage' = [f \in File |-> IF f \in S THEN "gone" ELSE stage[f]]
  /\ bytes' = [f \in File |-> IF f \in S THEN None ELSE bytes[f]]

Next ==
  \/ \E f \in File : Create(f) \/ Publish(f)
  \/ \E S \in SUBSET File : Drop(S)

Spec == Init /\ [][Next]_<<stage, bytes>>
=============================================================================
