\* Three rotations and any number of changes, two requests at a time.
SPECIFICATION Spec
CONSTANTS
  Token = {t0, t1, t2, t3}
  First = t0
  Page = {p, q}
  Creator = p
  Request = {r1, r2}
  None = None
INVARIANTS
  Succession
  WriterRemains
SYMMETRY Symmetry
\* Everybody may have closed the room.
CHECK_DEADLOCK FALSE
