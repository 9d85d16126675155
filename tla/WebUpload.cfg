\* Two rows of two files, which may have changed when they are chosen again,
\* two messages, two uploads, and any fault.
SPECIFICATION Spec
CONSTANTS
  Doc = {a, b}
  Version = {v1, v2}
  Message = {m1, m2}
  Upload = {u1, u2}
  None = None
  MaxRows = 2
  MaxSends = 2
  MaxFaults = 1
INVARIANTS
  CancelledStaysHidden
SYMMETRY Symmetry
PROPERTIES
  SentIsPublished
\* The ids are used up and the page has nothing left to do.
CHECK_DEADLOCK FALSE
