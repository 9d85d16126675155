\* Two requests at once; no more than three channels can be in use.
SPECIFICATION ReadyFairSpec
CONSTANTS
  Request = {r1, r2}
  Probe = {p1, p2, p3}
  NoChannel = NoChannel
INVARIANTS
  OneProbe
  NobodyForgotten
PROPERTIES
  AnsweredForCause
  EveryAnswer
