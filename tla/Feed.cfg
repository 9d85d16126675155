\* One page with two questions at a time, broken connections and restarts: no
\* wake-up is lost, and what the page heard of, it asks for.
SPECIFICATION FeedFairSpec
CONSTANTS
  Client = {c1}
  Slot = {s1, s2}
  Nothing = Nothing
  Asked = Asked
  MaxVersion = 3
  MaxFaults = 2
INVARIANTS
  NoLostWakeup
PROPERTIES
  ChangesAreAskedFor
