\* One page, no failure at all: a change between its first answer and its
\* subscription.
SPECIFICATION FeedFairSpec
CONSTANTS
  Client = {c1}
  Slot = {s1}
  Nothing = Nothing
  Asked = Asked
  MaxVersion = 1
  MaxFaults = 0
PROPERTIES
  PagesCatchUp
