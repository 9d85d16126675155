\* One upload of an encrypted room, two overlapping requests: every interleaving
\* of retries, completions and deletions with crashes, errors and cleanup passes.
SPECIFICATION FairSpec
CONSTANTS
  e1 = e1
  s1 = s1
  Upload = {u1}
  Chunk = {1, 2}
  Body = {b1, b2}
  Entry = {e1}
  Encrypted = {u1}
  WrongNonce = {}
  Request = {r1, r2}
  Stripe = {s1}
  EntryOf <- MCEntryOf
  StripeOf <- MCStripeOf
  Room = Room
  None = None
  MaxRequests = 5
  MaxFaults = 2
INVARIANTS
  StoredFileIntact
  RecordedChunkKept
  LeftoverObjectAgrees
  NoFalseMissing
  SweptClean
PROPERTIES
  ImplementsPromise
  OrphansSwept
