\* Three callers in transactions, c3 without a pipeline; two sessions, in either order.
CONSTANTS
  c1 = c1
  c2 = c2
  c3 = c3
  s1 = s1
  s2 = s2
  Caller = {c1, c2, c3}
  Session = {s1, s2}
  Depth = 2
  Listings <- BothOrders
  Listed = {{s1, s2}}
  Forms <- OneWithoutPipeline
SPECIFICATION FairSpec
INVARIANTS LInv DeadlocksHaveCause UnseenHaveCause
PROPERTIES CallsEnd
