\* Two callers, two accounts, two usernames.
CONSTANTS
  a1 = a1
  a2 = a2
  u1 = u1
  u2 = u2
  c1 = c1
  c2 = c2
  NoName = NoName
  NoAccount = NoAccount
  Account = {a1, a2}
  Username = {u1, u2}
  Caller = {c1, c2}
SPECIFICATION Spec
SYMMETRY Symmetry
INVARIANTS IInv FetchedHasTheName ReferenceFollowsHolder LingeringHasCause
PROPERTIES StoreSpec
