\* Two callers, two sessions of one account; callers commit before they Exec.
CONSTANTS
  s1 = s1
  s2 = s2
  a1 = a1
  c1 = c1
  c2 = c2
  Account = {a1}
  Owner <- OneOwner
  Session = {s1, s2}
  Caller = {c1, c2}
  CommitFirst = TRUE
SPECIFICATION Spec
SYMMETRY Symmetry
INVARIANTS IInv AcceptedHasRow RevokedEntryHasRevokedRow ClosedStayRevoked StaleHasCause
PROPERTIES RevocationIsFinal StoreSpec
