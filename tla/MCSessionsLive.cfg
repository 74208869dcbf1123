\* Two callers, one session: liveness.
CONSTANTS
  s1 = s1
  s2 = s2
  a1 = a1
  c1 = c1
  c2 = c2
  Account = {a1}
  Owner <- OneOwner
  Session = {s1}
  Caller = {c1, c2}
  CommitFirst = TRUE
SPECIFICATION Spec
PROPERTIES StaleEnds
