\* Two direct callers, one session: a confirmation tried again.
CONSTANTS
  c1 = c1
  c2 = c2
  s1 = s1
  Caller = {c1, c2}
  Session = {s1}
  MaxTicket = 2
  Forms = {"direct"}
  a1 = a1
  a2 = a2
  Address = {a1, a2}
  Registered = a1
SPECIFICATION ESpec
SYMMETRY Symmetry
INVARIANTS ConfirmedAreClosed
CHECK_DEADLOCK FALSE
