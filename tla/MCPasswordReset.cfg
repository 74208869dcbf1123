\* Two callers in all three forms, one session, two tickets.
CONSTANTS
  c1 = c1
  c2 = c2
  s1 = s1
  Caller = {c1, c2}
  Session = {s1}
  MaxTicket = 2
  Forms = {"direct", "tx", "mixed"}
SPECIFICATION Spec
SYMMETRY Symmetry
INVARIANTS TInv OneTicketPerCaller SpentAreGone SpendingCloses
PROPERTIES NilCloses StoreSpec
CHECK_DEADLOCK FALSE
