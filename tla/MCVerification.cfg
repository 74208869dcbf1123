\* Two callers in all three forms, three rows.
CONSTANTS
  c1 = c1
  c2 = c2
  Caller = {c1, c2}
  MaxRow = 3
  Forms = {"direct", "tx", "mixed"}
SPECIFICATION Spec
SYMMETRY Symmetry
INVARIANTS VInv OneRowPerCaller
PROPERTIES StoreSpec
CHECK_DEADLOCK FALSE
