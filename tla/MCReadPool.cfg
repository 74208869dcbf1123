\* Three callers on a read pool of two connections, of its own or of the transactions too.
CONSTANTS
  c1 = c1
  c2 = c2
  c3 = c3
  k1 = k1
  k2 = k2
  Caller = {c1, c2, c3}
  Conn = {k1, k2}
SPECIFICATION Spec
INVARIANTS PInv
PROPERTIES Served
