\* Two callers, two accounts; two objects with one identity and one with another.
CONSTANTS
  a1 = a1
  a2 = a2
  p1 = p1
  p2 = p2
  p3 = p3
  c1 = c1
  c2 = c2
  Unset = Unset
  NoAccount = NoAccount
  NoProvider = NoProvider
  Account = {a1, a2}
  Provider = {p1, p2, p3}
  Caller = {c1, c2}
  Sub <- SubOf
  Issuer <- IssuerOf
SPECIFICATION Spec
SYMMETRY Symmetry
INVARIANTS IInv OrphansHaveACause LoginsAreLinked
