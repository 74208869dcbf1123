\* Three processes, over tables that earlier versions may have left.
CONSTANTS
  p1 = p1
  p2 = p2
  p3 = p3
  Process = {p1, p2, p3}
  Earlier <- OlderTables
SPECIFICATION FairSpec
INVARIANTS MInv AllOrNone EndedFindsAll NoCircle
PROPERTIES RunsEnd
