SPECIFICATION BomSpec
CONSTANTS
  ann = ann  bob = bob  n1 = n1  n2 = n2 
  Person = {ann, bob}
  Item = {n1, n2}
  Listed = {n1}
  MaxEntry = 1
  MaxFigure = 2
  MaxRequests = 4
SYMMETRY Symmetry
INVARIANTS
  BomTypeOK
  LogIsExplained
PROPERTIES
  HistoryKeepsItsLine
CHECK_DEADLOCK FALSE
