SPECIFICATION FairSpec
CONSTANTS
  ann = ann  bob = bob  o1 = o1  n1 = n1  l1 = l1  l2 = l2
  Session = {ann, bob}
  Decider = {}
  Editor = {}
  Order = {o1}
  Line = {n1}
  LineOrder <- OneLine
  Location = {l1, l2}
  NoLine = NoLine
  NoOrder = NoOrder
  Nobody = Nobody
  MaxRows = 2
  MaxQty = 1
  MaxLost = 0
  Retries = 1
INVARIANTS
  IssueLogAddsUp
  OneOpenRequest
  NoMoreComesBack
  TypeOK
PROPERTIES
  Answered
