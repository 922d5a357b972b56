SPECIFICATION Spec
CONSTANTS
  ann = ann  bob = bob  o1 = o1  n1 = n1  l1 = l1  l2 = l2
  Session = {ann, bob}
  Decider = {ann}
  Editor = {}
  Order = {o1}
  Line = {}
  LineOrder <- NoLines
  Location = {l1}
  NoLine = NoLine
  NoOrder = NoOrder
  Nobody = Nobody
  MaxRows = 2
  MaxQty = 2
  MaxLost = 1
  Retries = 0
INVARIANTS
  BooksBalance
  LoopsPour
  ReservationLifecycle
PROPERTIES
  NoResurrection
  ImplementsAccount
