SPECIFICATION Spec
CONSTANTS
  ann = ann  bob = bob  o1 = o1  l1 = l1
  c1 = c1  c2 = c2  i1 = i1  i2 = i2
  Session = {ann, bob}
  Order = {o1}
  List = {l1}
  ListOrder <- OneList
  Carton = {c1, c2}
  CartonList <- OneListCartons
  Size = {S}
  Invoice = {i1, i2}
  MaxQty = 1
  Ceiling = 2
SYMMETRY Symmetry
INVARIANTS
  TypeOK
  LedgerFollowsCartons
  BilledOnce
PROPERTIES
  IssuedIsRecord
  IssuedAsChecked
CHECK_DEADLOCK FALSE
