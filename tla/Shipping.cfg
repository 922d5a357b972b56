SPECIFICATION Spec
CONSTANTS
  ann = ann  bob = bob  e1 = e1  h1 = h1  h2 = h2
  Session = {ann, bob}
  Overrider = {ann}
  Entry = {e1}
  Shipment = {h1, h2}
  Ledger = {"inLine", "shipped"}
  OrderQty = 1
  Ceiling = 1
  MaxQty = 1
SYMMETRY Symmetry
INVARIANTS
  TypeOK
  CacheIsExplained
PROPERTIES
  BeyondIsExplained
